--------------------------- MODULE TurnQueueProofs ---------------------------
(***************************************************************************)
(* Safety of the turn queue for any number of submissions and workers, any *)
(* bound on versions and generations, and any number of faults.            *)
(*                                                                         *)
(* The inductive invariant adds PassBound to the invariants of TurnQueue:  *)
(* a pass carries a generation its turn has already reached, so a step     *)
(* that moves the generation fences every pass there is; and CallsFit, that*)
(* a dispatch failure is written over a turn that exists, whatever else has*)
(* become of it.                                                           *)
(*                                                                         *)
(* The rest is proved of Move, the nine kinds of step the user's queue can *)
(* tell apart: the order of admission (with Positions, that no two rows in *)
(* the queue share a place), the interrupt, and the refinement of TurnSlot;*)
(* then, with EInv, what holds of the executors while nothing has crashed. *)
(***************************************************************************)
EXTENDS TurnQueue, TLAPS

(* A pass belongs to a turn that exists and never runs ahead of it.        *)
PassBound ==
  \A w \in Worker, t \in Submission :
    worker[w].turn = t =>
      turn[t].status # "none" /\ worker[w].generation <= turn[t].generation

(* A dispatch failure is being written only for a turn there is.           *)
CallsFit(calls) ==
  /\ calls \in SUBSET Call
  /\ \A c \in calls : c.kind = "fail" => turn[c.turn].status # "none"

IInv ==
  /\ TypeOK
  /\ CallsFit(inflight)
  /\ SingleLiveTurn
  /\ ClaimsHaveTurns
  /\ OwnedWhileRunning
  /\ GenerationFence
  /\ PassBound

(* What every step owes: the invariant, and the outcomes already written.  *)
SafeStep == IInv' /\ TerminalStep

(* The rows as a transaction has left them when it is about to offer the   *)
(* slot: well typed, consistent with each other, and with no live turn.    *)
FreeSlot(rows, turns) ==
  /\ rows \in [Submission -> SubmissionRow]
  /\ turns \in [Submission -> TurnRow]
  /\ \A s \in Submission :
       /\ rows[s].status = "claimed" <=> turns[s].status # "none"
       /\ turns[s].status \in {"none"} \cup Terminal
       /\ turns[s].owner # None => turns[s].status = "failed"
       /\ turn[s].status # "none" => turns[s].status # "none"
       /\ turn[s].status # "none" => turns[s].generation = turn[s].generation
       /\ turn[s].status \in Terminal => turns[s].status = turn[s].status

(* The passes a step leaves running: it may end some, it starts none.      *)
NoNewPass ==
  /\ worker' \in [Worker -> Pass]
  /\ \A w \in Worker :
       \/ worker'[w].turn = None
       \/ /\ worker'[w].turn = worker[w].turn
          /\ worker'[w].generation = worker[w].generation

-----------------------------------------------------------------------------
(* Types of the rows the operators build.                                  *)

LEMMA NewTurnType == ConstantsOK => NewTurn \in TurnRow
BY DEF NewTurn, NoTurn, TurnRow, Live, Terminal, WaitReason, ConstantsOK

(* The row of a turn that ended has the row type and keeps its generation. *)
LEMMA ClosedType ==
  ASSUME ConstantsOK, NEW row \in TurnRow, NEW final \in Terminal
  PROVE  /\ Closed(row, final) \in TurnRow
         /\ Closed(row, final).status = final
         /\ Closed(row, final).owner = None
         /\ Closed(row, final).generation = row.generation
BY DEF Closed, TurnRow

(* A row whose status, reason or owner moves has the row type.             *)
LEMMA MovedType ==
  ASSUME NEW row \in TurnRow, NEW status \in {"none"} \cup Live \cup Terminal,
         NEW reason \in {"none"} \cup WaitReason, NEW owner \in Worker \cup {None}
  PROVE  /\ [row EXCEPT !.status = status, !.reason = reason] \in TurnRow
         /\ [row EXCEPT !.status = status, !.reason = reason, !.owner = owner] \in TurnRow
BY DEF TurnRow

(* A retained submission is pending or failed.                             *)
LEMMA RetainedFacts ==
  ASSUME NEW rows, NEW s \in Retained(rows)
  PROVE  s \in Submission /\ rows[s].status \in {"pending", "failed"}
BY DEF Retained, Pending, Failed

(* Under the one-live-turn invariant the pointer is never stale.           *)
LEMMA ActiveIsLive ==
  ASSUME TypeOK, SingleLiveTurn
  PROVE  ActiveTurn = active
BY DEF TypeOK, SingleLiveTurn, ActiveTurn, Live, Terminal

(* A retained row has no turn yet.                                         *)
LEMMA RetainedHasNoTurn ==
  ASSUME ClaimsHaveTurns, NEW s \in Retained(sub)
  PROVE  turn[s].status = "none"
BY RetainedFacts DEF ClaimsHaveTurns

(* Offering a free slot re-establishes the invariant, whatever the claim   *)
(* does: admit, reject, or find no candidate.                              *)
LEMMA ClaimIsSafe ==
  ASSUME ConstantsOK, IInv,
         NEW rows, NEW turns, NEW calls, CallsFit(calls), NEW kind \in DispatchKind,
         NEW candidates \in SUBSET Submission,
         \A s \in candidates : rows[s].status # "claimed",
         FreeSlot(rows, turns),
         Claim(candidates, rows, turns, calls, kind),
         NoNewPass,
         broker' \subseteq Submission,
         faults' \in Nat
  PROVE  SafeStep
<1> USE ConstantsOK
<1> DEFINE free == \A w \in Worker, t \in Submission :
                     worker'[w].turn = t =>
                       turns[t].status # "none" /\ worker'[w].generation <= turns[t].generation
<1>0. free
  BY DEF IInv, PassBound, FreeSlot, NoNewPass, ConstantsOK
<1>1. CASE \E s \in candidates : AdmitRow(s, rows, turns, calls, kind)
  <2>1. PICK s \in candidates : AdmitRow(s, rows, turns, calls, kind)
    BY <1>1
  <2>2. /\ sub' = [rows EXCEPT ![s].status = "claimed"]
        /\ turn' = [turns EXCEPT ![s] = NewTurn]
        /\ active' = s
        /\ inflight' = calls \cup {[kind |-> kind, turn |-> s]}
    BY <2>1 DEF AdmitRow
  <2>3. turns[s].status = "none" /\ s \in Submission
    BY DEF FreeSlot
  <2>4. NewTurn \in TurnRow /\ NewTurn.status = "pending" /\ NewTurn.owner = None
    BY NewTurnType DEF NewTurn, NoTurn
  <2>5. TypeOK'
    <3>1. sub' \in [Submission -> SubmissionRow]
      BY <2>2, <2>3 DEF FreeSlot, SubmissionRow
    <3>2. turn' \in [Submission -> TurnRow]
      BY <2>2, <2>4 DEF FreeSlot
    <3>3. inflight' \subseteq Call
      BY <2>2, <2>3 DEF CallsFit, Call, CallKind
    <3> QED  BY <2>2, <2>3, <3>1, <3>2, <3>3 DEF TypeOK, NoNewPass
  <2>6. \A t \in Submission : t # s => turn'[t] = turns[t] /\ sub'[t] = rows[t]
    BY <2>2 DEF FreeSlot
  <2>7. turn'[s] = NewTurn /\ sub'[s].status = "claimed"
    BY <2>2, <2>3 DEF FreeSlot, SubmissionRow
  <2>8. SingleLiveTurn'
    BY <2>2, <2>3, <2>4, <2>6, <2>7 DEF SingleLiveTurn, FreeSlot, Live, Terminal
  <2>9. ClaimsHaveTurns'
    BY <2>4, <2>6, <2>7 DEF ClaimsHaveTurns, FreeSlot
  <2>10. OwnedWhileRunning'
    BY <2>4, <2>6, <2>7 DEF OwnedWhileRunning, FreeSlot, Terminal
  <2>11. \A w \in Worker : worker'[w].turn # s
    BY <1>0, <2>3
  <2>12. GenerationFence'
    BY <1>0, <2>6, <2>11 DEF GenerationFence, FreeSlot
  <2>13. PassBound'
    BY <1>0, <2>6, <2>11 DEF PassBound
  <2>14. TerminalStep
    BY <2>3, <2>6 DEF FreeSlot, TerminalStep, Terminal
  <2>15. CallsFit(inflight)'
    <3>1. kind # "fail"
      BY DEF DispatchKind
    <3>2. ASSUME NEW c \in inflight', c.kind = "fail"
          PROVE  turn'[c.turn].status # "none"
      <4>1. c \in calls /\ c.turn \in Submission /\ turn[c.turn].status # "none"
        BY <2>2, <3>1, <3>2 DEF CallsFit, Call
      <4>2. turns[c.turn].status # "none"
        BY <4>1 DEF FreeSlot
      <4> QED  BY <2>3, <2>6, <4>1, <4>2
    <3> QED  BY <2>5, <3>2 DEF CallsFit, TypeOK
  <2> QED  BY <2>5, <2>8, <2>9, <2>10, <2>12, <2>13, <2>14, <2>15 DEF IInv, SafeStep
<1>2. CASE \E s \in candidates : RejectRow(s, rows, turns, calls)
  <2>1. PICK s \in candidates : RejectRow(s, rows, turns, calls)
    BY <1>2
  <2>2. /\ sub' = [rows EXCEPT ![s].status = "failed"]
        /\ turn' = turns
        /\ active' = None
        /\ inflight' = calls
    BY <2>1 DEF RejectRow
  <2>3. sub' \in [Submission -> SubmissionRow]
    BY <2>2 DEF FreeSlot, SubmissionRow
  <2>4. \A t \in Submission : sub'[t].status = "claimed" <=> rows[t].status = "claimed"
    BY <2>2 DEF FreeSlot, SubmissionRow
  <2>5. TypeOK' /\ CallsFit(inflight)'
    BY <2>2, <2>3 DEF TypeOK, CallsFit, Call, FreeSlot, NoNewPass
  <2>6. SingleLiveTurn' /\ ClaimsHaveTurns' /\ OwnedWhileRunning'
    BY <2>2, <2>4 DEF SingleLiveTurn, ClaimsHaveTurns, OwnedWhileRunning, FreeSlot,
                      Live, Terminal, ConstantsOK
  <2>7. GenerationFence' /\ PassBound'
    BY <1>0, <2>2 DEF GenerationFence, PassBound, FreeSlot
  <2>8. TerminalStep
    BY <2>2 DEF FreeSlot, TerminalStep
  <2> QED  BY <2>5, <2>6, <2>7, <2>8 DEF IInv, SafeStep
<1>3. CASE sub' = rows /\ turn' = turns /\ active' = None /\ inflight' = calls
  <2>1. TypeOK' /\ CallsFit(inflight)'
    BY <1>3 DEF TypeOK, CallsFit, Call, FreeSlot, NoNewPass
  <2>2. SingleLiveTurn' /\ ClaimsHaveTurns' /\ OwnedWhileRunning'
    BY <1>3 DEF SingleLiveTurn, ClaimsHaveTurns, OwnedWhileRunning, FreeSlot,
                Live, Terminal, ConstantsOK
  <2>3. GenerationFence' /\ PassBound'
    BY <1>0, <1>3 DEF GenerationFence, PassBound, FreeSlot
  <2>4. TerminalStep
    BY <1>3 DEF FreeSlot, TerminalStep
  <2> QED  BY <2>1, <2>2, <2>3, <2>4 DEF IInv, SafeStep
<1> QED  BY <1>1, <1>2, <1>3 DEF Claim

-----------------------------------------------------------------------------
(* Closing a live turn keeps the invariant, whoever closes it.             *)
LEMMA TerminalizeIsSafe ==
  ASSUME ConstantsOK, IInv,
         NEW t \in Submission, NEW final \in Terminal, NEW calls, CallsFit(calls),
         turn[t].status \in Live,
         Terminalize(t, final, calls),
         NoNewPass,
         broker' \subseteq Submission,
         faults' \in Nat
  PROVE  SafeStep
<1> DEFINE turns == [turn EXCEPT ![t] = Closed(@, final)]
<1>1. active = t
  BY DEF IInv, SingleLiveTurn
<1>2. Claim(Successor(t), sub, turns, calls, "handoff")
  BY <1>1 DEF Terminalize
<1>3. turn[t] \in TurnRow
  BY DEF IInv, TypeOK
<1>4. /\ Closed(turn[t], final) \in TurnRow
      /\ Closed(turn[t], final).status = final
      /\ Closed(turn[t], final).owner = None
      /\ Closed(turn[t], final).generation = turn[t].generation
  BY <1>3, ClosedType
<1>5. turns \in [Submission -> TurnRow]
  BY <1>4 DEF IInv, TypeOK
<1>6. \A s \in Submission : s # t => turns[s] = turn[s] /\ turn[s].status \notin Live
  BY <1>1 DEF IInv, TypeOK, SingleLiveTurn
<1>7. turns[t] = Closed(turn[t], final)
  BY DEF IInv, TypeOK
<1>8. \A s \in Submission : s # t =>
        /\ turn[s].status \in {"none"} \cup Terminal
        /\ turn[s].owner # None => turn[s].status = "failed"
  BY <1>6 DEF IInv, TypeOK, OwnedWhileRunning, TurnRow, Live
<1>9. \A s \in Submission : sub[s].status = "claimed" <=> turns[s].status # "none"
  BY <1>4, <1>6, <1>7 DEF IInv, ClaimsHaveTurns, Live, Terminal
<1>10. FreeSlot(sub, turns)
  <2> HIDE DEF turns
  <2>1. \A s \in Submission :
          /\ turns[s].status \in {"none"} \cup Terminal
          /\ turns[s].owner # None => turns[s].status = "failed"
          /\ turn[s].status # "none" => turns[s].status # "none"
          /\ turn[s].status # "none" => turns[s].generation = turn[s].generation
          /\ turn[s].status \in Terminal => turns[s].status = turn[s].status
    BY <1>4, <1>6, <1>7, <1>8 DEF Terminal, Live
  <2> QED  BY <1>5, <1>9, <2>1 DEF FreeSlot, IInv, TypeOK
<1>11. \A s \in Successor(t) : s \in Submission /\ sub[s].status # "claimed"
  BY RetainedFacts DEF Successor, Selected, NextInLine, Pending, Retained
<1> HIDE DEF turns
<1> QED  BY <1>2, <1>10, <1>11, ClaimIsSafe DEF DispatchKind

(* A step that changes one row of the turn table, without admitting or     *)
(* ending a turn, and starts no pass.  The row keeps its lease or moves to *)
(* a new generation.                                                       *)
OneRowChanges(t) ==
  /\ turn' \in [Submission -> TurnRow]
  /\ \A s \in Submission : s # t => turn'[s] = turn[s]
  /\ turn[t].status \in Live /\ turn'[t].status \in Live
  /\ turn'[t].owner # None <=> turn'[t].status = "running"
  /\ \/ turn'[t].generation = turn[t].generation /\ turn'[t].owner = turn[t].owner
     \/ turn'[t].generation > turn[t].generation

SameClaims ==
  /\ sub' \in [Submission -> SubmissionRow]
  /\ \A s \in Submission : sub'[s].status = "claimed" <=> sub[s].status = "claimed"

(* A step that moves one live row, or fences it with a new generation, is  *)
(* safe: no pass holds the new generation.                                 *)
LEMMA RowStepIsSafe ==
  ASSUME ConstantsOK, IInv, NEW t \in Submission, OneRowChanges(t), SameClaims,
         active' = active, CallsFit(inflight'), broker' \subseteq Submission,
         NoNewPass, faults' \in Nat
  PROVE  SafeStep
<1>2. TypeOK' /\ CallsFit(inflight)'
  <2>1. TypeOK'
    BY DEF IInv, TypeOK, CallsFit, NoNewPass, OneRowChanges, SameClaims
  <2>2. \A c \in inflight' : c.kind = "fail" => turn'[c.turn].status # "none"
    BY DEF CallsFit, Call, OneRowChanges, Live
  <2> QED  BY <2>1, <2>2 DEF CallsFit, TypeOK
<1>3. SingleLiveTurn' /\ ClaimsHaveTurns' /\ OwnedWhileRunning'
  BY DEF IInv, SingleLiveTurn, ClaimsHaveTurns, OwnedWhileRunning, Live,
         OneRowChanges, SameClaims
<1>4. turn[t].generation \in Nat /\ turn'[t].generation \in Nat
  BY DEF IInv, TypeOK, TurnRow, OneRowChanges
<1>5. \A w \in Worker : worker[w].generation \in Nat
  BY DEF IInv, TypeOK, Pass
<1>6. PassBound'
  BY <1>4, <1>5 DEF IInv, PassBound, NoNewPass, ConstantsOK, Live, OneRowChanges
<1>7. GenerationFence'
  <2> SUFFICES ASSUME NEW w \in Worker, NEW s \in Submission,
                      worker'[w].turn = s, worker'[w].generation = turn'[s].generation
               PROVE  turn'[s].status \in Terminal \/ turn'[s].owner = w
    BY DEF GenerationFence
  <2>1. worker[w].turn = s /\ worker[w].generation = turn'[s].generation
    BY DEF NoNewPass, ConstantsOK
  <2>2. CASE s # t
    BY <2>1, <2>2 DEF IInv, GenerationFence, OneRowChanges
  <2>3. CASE s = t /\ turn'[t].generation > turn[t].generation
    BY <1>4, <1>5, <2>1, <2>3 DEF IInv, PassBound
  <2>4. CASE /\ s = t
             /\ turn'[t].generation = turn[t].generation
             /\ turn'[t].owner = turn[t].owner
    BY <2>1, <2>4 DEF IInv, GenerationFence, OneRowChanges, Live, Terminal
  <2> QED  BY <2>2, <2>3, <2>4 DEF OneRowChanges
<1>8. TerminalStep
  BY DEF OneRowChanges, TerminalStep, Live, Terminal
<1> QED  BY <1>2, <1>3, <1>6, <1>7, <1>8 DEF IInv, SafeStep

(* A step that moves no turn: no status, lease or generation changes.      *)
SameTurns ==
  /\ turn' \in [Submission -> TurnRow]
  /\ \A t \in Submission :
       /\ turn'[t].status = turn[t].status
       /\ turn'[t].owner = turn[t].owner
       /\ turn'[t].generation = turn[t].generation

(* A step that moves no turn and no claim is safe.                         *)
LEMMA QuietStepIsSafe ==
  ASSUME ConstantsOK, IInv, SameTurns, SameClaims, active' = active,
         CallsFit(inflight'), broker' \subseteq Submission,
         NoNewPass, faults' \in Nat
  PROVE  SafeStep
<1>1. TypeOK' /\ CallsFit(inflight)'
  <2>1. TypeOK'
    BY DEF IInv, TypeOK, CallsFit, NoNewPass, SameClaims, SameTurns
  <2>2. \A c \in inflight' : c.kind = "fail" => turn'[c.turn].status # "none"
    BY DEF CallsFit, Call, SameTurns
  <2> QED  BY <2>1, <2>2 DEF CallsFit, TypeOK
<1>2. SingleLiveTurn' /\ ClaimsHaveTurns' /\ OwnedWhileRunning'
  BY DEF IInv, SingleLiveTurn, ClaimsHaveTurns, OwnedWhileRunning, SameClaims, SameTurns
<1>3. PassBound' /\ GenerationFence'
  BY DEF IInv, PassBound, GenerationFence, NoNewPass, ConstantsOK, SameTurns
<1>4. TerminalStep
  BY DEF SameTurns, TerminalStep
<1> QED  BY <1>1, <1>2, <1>3, <1>4 DEF IInv, SafeStep

-----------------------------------------------------------------------------
(* An idle Conversation has a free slot, whatever the step does to rows    *)
(* that were not claimed.                                                  *)
LEMMA IdleIsFree ==
  ASSUME ConstantsOK, IInv, active = None,
         NEW rows, rows \in [Submission -> SubmissionRow],
         \A s \in Submission : rows[s].status = "claimed" <=> sub[s].status = "claimed"
  PROVE  FreeSlot(rows, turn)
<1>1. \A s \in Submission : turn[s].status \in {"none"} \cup Terminal
  BY DEF IInv, TypeOK, TurnRow, SingleLiveTurn, ConstantsOK
<1>2. \A s \in Submission : turn[s].owner # None => turn[s].status = "failed"
  BY <1>1 DEF IInv, OwnedWhileRunning, Terminal
<1> QED  BY <1>1, <1>2 DEF FreeSlot, IInv, TypeOK, ClaimsHaveTurns

(* A step that leaves the workers alone starts no pass.                    *)
LEMMA SamePasses ==
  ASSUME TypeOK, worker' = worker
  PROVE  NoNewPass
BY DEF TypeOK, NoNewPass

(* The inductive invariant holds at the start.                             *)
LEMMA InitEstablishesIInv ==
  ASSUME ConstantsOK, Init
  PROVE  IInv
<1>1. NoTurn \in TurnRow
  BY DEF NoTurn, TurnRow
<1>2. TypeOK
  BY <1>1 DEF Init, TypeOK, SubmissionRow, Idle, Pass
<1>3. SingleLiveTurn /\ ClaimsHaveTurns /\ OwnedWhileRunning
  BY DEF Init, SingleLiveTurn, ClaimsHaveTurns, OwnedWhileRunning, NoTurn, Live, ConstantsOK
<1>4. GenerationFence /\ PassBound /\ CallsFit(inflight)
  BY DEF Init, GenerationFence, PassBound, CallsFit, Idle, ConstantsOK
<1> QED  BY <1>2, <1>3, <1>4 DEF IInv

(* The calls in flight stay typed when one of them ends.                   *)
LEMMA CallsAreTyped ==
  ASSUME CallsFit(inflight), NEW c \in inflight
  PROVE  c.turn \in Submission /\ CallsFit(inflight \ {c}) /\ CallsFit(inflight)
BY DEF CallsFit, Call

(* A call that does not fail a turn can always be added.                   *)
LEMMA CallIsAdded ==
  ASSUME NEW calls, CallsFit(calls), NEW kind \in CallKind, kind # "fail", NEW t \in Submission
  PROVE  CallsFit(calls \cup {[kind |-> kind, turn |-> t]})
<1>1. [kind |-> kind, turn |-> t] \in Call
  BY DEF Call
<1> QED  BY <1>1 DEF CallsFit

-----------------------------------------------------------------------------
(* The user's commands.                                                    *)

LEMMA AdmitIsSafe ==
  ASSUME ConstantsOK, IInv, NEW s \in Submission, Admit(s)
  PROVE  SafeStep
<1>1. PICK last \in {sub[r].position : r \in Submission} :
        LET rows == [sub EXCEPT ![s] =
                       [status |-> "pending", version |-> 1, position |-> last + 1]]
        IN  \/ /\ ActiveTurn = None /\ Retained(sub) = {}
               /\ Claim({s}, rows, turn, inflight, "ingress")
            \/ /\ ~(ActiveTurn = None /\ Retained(sub) = {})
               /\ sub' = rows
               /\ active' = ActiveTurn
               /\ UNCHANGED <<turn, inflight>>
  BY DEF Admit
<1> DEFINE rows == [sub EXCEPT ![s] =
                      [status |-> "pending", version |-> 1, position |-> last + 1]]
<1>2. last \in Nat
  BY DEF IInv, TypeOK, SubmissionRow
<1>3. rows \in [Submission -> SubmissionRow]
  BY <1>2 DEF IInv, TypeOK, SubmissionRow
<1>4. rows[s].status = "pending" /\ sub[s].status = "none"
  BY DEF Admit, IInv, TypeOK
<1>5. \A r \in Submission : rows[r].status = "claimed" <=> sub[r].status = "claimed"
  BY <1>4 DEF IInv, TypeOK
<1>6. UNCHANGED <<broker, worker, faults>> /\ NoNewPass
  BY SamePasses DEF Admit, IInv
<1>7. ActiveTurn = active
  BY ActiveIsLive DEF IInv
<1> HIDE DEF rows
<1>8. CASE active = None /\ Claim({s}, rows, turn, inflight, "ingress")
  <2>1. FreeSlot(rows, turn)
    BY <1>3, <1>5, <1>8, IdleIsFree
  <2>2. {s} \in SUBSET Submission /\ \A r \in {s} : rows[r].status # "claimed"
    BY <1>4
  <2>3. CallsFit(inflight) /\ broker' \subseteq Submission /\ faults' \in Nat
    BY <1>6 DEF IInv, TypeOK
  <2> QED  BY <1>6, <1>8, <2>1, <2>2, <2>3, ClaimIsSafe DEF DispatchKind
<1>9. CASE sub' = rows /\ UNCHANGED <<active, turn, inflight>>
  BY <1>3, <1>5, <1>6, <1>9, QuietStepIsSafe DEF SameTurns, SameClaims, IInv, TypeOK
<1> QED  BY <1>1, <1>7, <1>8, <1>9 DEF rows

(* An edit touches only a row that was not claimed.                        *)
LEMMA UpdatePendingIsSafe ==
  ASSUME ConstantsOK, IInv, NEW s \in Submission, UpdatePending(s)
  PROVE  SafeStep
<1>1. SameClaims
  BY RetainedFacts DEF UpdatePending, SameClaims, IInv, TypeOK, SubmissionRow
<1> QED  BY <1>1, SamePasses, QuietStepIsSafe DEF UpdatePending, SameTurns, IInv, TypeOK

(* A retried row is offered the slot of an idle Conversation.              *)
LEMMA RetryIsSafe ==
  ASSUME ConstantsOK, IInv, NEW s \in Submission, Retry(s)
  PROVE  SafeStep
<1>1. ActiveTurn = active
  BY ActiveIsLive DEF IInv
<1>2. sub[s].status # "claimed"
  BY RetainedFacts DEF Retry, Retryable
<1>3. UNCHANGED <<broker, worker, faults>> /\ NoNewPass
  BY SamePasses DEF Retry, IInv
<1>4. CASE sub' = [sub EXCEPT ![s].status = "pending"] /\ UNCHANGED <<turn, active, inflight>>
  <2>1. SameClaims
    BY <1>2, <1>4 DEF SameClaims, IInv, TypeOK, SubmissionRow
  <2> QED  BY <1>3, <1>4, <2>1, QuietStepIsSafe DEF SameTurns, IInv, TypeOK
<1>5. CASE active = None /\ Claim({s}, sub, turn, inflight, "ingress")
  <2>1. FreeSlot(sub, turn)
    BY <1>5, IdleIsFree DEF IInv, TypeOK
  <2>2. {s} \in SUBSET Submission /\ \A r \in {s} : sub[r].status # "claimed"
    BY <1>2
  <2>3. CallsFit(inflight) /\ broker' \subseteq Submission /\ faults' \in Nat
    BY <1>3 DEF IInv, TypeOK
  <2> QED  BY <1>3, <1>5, <2>1, <2>2, <2>3, ClaimIsSafe DEF DispatchKind
<1> QED  BY <1>1, <1>4, <1>5 DEF Retry

(* A withdrawn row leaves, and an idle Conversation's slot is offered on.  *)
LEMMA WithdrawIsSafe ==
  ASSUME ConstantsOK, IInv, NEW s \in Submission, Withdraw(s)
  PROVE  SafeStep
<1> DEFINE rows == [sub EXCEPT ![s].status = "withdrawn"]
<1>1. ActiveTurn = active
  BY ActiveIsLive DEF IInv
<1>2. sub[s].status # "claimed"
  BY RetainedFacts DEF Withdraw
<1>3. UNCHANGED <<broker, worker, faults>> /\ NoNewPass
  BY SamePasses DEF Withdraw, IInv
<1>4. rows \in [Submission -> SubmissionRow]
  BY DEF IInv, TypeOK, SubmissionRow
<1>5. \A r \in Submission : rows[r].status = "claimed" <=> sub[r].status = "claimed"
  BY <1>2 DEF IInv, TypeOK, SubmissionRow
<1>6. \A r \in NextInLine(sub) : r \in Submission /\ rows[r].status # "claimed"
  BY <1>5 DEF NextInLine, Pending
<1>7. \/ sub' = rows /\ UNCHANGED <<turn, active, inflight>>
      \/ active = None /\ Claim(NextInLine(sub), rows, turn, inflight, "ingress")
  BY <1>1 DEF Withdraw
<1> HIDE DEF rows
<1>8. CASE sub' = rows /\ UNCHANGED <<turn, active, inflight>>
  BY <1>3, <1>4, <1>5, <1>8, QuietStepIsSafe DEF SameTurns, SameClaims, IInv, TypeOK
<1>9. CASE active = None /\ Claim(NextInLine(sub), rows, turn, inflight, "ingress")
  <2>1. FreeSlot(rows, turn)
    BY <1>4, <1>5, <1>9, IdleIsFree
  <2> QED  BY <1>3, <1>6, <1>9, <2>1, ClaimIsSafe DEF DispatchKind, IInv, TypeOK
<1> QED  BY <1>7, <1>8, <1>9

(* An interrupt names the next submission and fences the pass that runs.   *)
LEMMA InterruptIsSafe ==
  ASSUME ConstantsOK, IInv, NEW t \in Submission, NEW s \in Submission, Interrupt(t, s)
  PROVE  SafeStep
<1>1. turn' \in [Submission -> TurnRow]
  BY DEF Interrupt, IInv, TypeOK, TurnRow, SubmissionRow
<1>2. \A r \in Submission : r # t => turn'[r] = turn[r]
  BY DEF Interrupt, IInv, TypeOK, TurnRow
<1>3. /\ turn'[t].status = turn[t].status /\ turn'[t].owner = turn[t].owner
      /\ turn'[t].generation = turn[t].generation + 1
  BY DEF Interrupt, IInv, TypeOK, TurnRow
<1>4. turn[t].generation \in Nat
  BY DEF IInv, TypeOK, TurnRow
<1>5. OneRowChanges(t)
  BY <1>1, <1>2, <1>3, <1>4 DEF OneRowChanges, Interrupt, IInv, OwnedWhileRunning, Live
<1>6. SameClaims
  BY RetainedFacts DEF Interrupt, SameClaims, IInv, TypeOK, SubmissionRow
<1>7. CallsFit(inflight')
  BY CallIsAdded DEF Interrupt, IInv, CallKind
<1>8. UNCHANGED <<active, broker, worker, faults>> /\ NoNewPass
  BY SamePasses DEF Interrupt, IInv
<1> QED  BY <1>5, <1>6, <1>7, <1>8, RowStepIsSafe DEF IInv, TypeOK

(* A repeated interrupt leaves the tables as they are.                     *)
LEMMA RepeatInterruptIsSafe ==
  ASSUME ConstantsOK, IInv, NEW t \in Submission, RepeatInterrupt(t)
  PROVE  SafeStep
<1>1. CallsFit(inflight')
  BY CallIsAdded DEF RepeatInterrupt, IInv, CallKind
<1> QED  BY <1>1, SamePasses, QuietStepIsSafe DEF RepeatInterrupt, SameTurns, SameClaims, IInv, TypeOK

-----------------------------------------------------------------------------
(* Cancels, resumes and broker calls.                                      *)

LEMMA FlagCancelIsSafe ==
  ASSUME ConstantsOK, IInv, NEW t \in Submission, NEW calls, CallsFit(calls),
         FlagCancel(t, calls)
  PROVE  SafeStep
<1>1. SameTurns
  <2>1. PICK flag \in BOOLEAN : turn' = [turn EXCEPT ![t].cancel = flag]
    <3>1. (turn[t].cancel \/ turn[t].status \in Live) \in BOOLEAN
      OBVIOUS
    <3> QED  BY <3>1 DEF FlagCancel
  <2>2. turn' \in [Submission -> TurnRow]
    BY <2>1 DEF IInv, TypeOK, TurnRow
  <2> QED  BY <2>1, <2>2 DEF SameTurns, IInv, TypeOK, TurnRow
<1>2. CallsFit(inflight')
  BY CallIsAdded DEF FlagCancel, CallKind
<1>3. SameClaims
  BY DEF FlagCancel, SameClaims, IInv, TypeOK
<1>4. UNCHANGED <<active, broker, worker, faults>>
  BY DEF FlagCancel
<1> QED
  BY <1>1, <1>2, <1>3, <1>4, SamePasses, QuietStepIsSafe DEF IInv, TypeOK

(* The second transaction of a cancel closes the turn, or finds nothing to *)
(* close.                                                                  *)
LEMMA SettleCancelIsSafe ==
  ASSUME ConstantsOK, IInv, NEW c \in inflight, SettleCancel(c)
  PROVE  SafeStep
<1>1. c.turn \in Submission /\ CallsFit(inflight \ {c})
  BY CallsAreTyped DEF IInv
<1>2. UNCHANGED <<broker, worker, faults>> /\ NoNewPass
  BY SamePasses DEF SettleCancel, IInv
<1>3. broker' \subseteq Submission /\ faults' \in Nat
  BY <1>2 DEF IInv, TypeOK
<1>4. CASE /\ turn[c.turn].status \in {"pending", "waiting"}
           /\ Terminalize(c.turn, "cancelled", inflight \ {c})
  BY <1>1, <1>2, <1>3, <1>4, TerminalizeIsSafe DEF Live, Terminal
<1>5. CASE inflight' = inflight \ {c} /\ UNCHANGED <<sub, turn, active>>
  <2>1. SameTurns /\ SameClaims
    BY <1>5 DEF SameTurns, SameClaims, IInv, TypeOK
  <2> QED  BY <1>1, <1>2, <1>3, <1>5, <2>1, QuietStepIsSafe
<1> QED  BY <1>4, <1>5 DEF SettleCancel

(* A waiting turn goes back to pending under its own generation.           *)
LEMMA ResumeIsSafe ==
  ASSUME ConstantsOK, IInv, NEW t \in Submission, NEW reason, NEW kind \in DispatchKind,
         Resume(t, reason, kind)
  PROVE  SafeStep
<1>1. turn' \in [Submission -> TurnRow]
  BY DEF Resume, IInv, TypeOK, TurnRow, Live, WaitReason
<1>2. \A r \in Submission : r # t => turn'[r] = turn[r]
  BY DEF Resume, IInv, TypeOK, TurnRow
<1>3. /\ turn'[t].status = "pending" /\ turn'[t].owner = None
      /\ turn'[t].generation = turn[t].generation + 1
  BY DEF Resume, IInv, TypeOK, TurnRow
<1>4. turn[t].generation \in Nat
  BY DEF IInv, TypeOK, TurnRow
<1>5. OneRowChanges(t)
  BY <1>1, <1>2, <1>3, <1>4 DEF OneRowChanges, Resume, Live
<1>6. SameClaims
  BY DEF Resume, SameClaims, IInv, TypeOK
<1>7. CallsFit(inflight')
  BY CallIsAdded DEF Resume, IInv, CallKind, DispatchKind
<1>8. UNCHANGED <<active, broker, worker, faults>> /\ NoNewPass
  BY SamePasses DEF Resume, IInv
<1>9. broker' \subseteq Submission /\ faults' \in Nat
  BY <1>8 DEF IInv, TypeOK
<1> QED  BY <1>5, <1>6, <1>7, <1>8, <1>9, RowStepIsSafe

(* A turn failed without a successor leaves the Conversation idle, or, when*)
(* it had ended before, changes nothing but its outcome.                   *)
LEMMA CloseUnsentIsSafe ==
  ASSUME ConstantsOK, IInv, NEW c \in inflight, CloseUnsent(c)
  PROVE  SafeStep
<1> DEFINE t == c.turn
<1>1. /\ t \in Submission /\ turn[t].status # "none" /\ LosesBroker(t)
      /\ turn' = [turn EXCEPT ![t].status = "failed"]
      /\ active' = (IF active = t THEN None ELSE active)
      /\ inflight' = inflight \ {c}
      /\ UNCHANGED <<sub, broker, worker, faults>>
  <2>1. t \in Submission /\ turn[t].status # "none"
    BY DEF CloseUnsent, IInv, CallsFit, Call
  <2>2. LosesBroker(t)
    BY DEF CloseUnsent, LosesBroker
  <2> QED  BY <2>1, <2>2 DEF CloseUnsent, FailWithoutHandoff
<1> HIDE DEF t
<1>2. turn \in [Submission -> TurnRow]
  BY DEF IInv, TypeOK
<1>3. /\ turn' \in [Submission -> TurnRow]
      /\ turn'[t].status = "failed" /\ turn'[t].owner = turn[t].owner
      /\ turn'[t].generation = turn[t].generation
      /\ \A r \in Submission : r # t => turn'[r] = turn[r]
  BY <1>1, <1>2 DEF TurnRow, Terminal
<1>4. TypeOK'
  BY <1>1, <1>3 DEF IInv, TypeOK
<1>5. SingleLiveTurn'
  <2>1. turn[t].status \in Live <=> active = t
    BY <1>1 DEF IInv, SingleLiveTurn
  <2>2. ASSUME NEW r \in Submission
        PROVE  turn'[r].status \in Live <=> active' = r
    <3>1. CASE r = t
      BY <1>1, <1>3, <3>1 DEF Live, ConstantsOK
    <3>2. CASE r # t
      BY <1>1, <1>3, <3>2 DEF IInv, SingleLiveTurn, ConstantsOK
    <3> QED  BY <3>1, <3>2
  <2> QED  BY <2>2 DEF SingleLiveTurn
<1>6. ClaimsHaveTurns' /\ OwnedWhileRunning'
  BY <1>1, <1>3 DEF IInv, ClaimsHaveTurns, OwnedWhileRunning
<1>7. GenerationFence' /\ PassBound'
  BY <1>1, <1>3 DEF IInv, GenerationFence, PassBound, Terminal
<1>8. CallsFit(inflight)'
  BY <1>1, <1>3 DEF IInv, CallsFit, Call
<1>9. TerminalStep
  BY <1>1, <1>3 DEF TerminalStep
<1> QED  BY <1>4, <1>5, <1>6, <1>7, <1>8, <1>9 DEF IInv, SafeStep

(* The broker takes a message, or its refusal fails the turn, at once or by*)
(* a later write.                                                          *)
LEMMA DispatchIsSafe ==
  ASSUME ConstantsOK, IInv, NEW c \in inflight, DispatchSucceeds(c) \/ DispatchFails(c)
  PROVE  SafeStep
<1>1. c.turn \in Submission /\ CallsFit(inflight \ {c})
  BY CallsAreTyped DEF IInv
<1>2. UNCHANGED <<worker, faults>> /\ NoNewPass /\ faults' \in Nat
  BY SamePasses DEF DispatchSucceeds, DispatchFails, IInv, TypeOK
<1>3. broker' \subseteq Submission
  BY <1>1 DEF DispatchSucceeds, DispatchFails, IInv, TypeOK
<1>4. CASE UNCHANGED <<sub, turn, active>> /\ inflight' = inflight \ {c}
  <2>1. SameTurns /\ SameClaims
    BY <1>4 DEF SameTurns, SameClaims, IInv, TypeOK
  <2> QED  BY <1>1, <1>2, <1>3, <1>4, <2>1, QuietStepIsSafe
<1>5. CASE /\ turn[c.turn].status = "pending"
           /\ Terminalize(c.turn, "failed", inflight \ {c})
  BY <1>1, <1>2, <1>3, <1>5, TerminalizeIsSafe DEF Live, Terminal
<1>6. CASE /\ turn[c.turn].status = "pending"
           /\ inflight' = (inflight \ {c}) \cup {[kind |-> "fail", turn |-> c.turn]}
           /\ UNCHANGED <<sub, turn, active>>
  <2>1. SameTurns /\ SameClaims
    BY <1>6 DEF SameTurns, SameClaims, IInv, TypeOK
  <2>2. [kind |-> "fail", turn |-> c.turn] \in Call
    BY <1>1 DEF Call, CallKind
  <2>3. CallsFit(inflight')
    BY <1>1, <1>6, <2>2 DEF CallsFit
  <2> QED  BY <1>2, <1>3, <1>6, <2>1, <2>3, QuietStepIsSafe
<1> QED  BY <1>4, <1>5, <1>6 DEF DispatchSucceeds, DispatchFails

-----------------------------------------------------------------------------
(* The worker.                                                             *)

(* The claim hands the current generation to exactly one pass: by the fence*)
(* no other pass carries it while the turn is pending.                     *)
LEMMA DeliverIsSafe ==
  ASSUME ConstantsOK, IInv, NEW w \in Worker, NEW t \in Submission, Deliver(w, t)
  PROVE  SafeStep
<1>1. UNCHANGED <<sub, active, inflight, faults>> /\ broker' \subseteq Submission
  BY DEF Deliver, IInv, TypeOK
<1>2. CASE UNCHANGED <<turn, worker>>
  <2>1. SameTurns /\ SameClaims
    BY <1>1, <1>2 DEF SameTurns, SameClaims, IInv, TypeOK
  <2> QED
    BY <1>1, <1>2, <2>1, SamePasses, QuietStepIsSafe DEF IInv, TypeOK
<1>3. CASE /\ turn[t].status = "pending"
           /\ turn' = [turn EXCEPT ![t].status = "running", ![t].reason = "none",
                                   ![t].owner = w]
           /\ worker' = [worker EXCEPT ![w] =
                           [turn |-> t, generation |-> turn[t].generation,
                            cancelling |-> FALSE]]
  <2>1. turn' \in [Submission -> TurnRow]
    <3>1. "running" \in {"none"} \cup Live \cup Terminal /\ "none" \in {"none"} \cup WaitReason
      BY DEF Live
    <3>2. turn \in [Submission -> TurnRow]
      BY DEF IInv, TypeOK
    <3>3. [turn[t] EXCEPT !.status = "running", !.reason = "none", !.owner = w] \in TurnRow
      BY <3>1, <3>2, MovedType
    <3> QED  BY <1>3, <3>2, <3>3
  <2>2. \A r \in Submission : r # t => turn'[r] = turn[r]
    BY <1>3 DEF IInv, TypeOK
  <2>3. /\ turn'[t].status = "running" /\ turn'[t].owner = w
        /\ turn'[t].generation = turn[t].generation /\ turn[t].generation \in Nat
    BY <1>3 DEF IInv, TypeOK, TurnRow
  <2>4. /\ worker' \in [Worker -> Pass]
        /\ worker'[w].turn = t /\ worker'[w].generation = turn[t].generation
        /\ \A v \in Worker : v # w => worker'[v] = worker[v]
    BY <1>3, <2>3 DEF IInv, TypeOK, Pass
  <2>5. TypeOK' /\ CallsFit(inflight)'
    <3>1. TypeOK'
      BY <1>1, <2>1, <2>4 DEF IInv, TypeOK
    <3>2. \A c \in inflight : c.kind = "fail" => turn'[c.turn].status # "none"
      BY <2>2, <2>3 DEF IInv, CallsFit, Call
    <3> QED  BY <1>1, <3>1, <3>2 DEF CallsFit, IInv
  <2>6. SingleLiveTurn' /\ ClaimsHaveTurns'
    BY <1>1, <1>3, <2>2, <2>3 DEF IInv, SingleLiveTurn, ClaimsHaveTurns, Live
  <2>9. OwnedWhileRunning'
    BY <2>2, <2>3 DEF IInv, OwnedWhileRunning, ConstantsOK
  <2>7. \A v \in Worker : ~(worker[v].turn = t /\ worker[v].generation = turn[t].generation)
    BY <1>3 DEF IInv, GenerationFence, OwnedWhileRunning, Terminal, ConstantsOK
  <2>8. GenerationFence'
    BY <2>2, <2>3, <2>4, <2>7 DEF IInv, GenerationFence
  <2>10. PassBound'
    BY <2>2, <2>3, <2>4 DEF IInv, PassBound
  <2>11. TerminalStep
    BY <1>3, <2>2 DEF TerminalStep, Terminal
  <2> QED  BY <2>5, <2>6, <2>8, <2>9, <2>10, <2>11 DEF IInv, SafeStep
<1> QED  BY <1>2, <1>3 DEF Deliver

(* A pass that stops executing changes no row.                             *)
LEMMA StopPassIsSafe ==
  ASSUME ConstantsOK, IInv, NEW w \in Worker, StopPass(w)
  PROVE  SafeStep
<1>1. NoNewPass
  BY DEF StopPass, NoNewPass, IInv, TypeOK, Pass
<1>2. SameTurns /\ SameClaims
  BY DEF StopPass, SameTurns, SameClaims, IInv, TypeOK
<1>3. active' = active /\ CallsFit(inflight') /\ broker' \subseteq Submission /\ faults' \in Nat
  BY DEF StopPass, IInv, TypeOK
<1> QED  BY <1>1, <1>2, <1>3, QuietStepIsSafe

(* A pass that ends leaves its worker idle.                                *)
LEMMA IdleIsNoNewPass ==
  ASSUME TypeOK, NEW w \in Worker, worker' = [worker EXCEPT ![w] = Idle]
  PROVE  NoNewPass /\ worker'[w].turn = None /\ \A v \in Worker : v # w => worker'[v] = worker[v]
<1>1. Idle \in Pass /\ Idle.turn = None
  BY DEF Idle, Pass
<1>2. worker'[w] = Idle /\ worker' \in [Worker -> Pass]
  BY <1>1 DEF TypeOK
<1>3. \A v \in Worker : v # w => worker'[v] = worker[v]
  BY DEF TypeOK
<1>4. worker'[w].turn = None
  BY <1>1, <1>2
<1>5. NoNewPass
  BY <1>2, <1>3, <1>4 DEF NoNewPass
<1> QED  BY <1>3, <1>4, <1>5

(* A pass that ends settles the turn only if it still owns it.             *)
LEMMA FinishPassIsSafe ==
  ASSUME ConstantsOK, IInv, NEW w \in Worker, FinishPass(w)
  PROVE  SafeStep
<1>1. NoNewPass /\ broker' \subseteq Submission /\ faults' \in Nat
  BY IdleIsNoNewPass DEF FinishPass, IInv, TypeOK
<1>2. CASE Owns(w) /\ \E final \in Outcome : Terminalize(worker[w].turn, final, inflight)
  <2>1. PICK final \in Terminal : Terminalize(worker[w].turn, final, inflight)
    BY <1>2 DEF Outcome
  <2>2. worker[w].turn \in Submission /\ turn[worker[w].turn].status \in Live
    BY <1>2 DEF Owns, Live, IInv, TypeOK, Pass
  <2>3. CallsFit(inflight)
    BY DEF IInv
  <2> QED  BY <1>1, <2>1, <2>2, <2>3, TerminalizeIsSafe
<1>3. CASE UNCHANGED <<sub, turn, active, inflight>>
  <2>1. SameTurns /\ SameClaims /\ CallsFit(inflight')
    BY <1>3 DEF SameTurns, SameClaims, IInv, TypeOK
  <2> QED  BY <1>1, <1>3, <2>1, QuietStepIsSafe
<1> QED  BY <1>2, <1>3 DEF FinishPass

(* The lease is released with the generation unchanged, so the fence now   *)
(* rests on the released pass being the only one that carried it.          *)
LEMMA WaitPassIsSafe ==
  ASSUME ConstantsOK, IInv, NEW w \in Worker, NEW reason \in WaitReason, WaitPass(w, reason)
  PROVE  SafeStep
<1> DEFINE t == worker[w].turn
<1>1. /\ t \in Submission /\ turn[t].status = "running" /\ turn[t].owner = w
  BY DEF WaitPass, Owns, IInv, TypeOK, Pass
<1>2. turn' \in [Submission -> TurnRow]
  <2>1. "waiting" \in {"none"} \cup Live \cup Terminal /\ reason \in {"none"} \cup WaitReason
    BY DEF Live
  <2> QED  BY <1>1, <2>1 DEF WaitPass, IInv, TypeOK, TurnRow
<1>3. \A r \in Submission : r # t => turn'[r] = turn[r]
  BY DEF WaitPass, IInv, TypeOK
<1>4. /\ turn'[t].status = "waiting" /\ turn'[t].owner = None
      /\ turn'[t].generation = turn[t].generation
  BY <1>1 DEF WaitPass, IInv, TypeOK, TurnRow
<1>5. UNCHANGED <<sub, active, inflight, broker, faults>>
  BY DEF WaitPass
<1>6. NoNewPass /\ worker'[w].turn = None /\ \A v \in Worker : v # w => worker'[v] = worker[v]
  BY IdleIsNoNewPass DEF WaitPass, IInv
<1> HIDE DEF t
<1>7. TypeOK' /\ CallsFit(inflight)'
  <2>1. TypeOK'
    BY <1>2, <1>5, <1>6 DEF IInv, TypeOK, NoNewPass
  <2>2. \A c \in inflight : c.kind = "fail" => turn'[c.turn].status # "none"
    BY <1>3, <1>4 DEF IInv, CallsFit, Call
  <2> QED  BY <1>5, <2>1, <2>2 DEF CallsFit, IInv
<1>8. SingleLiveTurn' /\ ClaimsHaveTurns' /\ OwnedWhileRunning'
  BY <1>1, <1>3, <1>4, <1>5 DEF IInv, SingleLiveTurn, ClaimsHaveTurns, OwnedWhileRunning, Live
<1>9. GenerationFence'
  BY <1>1, <1>3, <1>4, <1>6 DEF IInv, GenerationFence, Terminal, ConstantsOK
<1>10. PassBound'
  BY <1>1, <1>3, <1>4, <1>6 DEF IInv, PassBound, ConstantsOK
<1>11. TerminalStep
  BY <1>1, <1>3 DEF TerminalStep, Terminal
<1> QED  BY <1>7, <1>8, <1>9, <1>10, <1>11 DEF IInv, SafeStep

-----------------------------------------------------------------------------
(* The monitor.                                                            *)

LEMMA RecoverIsSafe ==
  ASSUME ConstantsOK, IInv, NEW t \in Submission, NEW bump \in {0, 1},
         \/ turn[t].status = "running" /\ bump = 1
         \/ turn[t].status = "pending" /\ bump = 0,
         Recover(t, bump), UNCHANGED <<broker, worker, faults>>
  PROVE  SafeStep
<1>1. PICK status \in {"pending", "waiting"} :
        /\ turn' = [turn EXCEPT ![t].status = status,
                       ![t].reason = IF status = "waiting" THEN "interaction" ELSE "none",
                       ![t].owner = None,
                       ![t].generation = @ + bump,
                       ![t].recoveries = @ + bump]
        /\ inflight' = IF status = "pending"
                         THEN inflight \cup {[kind |-> "handoff", turn |-> t]}
                         ELSE inflight
  BY DEF Recover
<1>2. UNCHANGED <<sub, active>>
  BY DEF Recover
<1>3. turn \in [Submission -> TurnRow] /\ turn[t] \in TurnRow
  BY DEF IInv, TypeOK
<1>4. turn' \in [Submission -> TurnRow]
  <2>1. /\ status \in {"none"} \cup Live \cup Terminal
        /\ (IF status = "waiting" THEN "interaction" ELSE "none") \in {"none"} \cup WaitReason
    BY DEF Live, WaitReason
  <2>2. /\ turn[t].generation + bump \in Nat
        /\ turn[t].recoveries + bump \in Nat
    BY <1>3 DEF TurnRow
  <2> QED  BY <1>1, <1>3, <2>1, <2>2 DEF TurnRow
<1>5. \A r \in Submission : r # t => turn'[r] = turn[r]
  BY <1>1, <1>3
<1>6. /\ turn'[t].status = status /\ turn'[t].owner = None
      /\ turn'[t].generation = turn[t].generation + bump
      /\ turn[t].generation \in Nat
  BY <1>1, <1>3 DEF TurnRow
<1>7. turn[t].status = "pending" => turn[t].owner = None
  BY DEF IInv, OwnedWhileRunning
<1>8. OneRowChanges(t)
  BY <1>4, <1>5, <1>6, <1>7 DEF OneRowChanges, Live
<1>9. CallsFit(inflight')
  BY <1>1, CallIsAdded DEF IInv, CallKind, DispatchKind
<1>10. NoNewPass /\ SameClaims /\ broker' \subseteq Submission /\ faults' \in Nat
  BY <1>2, SamePasses DEF SameClaims, IInv, TypeOK
<1> QED  BY <1>2, <1>8, <1>9, <1>10, RowStepIsSafe

(* The monitor closes, recovers or redelivers a turn that is late.         *)
LEMMA ExpireIsSafe ==
  ASSUME ConstantsOK, IInv, NEW t \in Submission, ExpirePending(t) \/ ExpireRunning(t)
  PROVE  SafeStep
<1>1. UNCHANGED <<broker, worker, faults>>
  BY DEF ExpirePending, ExpireRunning
<1>2. NoNewPass /\ broker' \subseteq Submission /\ faults' \in Nat /\ CallsFit(inflight)
  BY <1>1, SamePasses DEF IInv, TypeOK
<1>3. CASE turn[t].status \in Live /\ Terminalize(t, "failed", inflight)
  BY <1>2, <1>3, TerminalizeIsSafe DEF Terminal
<1>4. CASE turn[t].status = "pending" /\ Recover(t, 0)
  BY <1>1, <1>4, RecoverIsSafe
<1>5. CASE turn[t].status = "running" /\ Recover(t, 1)
  BY <1>1, <1>5, RecoverIsSafe
<1>6. CASE /\ inflight' = inflight \cup {[kind |-> "handoff", turn |-> t]}
           /\ UNCHANGED <<sub, turn, active>>
  <2>1. SameTurns /\ SameClaims
    BY <1>6 DEF SameTurns, SameClaims, IInv, TypeOK
  <2>2. CallsFit(inflight')
    BY <1>6, CallIsAdded DEF IInv, CallKind, DispatchKind
  <2> QED  BY <1>2, <1>6, <2>1, <2>2, QuietStepIsSafe
<1> QED  BY <1>3, <1>4, <1>5, <1>6 DEF ExpirePending, ExpireRunning, Live

(* Crashes, and lost or repeated messages, change no row.                  *)
LEMMA FaultIsSafe ==
  ASSUME ConstantsOK, IInv, FaultStep
  PROVE  SafeStep
<1>1. UNCHANGED <<sub, turn, active>> /\ faults' \in Nat
  BY DEF FaultStep, CrashWorker, RepeatMessage, LoseCall, LoseMessage, Fault, IInv, TypeOK
<1>2. CallsFit(inflight')
  BY DEF FaultStep, CrashWorker, RepeatMessage, LoseCall, LoseMessage, IInv, CallsFit
<1>3. broker' \subseteq Submission
  BY DEF FaultStep, CrashWorker, RepeatMessage, LoseCall, LoseMessage, IInv, TypeOK, Pass
<1>4. NoNewPass
  BY IdleIsNoNewPass, SamePasses
     DEF FaultStep, CrashWorker, RepeatMessage, LoseCall, LoseMessage, IInv
<1>5. SameTurns /\ SameClaims
  BY <1>1 DEF SameTurns, SameClaims, IInv, TypeOK
<1> QED  BY <1>1, <1>2, <1>3, <1>4, <1>5, QuietStepIsSafe

-----------------------------------------------------------------------------
(* The theorems.                                                           *)

(* Every step of every process keeps the inductive invariant.              *)
THEOREM StepIsSafe ==
  ASSUME ConstantsOK, IInv, [Next]_vars
  PROVE  SafeStep
<1>1. CASE UNCHANGED vars
  BY <1>1, SamePasses, QuietStepIsSafe
     DEF vars, SameTurns, SameClaims, IInv, TypeOK
<1>2. CASE UserStep
  <2>1. PICK s \in Submission :
          \/ Admit(s) \/ UpdatePending(s) \/ Retry(s) \/ Withdraw(s)
          \/ CancelByUser(s) \/ ResolveInteraction(s) \/ RepeatInterrupt(s)
          \/ \E t \in Submission : Interrupt(t, s)
    BY <1>2 DEF UserStep
  <2>2. CASE CancelByUser(s)
    <3>1. CallsFit(inflight)
      BY DEF IInv
    <3> QED  BY <2>2, <3>1, FlagCancelIsSafe DEF CancelByUser
  <2>3. CASE ResolveInteraction(s)
    BY <2>3, ResumeIsSafe DEF ResolveInteraction, DispatchKind
  <2> QED
    BY <2>1, <2>2, <2>3, AdmitIsSafe, UpdatePendingIsSafe, RetryIsSafe,
       WithdrawIsSafe, RepeatInterruptIsSafe, InterruptIsSafe
<1>3. CASE CallStep
  <2>1. PICK c \in inflight :
          \/ DispatchSucceeds(c) \/ DispatchFails(c) \/ CloseUnsent(c)
          \/ ContinueInterrupt(c) \/ SettleCancel(c)
    BY <1>3 DEF CallStep
  <2>2. CASE ContinueInterrupt(c)
    <3>1. c.turn \in Submission /\ CallsFit(inflight \ {c})
      BY CallsAreTyped DEF IInv
    <3> QED  BY <2>2, <3>1, FlagCancelIsSafe DEF ContinueInterrupt
  <2> QED  BY <2>1, <2>2, DispatchIsSafe, CloseUnsentIsSafe, SettleCancelIsSafe
<1>4. CASE WorkerStep
  BY <1>4, DeliverIsSafe, StopPassIsSafe, FinishPassIsSafe, WaitPassIsSafe
     DEF WorkerStep
<1>5. CASE MonitorStep
  BY <1>5, ExpireIsSafe, ResumeIsSafe DEF MonitorStep, AttachmentsReady, DispatchKind
<1>6. CASE FaultStep
  BY <1>6, FaultIsSafe
<1> QED  BY <1>1, <1>2, <1>3, <1>4, <1>5, <1>6 DEF Next

(* The inductive invariant holds of every behaviour of the queue.          *)
THEOREM IInvAlways == Spec => []IInv
<1>1. Init => IInv
  BY InitEstablishesIInv, ConstantsOK
<1>2. IInv /\ [Next]_vars => IInv'
  BY StepIsSafe, ConstantsOK DEF SafeStep
<1> QED  BY <1>1, <1>2, PTL DEF Spec

(* The tables, the queue and the passes keep their types.                  *)
THEOREM TypeCorrect == Spec => []TypeOK
<1>1. IInv => TypeOK
  BY DEF IInv
<1> QED  BY <1>1, IInvAlways, PTL

(* One live turn per Conversation, always the one active_turn_id names.    *)
THEOREM OneLiveTurn == Spec => []SingleLiveTurn
<1>1. IInv => SingleLiveTurn
  BY DEF IInv
<1> QED  BY <1>1, IInvAlways, PTL

(* A claim and its turn are written together or not at all.                *)
THEOREM EveryClaimHasItsTurn == Spec => []ClaimsHaveTurns
<1>1. IInv => ClaimsHaveTurns
  BY DEF IInv
<1> QED  BY <1>1, IInvAlways, PTL

(* A live turn is leased exactly while it runs; one that is over is leased *)
(* only where a late dispatch failure closed its run.                      *)
THEOREM LeaseIffRunning == Spec => []OwnedWhileRunning
<1>1. IInv => OwnedWhileRunning
  BY DEF IInv
<1> QED  BY <1>1, IInvAlways, PTL

(* The dispatch generation fences every pass but the owner's.              *)
THEOREM GenerationIsAFence == Spec => []GenerationFence
<1>1. IInv => GenerationFence
  BY DEF IInv
<1> QED  BY <1>1, IInvAlways, PTL

(* The outcome of a turn is written once, but for a dispatch failure that  *)
(* is written after the turn has ended.                                    *)
THEOREM OutcomeIsFinal == Spec => TerminalIsFinal
<1>1. IInv /\ [Next]_vars => [TerminalStep]_vars
  BY StepIsSafe, ConstantsOK DEF SafeStep
<1> QED  BY <1>1, IInvAlways, PTL DEF Spec, TerminalIsFinal

-----------------------------------------------------------------------------
(* The order of admission, through the kinds of step the user's queue sees.*)

(* A step that neither admits nor ends a turn: no status moves but from    *)
(* one live status to another, or from one outcome to another.             *)
SamePhase ==
  \A t \in Submission :
    \/ turn'[t].status = turn[t].status
    \/ turn[t].status \in Live /\ turn'[t].status \in Live
    \/ turn[t].status \in Terminal /\ turn'[t].status \in Terminal

(* What the queue's order depends on in a submission's row.                *)
SameRow(s) ==
  sub'[s].status = sub[s].status /\ sub'[s].position = sub[s].position

(* The kinds of step there are, as the user's queue sees them. Workers,    *)
(* messages, leases and flags move alone.                                  *)
Hidden == (\A s \in Submission : SameRow(s)) /\ active' = active /\ SamePhase

(* A retained row is pending again: an edit, a retry behind a turn, an     *)
(* interrupt.                                                              *)
Requeued(s) ==
  /\ s \in Retained(sub)
  /\ sub'[s].status = "pending" /\ sub'[s].position = sub[s].position
  /\ \A r \in Submission \ {s} : SameRow(r)
  /\ active' = active /\ SamePhase

(* rows is the table after a new submission has been appended to the       *)
(* queue.                                                                  *)
IsNew(s, rows) ==
  /\ sub[s].status = "none"
  /\ rows \in [Submission -> SubmissionRow]
  /\ rows[s].status = "pending"
  /\ \A r \in Submission : sub[r].position < rows[s].position
  /\ \A r \in Submission \ {s} : rows[r] = sub[r]

(* A new submission waits.                                                 *)
Entered(s) ==
  /\ active # None \/ Retained(sub) # {}
  /\ IsNew(s, sub') /\ active' = active /\ SamePhase

(* The table after s has been withdrawn.                                   *)
WithdrawnRows(s) == [sub EXCEPT ![s].status = "withdrawn"]

(* A retained row is withdrawn while a turn is under way.                  *)
Left(s) ==
  /\ s \in Retained(sub) /\ active # None
  /\ sub' = WithdrawnRows(s) /\ active' = active /\ SamePhase

(* A transaction that has freed the slot offers it to its candidates.      *)
Offers(candidates, rows, turns) ==
  \E calls, kind : Claim(candidates, rows, turns, calls, kind)

(* A new submission is offered the slot of an idle, empty Conversation.    *)
AdmittedNow(s) ==
  /\ active = None /\ Retained(sub) = {}
  /\ \E rows : IsNew(s, rows) /\ Offers({s}, rows, turn)

(* A retained row is offered the slot of an idle Conversation by a retry.  *)
Retried(s) ==
  /\ Retryable(s) /\ active = None
  /\ Offers({s}, sub, turn)

(* A withdrawal in an idle Conversation offers the slot to the row that was*)
(* next in line before it, be it the withdrawn one.                        *)
LeftFree(s) ==
  /\ s \in Retained(sub) /\ active = None
  /\ Offers(NextInLine(sub), WithdrawnRows(s), turn)

(* The turns after t has ended.                                            *)
ClosedTurns(t, final) == [turn EXCEPT ![t] = Closed(@, final)]

(* The active turn ends and its successor is offered the slot.             *)
HandedOver(t) ==
  /\ active = t /\ turn[t].status \in Live
  /\ \E final \in Terminal : Offers(Successor(t), sub, ClosedTurns(t, final))

(* The active turn ends in a broker outage, without a successor.           *)
Dropped(t) ==
  /\ active = t /\ turn[t].status \in Live /\ LosesBroker(t)

(* Every step is one of these; what follows is proved of them, never of    *)
(* the twenty-three actions again.                                         *)
Move ==
  \/ Hidden
  \/ \E s \in Submission :
       \/ Requeued(s) \/ Entered(s) \/ Left(s)
       \/ AdmittedNow(s) \/ Retried(s) \/ LeftFree(s)
       \/ HandedOver(s) \/ Dropped(s)

(* Whoever closes a live turn hands the slot over.                         *)
LEMMA TerminalizeHandsOver ==
  ASSUME IInv, NEW t \in Submission, NEW final \in Terminal, NEW calls,
         turn[t].status \in Live, Terminalize(t, final, calls)
  PROVE  HandedOver(t)
<1>1. active = t
  BY DEF IInv, SingleLiveTurn
<1>2. Claim(Successor(t), sub, ClosedTurns(t, final), calls, "handoff")
  BY <1>1 DEF Terminalize, ClosedTurns
<1> QED  BY <1>1, <1>2 DEF HandedOver, Offers

(* An interrupt requeues its target and moves nothing else.                *)
LEMMA InterruptMoves ==
  ASSUME IInv, NEW t \in Submission, NEW s \in Submission, Interrupt(t, s)
  PROVE  Move
<1>0. sub \in [Submission -> SubmissionRow] /\ turn \in [Submission -> TurnRow]
  BY DEF IInv, TypeOK
<1>1. /\ s \in Retained(sub) /\ active' = active
      /\ sub' = [sub EXCEPT ![s].status = "pending"]
  BY DEF Interrupt
<1>2. SamePhase
  <2>1. \A r \in Submission : r # t => turn'[r] = turn[r]
    BY <1>0 DEF Interrupt
  <2>2. turn'[t].status = turn[t].status
    BY <1>0 DEF Interrupt, TurnRow
  <2> QED  BY <2>1, <2>2 DEF SamePhase
<1>3. /\ sub'[s].status = "pending" /\ sub'[s].position = sub[s].position
      /\ \A r \in Submission \ {s} : SameRow(r)
  BY <1>0, <1>1 DEF SameRow, SubmissionRow
<1>4. Requeued(s)
  BY <1>1, <1>2, <1>3 DEF Requeued
<1> QED  BY <1>4 DEF Move

(* The user's commands.                                                    *)
LEMMA UserMoves ==
  ASSUME ConstantsOK, IInv, NEW s \in Submission,
         \/ Admit(s) \/ UpdatePending(s) \/ Retry(s) \/ Withdraw(s)
         \/ CancelByUser(s) \/ ResolveInteraction(s) \/ RepeatInterrupt(s)
         \/ \E t \in Submission : Interrupt(t, s)
  PROVE  Move
<1>0. sub \in [Submission -> SubmissionRow] /\ turn \in [Submission -> TurnRow]
  BY DEF IInv, TypeOK
<1>1. ActiveTurn = active
  BY ActiveIsLive DEF IInv
<1>2. CASE Admit(s)
  <2>1. PICK last \in {sub[r].position : r \in Submission} :
       /\ \A r \in Submission : sub[r].position <= last
       /\ LET rows == [sub EXCEPT ![s] =
                         [status |-> "pending", version |-> 1, position |-> last + 1]]
          IN  \/ /\ ActiveTurn = None /\ Retained(sub) = {}
                 /\ Claim({s}, rows, turn, inflight, "ingress")
              \/ /\ ~(ActiveTurn = None /\ Retained(sub) = {})
                 /\ sub' = rows
                 /\ active' = ActiveTurn
                 /\ UNCHANGED <<turn, inflight>>
    BY <1>2 DEF Admit
  <2> DEFINE rows == [sub EXCEPT ![s] =
                       [status |-> "pending", version |-> 1, position |-> last + 1]]
  <2>2. last \in Nat /\ \A r \in Submission : sub[r].position \in Nat
    BY <1>0 DEF SubmissionRow
  <2>3. IsNew(s, rows)
    BY <1>0, <1>2, <2>1, <2>2 DEF IsNew, Admit, SubmissionRow
  <2> HIDE DEF rows
  <2>4. CASE ActiveTurn = None /\ Retained(sub) = {} /\ Claim({s}, rows, turn, inflight, "ingress")
    BY <1>1, <2>3, <2>4 DEF Move, AdmittedNow, Offers
  <2>5. CASE /\ ~(ActiveTurn = None /\ Retained(sub) = {})
             /\ sub' = rows /\ active' = ActiveTurn /\ turn' = turn
    BY <1>1, <2>3, <2>5 DEF Move, Entered, SamePhase
  <2> QED  BY <2>1, <2>4, <2>5 DEF rows
<1>3. CASE UpdatePending(s)
  <2>1. Requeued(s)
    BY <1>0, <1>3 DEF UpdatePending, Requeued, SameRow, SamePhase, SubmissionRow
  <2> QED  BY <2>1 DEF Move
<1>4. CASE Retry(s)
  <2>1. CASE active # None
    <3>1. Requeued(s)
      BY <1>0, <1>1, <1>4, <2>1
         DEF Retry, Retryable, Requeued, SameRow, SamePhase, SubmissionRow
    <3> QED  BY <3>1 DEF Move
  <2>2. CASE active = None
    BY <1>1, <1>4, <2>2 DEF Retry, Retried, Offers, Move
  <2> QED  BY <2>1, <2>2
<1>5. CASE Withdraw(s)
  <2>1. CASE active # None
    BY <1>1, <1>5, <2>1 DEF Withdraw, Left, WithdrawnRows, SamePhase, Move
  <2>2. CASE active = None
    BY <1>1, <1>5, <2>2 DEF Withdraw, LeftFree, WithdrawnRows, Offers, Move
  <2> QED  BY <2>1, <2>2
<1>6. CASE CancelByUser(s) \/ ResolveInteraction(s) \/ RepeatInterrupt(s)
  <2>1. Hidden
    BY <1>0, <1>6 DEF CancelByUser, FlagCancel, ResolveInteraction, Resume, RepeatInterrupt,
         Hidden, SameRow, SamePhase, Live, TurnRow
  <2> QED  BY <2>1 DEF Move
<1>7. ASSUME NEW t \in Submission, Interrupt(t, s)
      PROVE  Move
  BY <1>7, InterruptMoves
<1> QED  BY <1>2, <1>3, <1>4, <1>5, <1>6, <1>7

(* The calls a handler makes after its commit.                             *)
LEMMA CallMoves ==
  ASSUME ConstantsOK, IInv, NEW c \in inflight,
         \/ DispatchSucceeds(c) \/ DispatchFails(c) \/ CloseUnsent(c)
         \/ ContinueInterrupt(c) \/ SettleCancel(c)
  PROVE  Move
<1>0. sub \in [Submission -> SubmissionRow] /\ turn \in [Submission -> TurnRow]
  BY DEF IInv, TypeOK
<1>1. c.turn \in Submission
  BY CallsAreTyped DEF IInv
<1>2. CASE DispatchSucceeds(c) \/ ContinueInterrupt(c)
  <2>1. Hidden
    BY <1>0, <1>1, <1>2 DEF DispatchSucceeds, ContinueInterrupt, FlagCancel,
         Hidden, SameRow, SamePhase, TurnRow
  <2> QED  BY <2>1 DEF Move
<1>3. CASE SettleCancel(c)
  <2>1. CASE UNCHANGED <<sub, turn, active>>
    BY <2>1 DEF Move, Hidden, SameRow, SamePhase
  <2>2. CASE /\ turn[c.turn].status \in {"pending", "waiting"}
             /\ Terminalize(c.turn, "cancelled", inflight \ {c})
    BY <1>1, <2>2, TerminalizeHandsOver DEF Move, Live, Terminal
  <2> QED  BY <1>3, <2>1, <2>2 DEF SettleCancel
<1>4. CASE DispatchFails(c)
  <2>1. CASE UNCHANGED <<sub, turn, active>>
    BY <2>1 DEF Move, Hidden, SameRow, SamePhase
  <2>2. CASE /\ turn[c.turn].status = "pending"
             /\ Terminalize(c.turn, "failed", inflight \ {c})
    BY <1>1, <2>2, TerminalizeHandsOver DEF Move, Live, Terminal
  <2> QED  BY <1>4, <2>1, <2>2 DEF DispatchFails
<1>5. CASE CloseUnsent(c)
  <2>1. LosesBroker(c.turn)
    BY <1>5 DEF CloseUnsent, LosesBroker
  <2>2. CASE turn[c.turn].status \in Live
    <3>1. active = c.turn
      BY <1>1, <2>2 DEF IInv, SingleLiveTurn
    <3> QED  BY <1>1, <2>1, <2>2, <3>1 DEF Move, Dropped
  <2>3. CASE turn[c.turn].status \notin Live
    <3>1. turn[c.turn].status \in Terminal /\ active # c.turn
      BY <1>0, <1>1, <1>5, <2>3 DEF CloseUnsent, IInv, CallsFit, SingleLiveTurn, TurnRow
    <3>2. /\ turn' = [turn EXCEPT ![c.turn].status = "failed"]
          /\ UNCHANGED <<sub, active>>
      BY <1>5, <3>1 DEF CloseUnsent, FailWithoutHandoff
    <3>3. SamePhase
      BY <1>0, <1>1, <3>1, <3>2 DEF SamePhase, TurnRow, Terminal
    <3>4. Hidden
      BY <3>2, <3>3 DEF Hidden, SameRow
    <3> QED  BY <3>4 DEF Move
  <2> QED  BY <2>2, <2>3
<1> QED  BY <1>2, <1>3, <1>4, <1>5

(* Workers, the monitor and the faults.                                    *)
LEMMA OtherMoves ==
  ASSUME ConstantsOK, IInv, WorkerStep \/ MonitorStep \/ FaultStep
  PROVE  Move
<1>0. sub \in [Submission -> SubmissionRow] /\ turn \in [Submission -> TurnRow]
  BY DEF IInv, TypeOK
<1>1. CASE UNCHANGED <<sub, turn, active>>
  BY <1>1 DEF Move, Hidden, SameRow, SamePhase
<1>2. ASSUME NEW w \in Worker, NEW t \in Submission, Deliver(w, t)
      PROVE  Move
  <2>1. Hidden
    BY <1>0, <1>2 DEF Deliver, Hidden, SameRow, SamePhase, Live, TurnRow
  <2> QED  BY <2>1 DEF Move
<1>3. ASSUME NEW w \in Worker, FinishPass(w)
      PROVE  Move
  <2>1. CASE Owns(w) /\ \E final \in Outcome : Terminalize(worker[w].turn, final, inflight)
    <3>1. PICK final \in Terminal : Terminalize(worker[w].turn, final, inflight)
      BY <2>1 DEF Outcome
    <3>2. worker[w].turn \in Submission /\ turn[worker[w].turn].status \in Live
      BY <2>1 DEF Owns, Live, IInv, TypeOK, Pass
    <3> QED  BY <3>1, <3>2, TerminalizeHandsOver DEF Move
  <2> QED  BY <1>1, <1>3, <2>1 DEF FinishPass
<1>4. ASSUME NEW w \in Worker, NEW reason \in WaitReason, WaitPass(w, reason)
      PROVE  Move
  <2>1. worker[w].turn \in Submission
    BY <1>4 DEF WaitPass, Owns, IInv, TypeOK, Pass
  <2>2. Hidden
    BY <1>0, <1>4, <2>1 DEF WaitPass, Owns, Hidden, SameRow, SamePhase, Live, TurnRow
  <2> QED  BY <2>2 DEF Move
<1>5. ASSUME NEW t \in Submission, AttachmentsReady(t)
      PROVE  Move
  <2>1. Hidden
    BY <1>0, <1>5 DEF AttachmentsReady, Resume, Hidden, SameRow, SamePhase, Live, TurnRow
  <2> QED  BY <2>1 DEF Move
<1>6. ASSUME NEW t \in Submission, ExpirePending(t) \/ ExpireRunning(t)
      PROVE  Move
  <2>1. CASE \E bump \in {0, 1} : turn[t].status \in Live /\ Recover(t, bump)
    <3>1. Hidden
      BY <1>0, <2>1 DEF Recover, Hidden, SameRow, SamePhase, Live, TurnRow
    <3> QED  BY <3>1 DEF Move
  <2>2. CASE turn[t].status \in Live /\ Terminalize(t, "failed", inflight)
    BY <2>2, TerminalizeHandsOver DEF Move, Terminal
  <2> QED  BY <1>1, <1>6, <2>1, <2>2 DEF ExpirePending, ExpireRunning, Live
<1>7. CASE FaultStep
  BY <1>1, <1>7 DEF FaultStep, CrashWorker, RepeatMessage, LoseCall, LoseMessage
<1> QED
  BY <1>1, <1>2, <1>3, <1>4, <1>5, <1>6, <1>7 DEF WorkerStep, MonitorStep, StopPass

(* Every step of the queue is a Move.                                      *)
LEMMA StepMoves ==
  ASSUME ConstantsOK, IInv, [Next]_vars
  PROVE  Move
<1>1. CASE UNCHANGED vars
  BY <1>1 DEF vars, Move, Hidden, SameRow, SamePhase
<1>2. CASE UserStep
  BY <1>2, UserMoves DEF UserStep
<1>3. CASE CallStep
  BY <1>3, CallMoves DEF CallStep
<1> QED  BY <1>1, <1>2, <1>3, OtherMoves DEF Next

-----------------------------------------------------------------------------
(* Rows in the queue have positions of their own, so that the queue's      *)
(* order is total.                                                         *)
Positions ==
  \A r, s \in Submission :
    r # s /\ sub[r].status # "none" /\ sub[s].status # "none"
      => sub[r].position # sub[s].position

(* What an offer does: it claims one candidate, or rejects one, or finds   *)
(* none.                                                                   *)
LEMMA ClaimOutcomes ==
  ASSUME NEW candidates \in SUBSET Submission, NEW rows, NEW turns,
         rows \in [Submission -> SubmissionRow], turns \in [Submission -> TurnRow],
         Offers(candidates, rows, turns)
  PROVE  \/ \E s \in candidates :
              /\ active' = s
              /\ sub'[s].status = "claimed" /\ sub'[s].position = rows[s].position
              /\ \A r \in Submission \ {s} : sub'[r] = rows[r] /\ turn'[r] = turns[r]
              /\ turn'[s] = NewTurn
         \/ \E s \in candidates :
              /\ active' = None /\ turn' = turns
              /\ sub'[s].status = "failed" /\ sub'[s].position = rows[s].position
              /\ \A r \in Submission \ {s} : sub'[r] = rows[r]
         \/ candidates = {} /\ active' = None /\ sub' = rows /\ turn' = turns
<1>1. PICK calls, kind : Claim(candidates, rows, turns, calls, kind)
  BY DEF Offers
<1>2. ASSUME NEW s \in candidates, AdmitRow(s, rows, turns, calls, kind)
      PROVE  /\ active' = s
             /\ sub'[s].status = "claimed" /\ sub'[s].position = rows[s].position
             /\ \A r \in Submission \ {s} : sub'[r] = rows[r] /\ turn'[r] = turns[r]
             /\ turn'[s] = NewTurn
  BY <1>2 DEF AdmitRow, SubmissionRow
<1>3. ASSUME NEW s \in candidates, RejectRow(s, rows, turns, calls)
      PROVE  /\ active' = None /\ turn' = turns
             /\ sub'[s].status = "failed" /\ sub'[s].position = rows[s].position
             /\ \A r \in Submission \ {s} : sub'[r] = rows[r]
  BY <1>3 DEF RejectRow, SubmissionRow
<1> QED  BY <1>1, <1>2, <1>3 DEF Claim

(* It is an offer to that candidate alone, or to nobody.                   *)
LEMMA OfferIsToOne ==
  ASSUME NEW candidates, NEW rows, NEW turns, Offers(candidates, rows, turns)
  PROVE  Offers({}, rows, turns) \/ \E s \in candidates : Offers({s}, rows, turns)
BY DEF Offers, Claim

(* Positions, and which submissions exist, are as in rows.                 *)
Keeps(rows) ==
  \A s \in Submission :
    /\ sub'[s].position = rows[s].position
    /\ sub'[s].status = "none" <=> rows[s].status = "none"

(* An offer moves no row in the queue.                                     *)
LEMMA OffersKeep ==
  ASSUME NEW candidates \in SUBSET Submission, NEW rows, NEW turns,
         rows \in [Submission -> SubmissionRow], turns \in [Submission -> TurnRow],
         \A s \in candidates : rows[s].status # "none",
         Offers(candidates, rows, turns)
  PROVE  Keeps(rows)
BY ClaimOutcomes DEF Keeps

(* A new row goes behind every other, and no row moves.                    *)
LEMMA MoveKeepsPositions ==
  ASSUME ConstantsOK, IInv, Positions, Move
  PROVE  Positions'
<1>0. sub \in [Submission -> SubmissionRow] /\ turn \in [Submission -> TurnRow]
  BY DEF IInv, TypeOK
<1>1. CASE Keeps(sub)
  BY <1>1 DEF Keeps, Positions
<1>2. ASSUME NEW s \in Submission, NEW rows, IsNew(s, rows), Keeps(rows)
      PROVE  Positions'
  <2>1. \A r \in Submission : sub[r].position \in Nat /\ rows[r].position \in Nat
    BY <1>0, <1>2 DEF SubmissionRow, IsNew
  <2> QED  BY <1>2, <2>1 DEF IsNew, Keeps, Positions
<1>3. ASSUME Hidden
      PROVE  Keeps(sub)
  BY <1>3 DEF Hidden, SameRow, Keeps
<1>4. ASSUME NEW s \in Submission, Requeued(s)
      PROVE  Keeps(sub)
  BY <1>4, RetainedFacts DEF Requeued, SameRow, Keeps
<1>5. ASSUME NEW s \in Submission, Entered(s)
      PROVE  Positions'
  <2>1. Keeps(sub')
    BY DEF Keeps
  <2> QED  BY <1>2, <1>5, <2>1 DEF Entered
<1>6. ASSUME NEW s \in Submission, Left(s)
      PROVE  Keeps(sub)
  BY <1>0, <1>6, RetainedFacts DEF Left, WithdrawnRows, SubmissionRow, Keeps
<1>7. ASSUME NEW s \in Submission, AdmittedNow(s)
      PROVE  Positions'
  <2>1. PICK rows : IsNew(s, rows) /\ Offers({s}, rows, turn)
    BY <1>7 DEF AdmittedNow
  <2>2. Keeps(rows)
    BY <1>0, <2>1, OffersKeep DEF IsNew
  <2> QED  BY <1>2, <2>1, <2>2
<1>8. ASSUME NEW s \in Submission, Retried(s)
      PROVE  Keeps(sub)
  BY <1>0, <1>8, RetainedFacts, OffersKeep DEF Retried, Retryable
<1>9. ASSUME NEW s \in Submission, LeftFree(s)
      PROVE  Keeps(sub)
  <2> DEFINE rows == WithdrawnRows(s)
  <2>1. rows \in [Submission -> SubmissionRow]
    BY <1>0 DEF WithdrawnRows, SubmissionRow
  <2>2. \A r \in Submission :
          /\ rows[r].position = sub[r].position
          /\ rows[r].status = "none" <=> sub[r].status = "none"
    BY <1>0, <1>9, RetainedFacts DEF WithdrawnRows, SubmissionRow, LeftFree
  <2> HIDE DEF rows
  <2>3. NextInLine(sub) \in SUBSET Submission /\ \A r \in NextInLine(sub) : rows[r].status # "none"
    BY <2>2 DEF NextInLine, Pending
  <2>4. Offers(NextInLine(sub), rows, turn)
    BY <1>9 DEF LeftFree, rows
  <2>5. Keeps(rows)
    BY <1>0, <2>1, <2>3, <2>4, OffersKeep
  <2> QED  BY <2>2, <2>5 DEF Keeps
<1>10. ASSUME NEW t \in Submission, HandedOver(t)
       PROVE  Keeps(sub)
  <2>1. PICK final \in Terminal : Offers(Successor(t), sub, ClosedTurns(t, final))
    BY <1>10 DEF HandedOver
  <2>2. ClosedTurns(t, final) \in [Submission -> TurnRow]
    BY <1>0, ClosedType, ConstantsOK DEF ClosedTurns
  <2>3. Successor(t) \in SUBSET Submission /\ \A r \in Successor(t) : sub[r].status # "none"
    BY RetainedFacts DEF Successor, Selected, NextInLine, Pending
  <2> QED  BY <1>0, <2>1, <2>2, <2>3, OffersKeep
<1>11. ASSUME NEW t \in Submission, Dropped(t)
       PROVE  Keeps(sub)
  BY <1>11 DEF Dropped, LosesBroker, FailWithoutHandoff, Keeps
<1> QED
  BY <1>1, <1>3, <1>4, <1>5, <1>6, <1>7, <1>8, <1>9, <1>10, <1>11 DEF Move

(* A withdrawal touches one row and not its position.                      *)
LEMMA WithdrawnRowsFacts ==
  ASSUME TypeOK, NEW s \in Submission
  PROVE  /\ WithdrawnRows(s) \in [Submission -> SubmissionRow]
         /\ WithdrawnRows(s)[s].status = "withdrawn"
         /\ WithdrawnRows(s)[s].position = sub[s].position
         /\ \A r \in Submission \ {s} : WithdrawnRows(s)[r] = sub[r]
BY DEF WithdrawnRows, TypeOK, SubmissionRow

(* The next in line is pending, ahead of the others, and nobody is held.   *)
LEMMA InLine ==
  ASSUME NEW rows
  PROVE  /\ NextInLine(rows) \in SUBSET Submission
         /\ \A s \in NextInLine(rows) :
              /\ rows[s].status = "pending" /\ Failed(rows) = {}
              /\ \A r \in Pending(rows) : rows[s].position <= rows[r].position
BY DEF NextInLine, Pending

(* A submission that an offer claims was a candidate, and the only row it  *)
(* touched.                                                                *)
LEMMA OfferClaims ==
  ASSUME NEW candidates \in SUBSET Submission, NEW rows, NEW turns,
         rows \in [Submission -> SubmissionRow], turns \in [Submission -> TurnRow],
         Offers(candidates, rows, turns),
         NEW s \in Submission, sub'[s].status = "claimed", rows[s].status # "claimed"
  PROVE  /\ s \in candidates
         /\ sub'[s].position = rows[s].position
         /\ \A r \in Submission \ {s} : sub'[r] = rows[r]
BY ClaimOutcomes

(* The FIFO admits the head of the rows it looks at: whatever else leaves  *)
(* the queue in the same step, the rows still retained are behind it.      *)
LEMMA HeadIsFirst ==
  ASSUME NEW rows \in [Submission -> SubmissionRow], NEW s \in NextInLine(rows),
         \A q, r \in Submission :
           q # r /\ rows[q].status # "none" /\ rows[r].status # "none"
             => rows[q].position # rows[r].position,
         sub'[s].status = "claimed", sub'[s].position = rows[s].position,
         \A r \in Submission \ {s} : sub'[r] = rows[r] \/ sub'[r].status = "withdrawn"
  PROVE  /\ \A r \in Retained(sub)' : sub'[s].position < sub'[r].position
         /\ Failed(sub)' = {}
<1>1. Failed(rows) = {} /\ s \in Submission /\ rows[s].status = "pending"
  BY InLine
<1>2. Failed(sub)' = {}
  BY <1>1 DEF Failed
<1>3. ASSUME NEW r \in Retained(sub)'
      PROVE  sub'[s].position < sub'[r].position
  <2>1. r \in Submission /\ sub'[r].status = "pending"
    BY <1>2, <1>3 DEF Retained, Pending
  <2>2. r # s /\ rows[r].status = "pending" /\ sub'[r].position = rows[r].position
    BY <2>1
  <2>3. rows[s].position <= rows[r].position /\ rows[s].position # rows[r].position
    BY <1>1, <2>1, <2>2, InLine DEF Pending
  <2>4. rows[s].position \in Nat /\ rows[r].position \in Nat
    BY <1>1, <2>1 DEF SubmissionRow
  <2> QED  BY <2>2, <2>3, <2>4
<1> QED  BY <1>2, <1>3

(* A claim takes the head of the queue, or it is the target of an          *)
(* interrupt or the row of a retry; only those pass a failed row.          *)
LEMMA MoveKeepsOrder ==
  ASSUME ConstantsOK, IInv, Positions, Move
  PROVE  FifoStep /\ HoldStep
<1>0. /\ TypeOK
      /\ sub \in [Submission -> SubmissionRow] /\ turn \in [Submission -> TurnRow]
  BY DEF IInv, TypeOK
<1> SUFFICES ASSUME NEW s \in Submission, NewlyClaimed(s)
             PROVE  /\ \/ \A r \in Retained(sub)' : sub'[s].position < sub'[r].position
                       \/ active # None /\ turn[active].target = s
                       \/ Failed(sub) # {} /\ Retained(sub)' = Retained(sub) \ {s}
                    /\ Failed(sub)' # {} =>
                         \/ active # None /\ turn[active].target = s
                         \/ active = None /\ Retained(sub)' = Retained(sub) \ {s}
  BY DEF FifoStep, HoldStep
<1>1. /\ ~Hidden
      /\ \A q \in Submission : ~Requeued(q) /\ ~Entered(q) /\ ~Left(q) /\ ~Dropped(q)
  BY <1>0, WithdrawnRowsFacts
     DEF NewlyClaimed, Hidden, Requeued, Entered, Left, Dropped, SameRow, IsNew,
         LosesBroker, FailWithoutHandoff
<1>2. ASSUME NEW q \in Submission, AdmittedNow(q)
      PROVE  Retained(sub)' = {}
  <2>1. PICK rows : IsNew(q, rows) /\ Offers({q}, rows, turn)
    BY <1>2 DEF AdmittedNow
  <2>2. /\ s = q /\ sub'[q].status = "claimed"
        /\ \A r \in Submission \ {q} : sub'[r] = sub[r]
    <3>1. rows[s].status # "claimed" /\ {q} \in SUBSET Submission
      BY <2>1 DEF IsNew, NewlyClaimed
    <3>2. rows \in [Submission -> SubmissionRow] /\ sub'[s].status = "claimed"
      BY <2>1 DEF IsNew, NewlyClaimed
    <3>3. Offers({q}, rows, turn) /\ turn \in [Submission -> TurnRow]
      BY <1>0, <2>1
    <3>4. s \in {q}
      BY <3>1, <3>2, <3>3, OfferClaims
    <3>5. \A r \in Submission \ {s} : sub'[r] = rows[r]
      BY <3>1, <3>2, <3>3, OfferClaims
    <3> QED  BY <2>1, <3>4, <3>5 DEF IsNew, NewlyClaimed
  <2>3. \A r \in Submission : sub[r].status \notin {"pending", "failed"}
    BY <1>2 DEF AdmittedNow, Retained, Pending, Failed
  <2> QED  BY <2>2, <2>3 DEF Retained, Pending, Failed
<1>3. ASSUME NEW q \in Submission, Retried(q)
      PROVE  active = None /\ Failed(sub) # {} /\ Retained(sub)' = Retained(sub) \ {s}
  <2>1. Offers({q}, sub, turn) /\ active = None /\ Failed(sub) # {}
    BY <1>3 DEF Retried, Retryable
  <2>2. /\ s = q /\ sub'[q].status = "claimed"
        /\ \A r \in Submission \ {q} : sub'[r] = sub[r]
    BY <1>0, <2>1, OfferClaims DEF NewlyClaimed
  <2> QED  BY <2>1, <2>2 DEF Retained, Pending, Failed
<1>4. ASSUME NEW q \in Submission, LeftFree(q)
      PROVE  /\ \A r \in Retained(sub)' : sub'[s].position < sub'[r].position
             /\ Failed(sub)' = {}
  <2> DEFINE rows == WithdrawnRows(q)
  <2>1. /\ rows \in [Submission -> SubmissionRow]
        /\ rows[q].status = "withdrawn" /\ rows[q].position = sub[q].position
        /\ \A r \in Submission \ {q} : rows[r] = sub[r]
    BY <1>0, WithdrawnRowsFacts
  <2>2. Offers(NextInLine(sub), rows, turn)
    BY <1>4 DEF LeftFree
  <2> HIDE DEF rows
  <2>3. /\ s \in NextInLine(sub)
        /\ sub'[s].status = "claimed" /\ sub'[s].position = rows[s].position
        /\ \A r \in Submission \ {s} : sub'[r] = rows[r]
    <3>1. NextInLine(sub) \in SUBSET Submission /\ rows[s].status # "claimed"
      BY <2>1, InLine DEF NewlyClaimed
    <3> QED  BY <1>0, <2>1, <2>2, <3>1, OfferClaims, SMTT(30) DEF NewlyClaimed
  <2>4. sub'[s].position = sub[s].position
    BY <2>1, <2>3
  <2>5. \A r \in Submission \ {s} : sub'[r] = sub[r] \/ sub'[r].status = "withdrawn"
    BY <2>1, <2>3
  <2>6. \A a, b \in Submission :
          a # b /\ sub[a].status # "none" /\ sub[b].status # "none"
            => sub[a].position # sub[b].position
    BY DEF Positions
  <2> QED  BY <1>0, <2>3, <2>4, <2>5, <2>6, HeadIsFirst
<1>5. ASSUME NEW t \in Submission, HandedOver(t)
      PROVE  \/ active # None /\ turn[active].target = s
             \/ /\ \A r \in Retained(sub)' : sub'[s].position < sub'[r].position
                /\ Failed(sub)' = {}
  <2>1. PICK final \in Terminal : Offers(Successor(t), sub, ClosedTurns(t, final))
    BY <1>5 DEF HandedOver
  <2>2. ClosedTurns(t, final) \in [Submission -> TurnRow]
    BY <1>0, ClosedType, ConstantsOK DEF ClosedTurns
  <2>3. Successor(t) \in SUBSET Submission
    BY RetainedFacts DEF Successor, Selected, NextInLine, Pending
  <2>4. /\ s \in Successor(t)
        /\ sub'[s].status = "claimed" /\ sub'[s].position = sub[s].position
        /\ \A r \in Submission \ {s} : sub'[r] = sub[r]
    BY <1>0, <2>1, <2>2, <2>3, OfferClaims DEF NewlyClaimed
  <2>5. CASE turn[t].target # None
    BY <1>5, <2>4, <2>5 DEF Successor, Selected, HandedOver, ConstantsOK
  <2>6. CASE turn[t].target = None
    <3>1. s \in NextInLine(sub)
      BY <2>4, <2>6 DEF Successor
    <3> QED  BY <1>0, <2>4, <3>1, HeadIsFirst DEF Positions
  <2> QED  BY <2>5, <2>6
<1> QED  BY <1>1, <1>2, <1>3, <1>4, <1>5 DEF Move, Retained

(* The end of an interrupted turn offers the slot to its target alone.     *)
LEMMA MoveKeepsInterrupt ==
  ASSUME ConstantsOK, IInv, Move
  PROVE  InterruptStep
<1>0. /\ TypeOK
      /\ sub \in [Submission -> SubmissionRow] /\ turn \in [Submission -> TurnRow]
  BY DEF IInv, TypeOK
<1> SUFFICES ASSUME NEW t \in Submission, turn[t].target # None,
                    turn[t].status \in Live, turn'[t].status \in Terminal
             PROVE  HandsOverTo(turn[t].target, turn[t].targetVersion) \/ LosesBroker(t)
  BY DEF InterruptStep
<1>1. active = t
  BY DEF IInv, SingleLiveTurn
<1>2. ~SamePhase
  BY DEF SamePhase, Live, Terminal
<1>3. \A s \in Submission : ~AdmittedNow(s) /\ ~Retried(s) /\ ~LeftFree(s)
  BY <1>1 DEF AdmittedNow, Retried, LeftFree, ConstantsOK
<1>4. PICK s \in Submission : HandedOver(s) \/ Dropped(s)
  BY <1>2, <1>3 DEF Move, Hidden, Requeued, Entered, Left
<1>5. s = t
  BY <1>1, <1>4 DEF HandedOver, Dropped
<1>6. CASE HandedOver(t)
  <2>1. PICK final \in Terminal : Offers(Successor(t), sub, ClosedTurns(t, final))
    BY <1>6 DEF HandedOver
  <2>2. ClosedTurns(t, final) \in [Submission -> TurnRow]
    BY <1>0, ClosedType, ConstantsOK DEF ClosedTurns
  <2>3. Successor(t) = Selected(sub, turn[t].target, turn[t].targetVersion)
    BY DEF Successor
  <2>4. /\ Successor(t) \in SUBSET Submission
        /\ \A r \in Successor(t) : r = turn[t].target
        /\ Successor(t) = {} =>
             \/ turn[t].target \notin Retained(sub)
             \/ sub[turn[t].target].version # turn[t].targetVersion
    BY <2>3, RetainedFacts DEF Selected
  <2> QED  BY <1>0, <2>1, <2>2, <2>4, ClaimOutcomes DEF HandsOverTo
<1> QED  BY <1>4, <1>5, <1>6 DEF Dropped

-----------------------------------------------------------------------------
(* The refinement of TurnSlot.                                            *)

(* The stage of a submission, in given tables.                             *)
StageIn(rows, turns, s) ==
  IF turns[s].status \in Live THEN "admitted"
  ELSE IF turns[s].status \in Terminal THEN "over"
  ELSE RowStage[rows[s].status]

(* The stage function the refinement mapping builds.                       *)
Stages == [s \in Submission |-> StageOf(s)]

(* The stages of the rows an action writes.                                *)
LEMMA StageFacts ==
  ASSUME NEW s, NEW rows, NEW turns
  PROVE  /\ turns[s].status \in Live => StageIn(rows, turns, s) = "admitted"
         /\ turns[s].status \in Terminal => StageIn(rows, turns, s) = "over"
         /\ turns[s].status = "none" =>
              /\ rows[s].status = "none" => StageIn(rows, turns, s) = "outside"
              /\ rows[s].status = "pending" => StageIn(rows, turns, s) = "queued"
              /\ rows[s].status = "failed" => StageIn(rows, turns, s) = "held"
              /\ rows[s].status = "withdrawn" => StageIn(rows, turns, s) = "withdrawn"
BY DEF StageIn, Live, Terminal, RowStage

(* A new turn is live.                                                     *)
LEMMA NewTurnStatus == NewTurn.status \in Live
BY DEF NewTurn, NoTurn, Live

(* The refinement mapping is the stage in the current tables, and after a  *)
(* step the stage in the next ones.                                        *)
LEMMA StageIsIn ==
  ASSUME NEW s \in Submission
  PROVE  /\ StageOf(s) = StageIn(sub, turn, s)
         /\ StageOf(s)' = StageIn(sub', turn', s)
BY DEF StageOf, StageIn

(* A row that keeps its status keeps its stage.                            *)
LEMMA SameStage ==
  ASSUME NEW s \in Submission, SameRow(s), SamePhase
  PROVE  StageOf(s)' = StageOf(s)
BY DEF StageOf, SameRow, SamePhase, Live, Terminal

(* The retained rows are those waiting in the abstract queue.              *)
LEMMA RetainedWaits ==
  ASSUME IInv, NEW s \in Retained(sub)
  PROVE  /\ turn[s].status = "none"
         /\ StageOf(s) \in {"queued", "held"} /\ s \in Submission
         /\ s \in Slot!Waiting
<1>1. turn[s].status = "none" /\ s \in Submission /\ sub[s].status \in {"pending", "failed"}
  BY RetainedHasNoTurn, RetainedFacts DEF IInv
<1>2. StageOf(s) \in {"queued", "held"}
  BY <1>1, StageFacts, StageIsIn
<1> QED  BY <1>1, <1>2 DEF Slot!Waiting

(* With no row retained, nobody waits in the abstract queue.               *)
LEMMA NothingWaits ==
  ASSUME IInv, Retained(sub) = {}
  PROVE  Slot!Waiting = {}
<1> SUFFICES ASSUME NEW s \in Submission, StageOf(s) \in {"queued", "held"}
             PROVE  FALSE
  BY DEF Slot!Waiting
<1>1. sub[s].status \in {"none", "claimed", "withdrawn"}
  BY DEF IInv, TypeOK, SubmissionRow, Retained, Pending, Failed
<1> QED  BY <1>1 DEF StageOf, RowStage

(* A hidden step changes no stage.                                         *)
LEMMA StagesKept ==
  ASSUME \A r \in Submission : SameRow(r), SamePhase
  PROVE  Stages' = Stages
BY SameStage DEF Stages

(* The offer of the store is the offer of the abstract queue, once the     *)
(* transaction has turned x into its new stage.                            *)
LEMMA OfferIsOffer ==
  ASSUME NEW candidates \in SUBSET Submission, NEW rows, NEW turns, NEW x \in Submission, NEW to,
         rows \in [Submission -> SubmissionRow], turns \in [Submission -> TurnRow],
         \A r \in Submission \ {x} : StageIn(rows, turns, r) = StageOf(r),
         StageIn(rows, turns, x) = to,
         \A r \in candidates : rows[r].status \in {"pending", "failed"} /\ turns[r].status = "none",
         Offers(candidates, rows, turns)
  PROVE  Slot!Offer(x, to)
<1> DEFINE after == [Stages EXCEPT ![x] = to]
<1>0. \A r \in Submission : after[r] = StageIn(rows, turns, r)
  BY DEF Stages
<1>1. ASSUME NEW s \in candidates, active' = s, turn'[s] = NewTurn,
             \A r \in Submission \ {s} : sub'[r] = rows[r] /\ turn'[r] = turns[r]
      PROVE  Slot!Offer(x, to)
  <2>1. after[s] \in {"queued", "held"}
    BY <1>0, StageFacts
  <2>2. StageOf(s)' = "admitted"
    BY <1>1, NewTurnStatus, StageFacts, StageIsIn
  <2>3. \A r \in Submission \ {s} : StageOf(r)' = after[r]
    BY <1>0, <1>1, StageIsIn DEF StageIn
  <2>4. Stages' = [after EXCEPT ![s] = "admitted"]
    BY <2>2, <2>3 DEF Stages
  <2>5. /\ (IF s = x THEN to ELSE Stages[s]) \in {"queued", "held"}
        /\ Stages' = [Stages EXCEPT ![x] = to, ![s] = "admitted"]
    BY <2>1, <2>4 DEF Stages
  <2> QED  BY <1>1, <2>5 DEF Slot!Offer, Stages
<1>2. ASSUME NEW s \in candidates, active' = None, turn' = turns, sub'[s].status = "failed",
             \A r \in Submission \ {s} : sub'[r] = rows[r]
      PROVE  Slot!Offer(x, to)
  <2>1. after[s] \in {"queued", "held"}
    BY <1>0, StageFacts
  <2>2. StageOf(s)' = "held"
    BY <1>2, StageFacts, StageIsIn
  <2>3. \A r \in Submission \ {s} : StageOf(r)' = after[r]
    BY <1>0, <1>2, StageIsIn DEF StageIn
  <2>4. Stages' = [after EXCEPT ![s] = "held"]
    BY <2>2, <2>3 DEF Stages
  <2>5. /\ (IF s = x THEN to ELSE Stages[s]) \in {"queued", "held"}
        /\ Stages' = [Stages EXCEPT ![x] = to, ![s] = "held"]
    BY <2>1, <2>4 DEF Stages
  <2> QED  BY <1>2, <2>5 DEF Slot!Offer, Stages
<1>3. ASSUME active' = None, sub' = rows, turn' = turns
      PROVE  Slot!Offer(x, to)
  <2>1. \A r \in Submission : StageOf(r)' = after[r]
    BY <1>0, <1>3, StageIsIn DEF StageIn
  <2>2. Stages' = [Stages EXCEPT ![x] = to]
    BY <2>1 DEF Stages
  <2> QED  BY <1>3, <2>2 DEF Slot!Offer, Stages
<1> QED  BY <1>1, <1>2, <1>3, ClaimOutcomes

(* Each kind of step maps to a step of the abstract queue: requeueing,     *)
LEMMA RequeueIsSlotStep ==
  ASSUME IInv, NEW s \in Submission, Requeued(s)
  PROVE  Slot!Requeue(s)
<1>1. s \in Retained(sub) /\ turn[s].status = "none" /\ s \in Slot!Waiting
  BY RetainedWaits DEF Requeued
<1>2. turn'[s].status = "none"
  BY <1>1 DEF Requeued, SamePhase, Live, Terminal
<1>3. StageOf(s)' = "queued"
  BY <1>2, StageFacts, StageIsIn DEF Requeued
<1>4. \A r \in Submission \ {s} : StageOf(r)' = StageOf(r)
  BY SameStage DEF Requeued
<1>5. Stages' = [Stages EXCEPT ![s] = "queued"]
  BY <1>3, <1>4 DEF Stages
<1> QED  BY <1>1, <1>5 DEF Slot!Requeue, Requeued, Stages

(* A new submission was outside the queue.                                 *)
LEMMA NewIsOutside ==
  ASSUME IInv, NEW s \in Submission, NEW rows, IsNew(s, rows)
  PROVE  /\ turn[s].status = "none" /\ StageOf(s) = "outside"
         /\ rows \in [Submission -> SubmissionRow]
         /\ rows[s].status = "pending" /\ StageIn(rows, turn, s) = "queued"
         /\ \A r \in Submission \ {s} : StageIn(rows, turn, r) = StageOf(r)
<1>1. turn[s].status = "none" /\ rows[s].status = "pending" /\ sub[s].status = "none"
  BY DEF IInv, ClaimsHaveTurns, IsNew
<1>2. \A r \in Submission \ {s} : StageIn(rows, turn, r) = StageOf(r)
  BY StageIsIn DEF IsNew, StageIn
<1> QED  BY <1>1, <1>2, StageFacts, StageIsIn DEF IsNew

(* entering,                                                               *)
LEMMA EnterIsSlotStep ==
  ASSUME ConstantsOK, IInv, NEW s \in Submission, Entered(s) \/ AdmittedNow(s)
  PROVE  Slot!Enter(s)
<1>0. turn \in [Submission -> TurnRow]
  BY DEF IInv, TypeOK
<1>1. CASE Entered(s)
  <2>1. turn[s].status = "none" /\ StageOf(s) = "outside" /\ sub'[s].status = "pending"
    BY <1>1, NewIsOutside DEF Entered
  <2>2. turn'[s].status = "none"
    BY <1>1, <2>1 DEF Entered, SamePhase, Live, Terminal
  <2>3. StageOf(s)' = "queued"
    BY <2>1, <2>2, StageFacts, StageIsIn
  <2>4. \A r \in Submission \ {s} : StageOf(r)' = StageOf(r)
    BY <1>1, SameStage DEF Entered, IsNew, SameRow
  <2>5. Stages' = [Stages EXCEPT ![s] = "queued"]
    BY <2>3, <2>4 DEF Stages
  <2> QED  BY <1>1, <2>1, <2>5 DEF Slot!Enter, Entered, Stages
<1>2. CASE AdmittedNow(s)
  <2>1. PICK rows : IsNew(s, rows) /\ Offers({s}, rows, turn)
    BY <1>2 DEF AdmittedNow
  <2>2. Slot!Offer(s, "queued")
    BY <1>0, <2>1, NewIsOutside, OfferIsOffer
  <2>3. StageOf(s) = "outside"
    BY <2>1, NewIsOutside
  <2>4. active = None /\ Slot!Waiting = {}
    BY <1>2, NothingWaits DEF AdmittedNow
  <2> QED  BY <2>2, <2>3, <2>4 DEF Slot!Enter
<1> QED  BY <1>1, <1>2

(* choosing a retained row, by hand or because it is withdrawn as the head *)
(* of a free queue,                                                        *)
LEMMA ChooseIsSlotStep ==
  ASSUME ConstantsOK, IInv, NEW s \in Retained(sub), active = None,
         NEW rows \in [Submission -> SubmissionRow],
         \A r \in Submission \ {s} : rows[r] = sub[r],
         Offers({s}, rows, turn)
  PROVE  Slot!Choose(s)
<1>0. turn \in [Submission -> TurnRow]
  BY DEF IInv, TypeOK
<1>1. s \in Slot!Waiting /\ turn[s].status = "none" /\ s \in Submission
  BY RetainedWaits
<1>2. CASE active' = s /\ turn'[s] = NewTurn
           /\ \A r \in Submission \ {s} : sub'[r] = rows[r] /\ turn'[r] = turn[r]
  <2>1. StageOf(s)' = "admitted"
    BY <1>1, <1>2, NewTurnStatus, StageFacts, StageIsIn
  <2>2. \A r \in Submission \ {s} : StageOf(r)' = StageOf(r)
    BY <1>2, StageIsIn DEF StageIn
  <2>3. Stages' = [Stages EXCEPT ![s] = "admitted"]
    BY <2>1, <2>2 DEF Stages
  <2> QED  BY <1>1, <1>2, <2>3 DEF Slot!Choose, Stages
<1>3. CASE active' = None /\ turn' = turn /\ sub'[s].status = "failed"
           /\ \A r \in Submission \ {s} : sub'[r] = rows[r]
  <2>1. StageOf(s)' = "held"
    BY <1>1, <1>3, StageFacts, StageIsIn
  <2>2. \A r \in Submission \ {s} : StageOf(r)' = StageOf(r)
    BY <1>3, StageIsIn DEF StageIn
  <2>3. Stages' = [Stages EXCEPT ![s] = "held"]
    BY <2>1, <2>2 DEF Stages
  <2> QED  BY <1>1, <1>3, <2>3 DEF Slot!Choose, Stages
<1>4. {s} \in SUBSET Submission /\ rows \in [Submission -> SubmissionRow]
  BY <1>1
<1> QED  BY <1>0, <1>2, <1>3, <1>4, ClaimOutcomes

(* leaving,                                                                *)
LEMMA LeaveIsSlotStep ==
  ASSUME ConstantsOK, IInv, NEW s \in Submission, Left(s) \/ LeftFree(s)
  PROVE  Slot!Leave(s) \/ Slot!Choose(s)
<1>0. TypeOK /\ turn \in [Submission -> TurnRow]
  BY DEF IInv, TypeOK
<1>1. s \in Slot!Waiting /\ turn[s].status = "none"
  BY RetainedWaits DEF Left, LeftFree
<1>2. /\ StageIn(WithdrawnRows(s), turn, s) = "withdrawn"
      /\ \A r \in Submission \ {s} : StageIn(WithdrawnRows(s), turn, r) = StageOf(r)
  <2>1. StageIn(WithdrawnRows(s), turn, s) = "withdrawn"
    BY <1>0, <1>1, WithdrawnRowsFacts, StageFacts
  <2>2. ASSUME NEW r \in Submission \ {s}
        PROVE  StageIn(WithdrawnRows(s), turn, r) = StageOf(r)
    BY <1>0, WithdrawnRowsFacts, StageIsIn DEF StageIn
  <2> QED  BY <2>1, <2>2
<1>3. CASE Left(s)
  <2>1. \A r \in Submission : StageOf(r)' = [Stages EXCEPT ![s] = "withdrawn"][r]
    <3>1. turn'[s].status = "none"
      BY <1>1, <1>3 DEF Left, SamePhase, Live, Terminal
    <3>2. StageOf(s)' = "withdrawn"
      BY <1>0, <1>3, <3>1, WithdrawnRowsFacts, StageFacts, StageIsIn DEF Left
    <3>3. \A r \in Submission \ {s} : StageOf(r)' = StageOf(r)
      BY <1>0, <1>3, WithdrawnRowsFacts, SameStage DEF Left, SameRow
    <3> QED  BY <3>2, <3>3 DEF Stages
  <2>2. Stages' = [Stages EXCEPT ![s] = "withdrawn"]
    BY <2>1 DEF Stages
  <2> QED  BY <1>1, <1>3, <2>2 DEF Slot!Leave, Left, Stages
<1>4. CASE LeftFree(s)
  <2>1. /\ WithdrawnRows(s) \in [Submission -> SubmissionRow]
        /\ \A r \in Submission \ {s} : WithdrawnRows(s)[r] = sub[r]
    BY <1>0, WithdrawnRowsFacts
  <2>2. active = None /\ s \in Retained(sub)
    BY <1>4 DEF LeftFree
  <2>3. CASE Offers({s}, WithdrawnRows(s), turn)
    BY <2>1, <2>2, <2>3, ChooseIsSlotStep
  <2>4. CASE Offers({}, WithdrawnRows(s), turn)
    <3>1. Slot!Offer(s, "withdrawn")
      BY <1>0, <1>2, <2>1, <2>4, OfferIsOffer
    <3> QED  BY <1>1, <2>2, <3>1 DEF Slot!Leave
  <2>5. ASSUME NEW r \in NextInLine(sub), r # s, Offers({r}, WithdrawnRows(s), turn)
        PROVE  Slot!Leave(s)
    <3>1. r \in Submission /\ sub[r].status = "pending"
      BY InLine
    <3>2. r \in Retained(sub)
      BY <3>1 DEF Retained, Pending
    <3>3. turn[r].status = "none" /\ WithdrawnRows(s)[r].status = "pending"
      BY <2>1, <2>5, <3>1, <3>2, RetainedWaits
    <3>4. Slot!Offer(s, "withdrawn")
      BY <1>0, <1>2, <2>1, <2>5, <3>1, <3>3, OfferIsOffer
    <3> QED  BY <1>1, <2>2, <3>4 DEF Slot!Leave
  <2>6. Offers(NextInLine(sub), WithdrawnRows(s), turn)
    BY <1>4 DEF LeftFree
  <2> QED  BY <2>3, <2>4, <2>5, <2>6, OfferIsToOne
<1> QED  BY <1>3, <1>4

(* and ending a turn.                                                      *)
LEMMA EndIsSlotStep ==
  ASSUME ConstantsOK, IInv, NEW t \in Submission, HandedOver(t) \/ Dropped(t)
  PROVE  Slot!End
<1>0. sub \in [Submission -> SubmissionRow] /\ turn \in [Submission -> TurnRow]
  BY DEF IInv, TypeOK
<1>1. active = t /\ t # None
  BY DEF HandedOver, Dropped, ConstantsOK
<1>2. CASE HandedOver(t)
  <2>1. PICK final \in Terminal : Offers(Successor(t), sub, ClosedTurns(t, final))
    BY <1>2 DEF HandedOver
  <2> DEFINE turns == ClosedTurns(t, final)
  <2>2. turns \in [Submission -> TurnRow]
    BY <1>0, ClosedType, ConstantsOK DEF ClosedTurns
  <2>3. turns[t].status = final /\ \A r \in Submission \ {t} : turns[r] = turn[r]
    BY <1>0 DEF ClosedTurns, Closed, TurnRow
  <2> HIDE DEF turns
  <2>4. StageIn(sub, turns, t) = "over"
    BY <2>3, StageFacts
  <2>5. \A r \in Submission \ {t} : StageIn(sub, turns, r) = StageOf(r)
    BY <2>3, StageIsIn DEF StageIn
  <2>6. Successor(t) \in SUBSET Submission /\ Successor(t) \subseteq Retained(sub)
    BY RetainedFacts DEF Successor, Selected, NextInLine, Retained, Pending
  <2>7. \A r \in Successor(t) : sub[r].status \in {"pending", "failed"} /\ turns[r].status = "none"
    <3> TAKE r \in Successor(t)
    <3>1. r \in Retained(sub) /\ turn[r].status = "none"
      BY <2>6, RetainedWaits
    <3>2. r # t
      BY <1>2, <3>1 DEF HandedOver, Live
    <3> QED  BY <2>3, <2>6, <3>1, <3>2, RetainedFacts
  <2>8. Offers(Successor(t), sub, turns)
    BY <2>1 DEF turns
  <2>9. Slot!Offer(t, "over")
    BY <1>0, <2>2, <2>4, <2>5, <2>6, <2>7, <2>8, OfferIsOffer
  <2> QED  BY <1>1, <2>9 DEF Slot!End
<1>3. CASE Dropped(t)
  <2>1. /\ turn' = [turn EXCEPT ![t].status = "failed"]
        /\ active' = None /\ sub' = sub
    BY <1>1, <1>3 DEF Dropped, LosesBroker, FailWithoutHandoff
  <2>2. turn'[t].status = "failed" /\ \A r \in Submission \ {t} : turn'[r] = turn[r]
    BY <1>0, <2>1 DEF TurnRow
  <2>3. StageOf(t)' = "over"
    BY <2>2, StageFacts, StageIsIn DEF Terminal
  <2>4. \A r \in Submission \ {t} : StageOf(r)' = StageOf(r)
    BY <2>1, <2>2, StageIsIn DEF StageIn
  <2>5. Stages' = [Stages EXCEPT ![t] = "over"]
    BY <2>3, <2>4 DEF Stages
  <2>6. Slot!Offer(t, "over")
    BY <2>1, <2>5 DEF Slot!Offer, Stages
  <2> QED  BY <1>1, <2>6 DEF Slot!End
<1> QED  BY <1>2, <1>3

(* Every kind of step maps to a step or a stutter.                         *)
LEMMA MoveIsSlotStep ==
  ASSUME ConstantsOK, IInv, Move
  PROVE  [Slot!SlotNext]_(Slot!slotVars)
<1>1. CASE Hidden
  <2>1. Stages' = Stages /\ active' = active
    BY <1>1, StagesKept DEF Hidden
  <2> QED  BY <2>1 DEF Slot!slotVars, Stages
<1>2. ASSUME NEW s \in Submission,
             \/ Requeued(s) \/ Entered(s) \/ Left(s) \/ AdmittedNow(s)
             \/ Retried(s) \/ LeftFree(s) \/ HandedOver(s) \/ Dropped(s)
      PROVE  Slot!SlotNext
  <2>1. ASSUME Retried(s)
        PROVE  Slot!Choose(s)
    BY <2>1, ChooseIsSlotStep DEF Retried, Retryable, IInv, TypeOK
  <2> QED
    BY <1>2, <2>1, RequeueIsSlotStep, EnterIsSlotStep, LeaveIsSlotStep, EndIsSlotStep
       DEF Slot!SlotNext
<1> QED  BY <1>1, <1>2 DEF Move

-----------------------------------------------------------------------------
(* Positions stay distinct in every behaviour.                             *)
LEMMA PositionsHold == Spec => []Positions
<1>1. Init => Positions
  BY DEF Init, Positions
<1>2. ASSUME IInv, Positions, [Next]_vars
      PROVE  Positions'
  BY <1>2, ConstantsOK, StepMoves, MoveKeepsPositions
<1> QED  BY <1>1, <1>2, IInvAlways, PTL DEF Spec

(* Submissions are admitted in queue order, for any number of them, but    *)
(* for the two explicit exceptions: an interrupt's target and a retry      *)
(* under a hold.                                                           *)
THEOREM AdmissionInOrder == Spec => FifoAdmission
<1>1. ASSUME IInv, Positions, [Next]_vars
      PROVE  [FifoStep]_vars
  BY <1>1, ConstantsOK, StepMoves, MoveKeepsOrder
<1> QED  BY <1>1, IInvAlways, PositionsHold, PTL DEF Spec, FifoAdmission

(* A failed row holds admission against every path but those two.          *)
THEOREM AdmissionHeld == Spec => HoldBlocksAdmission
<1>1. ASSUME IInv, Positions, [Next]_vars
      PROVE  [HoldStep]_vars
  BY <1>1, ConstantsOK, StepMoves, MoveKeepsOrder
<1> QED  BY <1>1, IInvAlways, PositionsHold, PTL DEF Spec, HoldBlocksAdmission

(* A durable interrupt reaches its target whatever closes the turn, short  *)
(* of the broker outage that closes it without a successor.                *)
THEOREM InterruptHandsOver == Spec => InterruptIsDurable
<1>1. ASSUME IInv, [Next]_vars
      PROVE  [InterruptStep]_vars
  BY <1>1, ConstantsOK, StepMoves, MoveKeepsInterrupt
<1> QED  BY <1>1, IInvAlways, PTL DEF Spec, InterruptIsDurable

(* The store, its workers, its monitor and their failures implement the    *)
(* one-slot queue, for any number of submissions, workers and faults.      *)
THEOREM QueueImplementsSlot == Spec => ImplementsSlot
<1>1. ASSUME Init
      PROVE  Slot!SlotInit
  BY <1>1 DEF Init, Slot!SlotInit, StageOf, RowStage, NoTurn, Live, Terminal
<1>2. ASSUME IInv, [Next]_vars
      PROVE  [Slot!SlotNext]_(Slot!slotVars)
  BY <1>2, ConstantsOK, StepMoves, MoveIsSlotStep
<1> QED  BY <1>1, <1>2, IInvAlways, PTL DEF Spec, ImplementsSlot, Slot!SlotSpec

-----------------------------------------------------------------------------
(* The executors.                                                          *)

(* The generation counts the dispatches of a turn: none before it exists.  *)
StartedOnce == \A t \in Submission : turn[t].status = "none" <=> turn[t].generation = 0

(* The dispatch that is given up on a broker outage is only ever made for  *)
(* a turn that has run before.                                             *)
KeepsLater == \A c \in inflight : c.kind = "keep" => turn[c.turn].generation > 1

(* Without a fault, an uninterrupted run has its worker, under the turn's  *)
(* own generation: that is what lets the worker settle it.                 *)
RunIsOwned ==
  faults = 0 =>
    \A t \in Submission :
      turn[t].status = "running" /\ turn[t].target = None =>
        \E w \in Worker :
          /\ worker[w].turn = t /\ turn[t].owner = w
          /\ worker[w].generation = turn[t].generation

(* The strengthening of the two executor invariants.                       *)
EInv == StartedOnce /\ KeepsLater /\ RunIsOwned /\ FreshTurnIsDispatched

(* What a step owes to keep it. A run continues as it was, or is           *)
(* interrupted.                                                            *)
RowsRun ==
  \A t \in Submission :
    turn'[t].status = "running" /\ turn'[t].target = None =>
      /\ turn[t].status = "running" /\ turn[t].target = None
      /\ turn'[t].owner = turn[t].owner /\ turn'[t].generation = turn[t].generation

(* A worker leaves its pass only when the turn is no longer its run.       *)
PassesRun ==
  \A w \in Worker :
    \/ /\ worker'[w].turn = worker[w].turn
       /\ worker'[w].generation = worker[w].generation
    \/ \A t \in Submission :
         \/ worker[w].turn # t \/ worker[w].generation # turn'[t].generation
         \/ turn'[t].status # "running" \/ turn'[t].owner # w

(* t neither starts nor returns to the broker.                             *)
SameStart(t) ==
  /\ turn'[t].generation = turn[t].generation
  /\ turn'[t].status = "none" <=> turn[t].status = "none"
  /\ turn'[t].status = "pending" => turn[t].status = "pending" \/ turn[t].generation # 1

(* A turn starts with a call that will send it.                            *)
RowsStart ==
  \A t \in Submission :
    \/ SameStart(t)
    \/ /\ turn[t].status # "none" /\ turn'[t].status # "none"
       /\ turn'[t].generation = turn[t].generation + 1
    \/ /\ turn[t].status = "none" /\ turn'[t] = NewTurn
       /\ \E c \in inflight' : c.turn = t /\ c.kind \in DispatchKind

(* The calls that answer for a turn nobody has sent yet.                   *)
Answering == DispatchKind \cup {"fail"}

(* Such a call is dropped only when the message is sent, when its failure  *)
(* is about to be written, or when the turn no longer waits for its first  *)
(* delivery.                                                               *)
CallsKept ==
  \A c \in inflight :
    \/ c \in inflight' \/ c.kind \notin Answering
    \/ c.turn \in broker' \/ turn'[c.turn].status # "pending" \/ turn'[c.turn].generation # 1
    \/ \E d \in inflight' : d.turn = c.turn /\ d.kind = "fail"

(* The call that may be given up is not made for a first dispatch.         *)
NoEarlyKeep ==
  \A c \in inflight' \ inflight : c.kind = "keep" => turn'[c.turn].generation > 1

(* A message is consumed only by the turn's start.                         *)
MessagesKept ==
  \A t \in broker : t \in broker' \/ turn'[t].status # "pending" \/ turn'[t].generation # 1

(* A step that does all of it.                                             *)
Tidy ==
  RowsRun /\ PassesRun /\ RowsStart /\ CallsKept /\ NoEarlyKeep /\ MessagesKept /\ faults' = faults

(* Such a step keeps the executor invariants.                              *)
LEMMA TidyKeepsEInv ==
  ASSUME ConstantsOK, TypeOK, EInv, Tidy
  PROVE  EInv'
<1>0. /\ \A t \in Submission : turn[t].generation \in Nat
      /\ \A c \in inflight : c.turn \in Submission
  BY DEF TypeOK, TurnRow, Call
<1>1. NewTurn.generation = 1 /\ NewTurn.status = "pending"
  BY DEF NewTurn, NoTurn
<1>2. StartedOnce'
  BY <1>0, <1>1 DEF EInv, StartedOnce, Tidy, RowsStart, SameStart
<1>3. KeepsLater'
  <2> SUFFICES ASSUME NEW c \in inflight', c.kind = "keep"
               PROVE  turn'[c.turn].generation > 1
    BY DEF KeepsLater
  <2>1. CASE c \notin inflight
    BY <2>1 DEF Tidy, NoEarlyKeep
  <2>2. CASE c \in inflight
    <3>1. c.turn \in Submission /\ turn[c.turn].generation > 1
      BY <1>0, <2>2 DEF EInv, KeepsLater
    <3>2. turn[c.turn].status # "none"
      BY <1>0, <3>1 DEF EInv, StartedOnce
    <3> QED  BY <1>0, <3>1, <3>2 DEF Tidy, RowsStart, SameStart
  <2> QED  BY <2>1, <2>2
<1>4. RunIsOwned'
  <2> SUFFICES ASSUME faults' = 0, NEW t \in Submission,
                      turn'[t].status = "running", turn'[t].target = None
               PROVE  \E w \in Worker :
                        /\ worker'[w].turn = t /\ turn'[t].owner = w
                        /\ worker'[w].generation = turn'[t].generation
    BY DEF RunIsOwned
  <2>1. /\ turn[t].status = "running" /\ turn[t].target = None
        /\ turn'[t].owner = turn[t].owner /\ turn'[t].generation = turn[t].generation
    BY DEF Tidy, RowsRun
  <2>2. PICK w \in Worker : /\ worker[w].turn = t /\ turn[t].owner = w
                            /\ worker[w].generation = turn[t].generation
    BY <2>1 DEF EInv, RunIsOwned, Tidy
  <2>3. worker'[w].turn = worker[w].turn /\ worker'[w].generation = worker[w].generation
    BY <2>1, <2>2 DEF Tidy, PassesRun
  <2> QED  BY <2>1, <2>2, <2>3
<1>5. FreshTurnIsDispatched'
  <2> SUFFICES ASSUME faults' = 0, NEW t \in Submission,
                      turn'[t].status = "pending", turn'[t].generation = 1
               PROVE  t \in broker' \/ \E c \in inflight' : c.turn = t /\ c.kind \in Answering
    BY DEF FreshTurnIsDispatched, Answering
  <2>1. CASE SameStart(t)
    <3>1. turn[t].status = "pending" /\ turn[t].generation = 1
      BY <2>1 DEF SameStart
    <3>2. t \in broker \/ \E c \in inflight : c.turn = t /\ c.kind \in Answering
      BY <3>1 DEF EInv, FreshTurnIsDispatched, Tidy, Answering
    <3> QED  BY <3>2 DEF Tidy, CallsKept, MessagesKept, Answering
  <2>2. CASE turn[t].status # "none" /\ turn'[t].generation = turn[t].generation + 1
    BY <1>0, <2>2 DEF EInv, StartedOnce
  <2> QED  BY <2>1, <2>2 DEF Tidy, RowsStart, Answering
<1> QED  BY <1>2, <1>3, <1>4, <1>5 DEF EInv

(* An offer creates a turn together with its dispatch call.                *)
LEMMA ClaimIsTidy ==
  ASSUME NEW candidates \in SUBSET Submission, NEW rows, NEW turns, NEW calls,
         NEW kind \in {"ingress", "handoff"}, Claim(candidates, rows, turns, calls, kind),
         turns \in [Submission -> TurnRow], inflight \subseteq Call, calls \subseteq inflight,
         \A t \in Submission :
           \/ turns[t] = turn[t]
           \/ /\ turn[t].status \in Live /\ turns[t].status \in Terminal
              /\ turns[t].generation = turn[t].generation,
         \A s \in candidates : turns[s].status = "none",
         \A c \in inflight \ calls :
           c.kind \notin Answering \/ turns[c.turn].status \in Terminal
  PROVE  /\ RowsRun /\ RowsStart /\ CallsKept /\ NoEarlyKeep
         /\ \A t \in Submission : turns[t].status \in Terminal => turn'[t] = turns[t]
<1>0. /\ NewTurn.status = "pending"
      /\ {"ingress", "handoff"} \subseteq DispatchKind
  BY DEF NewTurn, NoTurn, DispatchKind
<1>1. CASE turn' = turns /\ inflight' = calls
  <2>1. RowsRun
    BY <1>1 DEF RowsRun, Terminal
  <2>2. RowsStart
    BY <1>1 DEF RowsStart, SameStart, Live, Terminal
  <2>3. CallsKept
    BY <1>1 DEF CallsKept, Terminal
  <2>4. NoEarlyKeep
    BY <1>1 DEF NoEarlyKeep
  <2> QED  BY <1>1, <2>1, <2>2, <2>3, <2>4
<1>2. ASSUME NEW s \in candidates, turn' = [turns EXCEPT ![s] = NewTurn],
             inflight' = calls \cup {[kind |-> kind, turn |-> s]}
      PROVE  /\ RowsRun /\ RowsStart /\ CallsKept /\ NoEarlyKeep
             /\ \A t \in Submission : turns[t].status \in Terminal => turn'[t] = turns[t]
  <2>1. /\ turn'[s] = NewTurn /\ turns[s].status = "none" /\ turn[s].status = "none"
        /\ \A t \in Submission \ {s} : turn'[t] = turns[t]
    BY <1>2 DEF Terminal
  <2>2. RowsRun
    BY <1>0, <2>1 DEF RowsRun, Live, Terminal
  <2>3. RowsStart
    <3> DEFINE new == [kind |-> kind, turn |-> s]
    <3>1. new \in inflight' /\ new.turn = s /\ new.kind \in DispatchKind
      BY <1>0, <1>2
    <3>2. \A t \in Submission \ {s} : SameStart(t)
      BY <2>1 DEF SameStart, Live, Terminal
    <3> QED  BY <2>1, <3>1, <3>2 DEF RowsStart
  <2>4. CallsKept
    <3> SUFFICES ASSUME NEW c \in inflight, c \notin inflight', c.kind \in Answering
                 PROVE  turn'[c.turn].status # "pending"
      BY DEF CallsKept
    <3>1. c.turn \in Submission /\ turns[c.turn].status \in Terminal
      BY <1>2 DEF Call
    <3> QED  BY <2>1, <3>1 DEF Terminal
  <2>5. NoEarlyKeep
    BY <1>2 DEF NoEarlyKeep
  <2> QED  BY <2>1, <2>2, <2>3, <2>4, <2>5 DEF Terminal
<1> QED  BY <1>1, <1>2 DEF Claim, AdmitRow, RejectRow

(* So does the handoff of a turn that ends.                                *)
LEMMA TerminalizeIsTidy ==
  ASSUME ConstantsOK, IInv, NEW t \in Submission, NEW final \in Terminal, NEW calls,
         turn[t].status \in Live, Terminalize(t, final, calls), calls \subseteq inflight,
         \A c \in inflight \ calls : c.kind \notin Answering \/ c.turn = t
  PROVE  /\ RowsRun /\ RowsStart /\ CallsKept /\ NoEarlyKeep
         /\ turn'[t].status \in Terminal
<1>0. sub \in [Submission -> SubmissionRow] /\ turn \in [Submission -> TurnRow]
      /\ inflight \subseteq Call
  BY DEF IInv, TypeOK
<1>1. active = t
  BY DEF IInv, SingleLiveTurn
<1> DEFINE turns == ClosedTurns(t, final)
<1>2. Claim(Successor(t), sub, turns, calls, "handoff")
  BY <1>1 DEF Terminalize, ClosedTurns
<1>3. turns \in [Submission -> TurnRow]
  BY <1>0, ClosedType, ConstantsOK DEF ClosedTurns
<1>4. /\ turns[t].status = final /\ turns[t].generation = turn[t].generation
      /\ \A r \in Submission \ {t} : turns[r] = turn[r]
  BY <1>0, ClosedType DEF ClosedTurns
<1> HIDE DEF turns
<1>5. Successor(t) \subseteq Retained(sub) /\ Successor(t) \in SUBSET Submission
  BY RetainedFacts DEF Successor, Selected, NextInLine, Retained, Pending
<1>6. ASSUME NEW s \in Successor(t)
      PROVE  turns[s].status = "none"
  <2>1. s \in Submission /\ turn[s].status = "none"
    BY <1>5, <1>6, RetainedHasNoTurn DEF IInv
  <2> QED  BY <1>4, <2>1 DEF Live
<1>7. /\ RowsRun /\ RowsStart /\ CallsKept /\ NoEarlyKeep
      /\ \A r \in Submission : turns[r].status \in Terminal => turn'[r] = turns[r]
  BY <1>0, <1>2, <1>3, <1>4, <1>5, <1>6, ClaimIsTidy
<1> QED  BY <1>4, <1>7

(* Steps that touch neither turns nor calls,                               *)
LEMMA QuietIsTidy ==
  ASSUME UNCHANGED <<turn, inflight>>, PassesRun, MessagesKept, faults' = faults
  PROVE  Tidy
BY DEF Tidy, RowsRun, RowsStart, SameStart, CallsKept, NoEarlyKeep

(* the two halves of a cancel,                                             *)
LEMMA FlagsAreTidy ==
  ASSUME TypeOK, NEW t \in Submission, NEW calls \in SUBSET inflight,
         NEW call, call.kind # "keep",
         \A c \in inflight \ calls : c.kind \notin Answering,
         turn' = turn \/ turn' = [turn EXCEPT ![t].cancel = @ \/ turn[t].status \in Live],
         inflight' = calls \cup {call},
         PassesRun, MessagesKept, faults' = faults
  PROVE  Tidy
<1>1. \A r \in Submission :
        /\ turn'[r].status = turn[r].status /\ turn'[r].target = turn[r].target
        /\ turn'[r].owner = turn[r].owner /\ turn'[r].generation = turn[r].generation
  BY DEF TypeOK, TurnRow
<1> QED  BY <1>1 DEF Tidy, RowsRun, RowsStart, SameStart, CallsKept, NoEarlyKeep

(* and the resumption of a waiting turn are tidy.                          *)
LEMMA ResumeIsTidy ==
  ASSUME ConstantsOK, TypeOK, StartedOnce, NEW t \in Submission, NEW reason,
         NEW kind \in DispatchKind, Resume(t, reason, kind)
  PROVE  Tidy
<1>1. /\ turn \in [Submission -> TurnRow] /\ inflight \subseteq Call
  BY DEF TypeOK
<1>2. /\ turn[t].status = "waiting" /\ turn'[t].status = "pending"
      /\ turn'[t].generation = turn[t].generation + 1
      /\ \A r \in Submission \ {t} : turn'[r] = turn[r]
      /\ inflight' = inflight \cup {[kind |-> kind, turn |-> t]}
      /\ UNCHANGED <<broker, worker, faults>>
  BY <1>1 DEF Resume, TurnRow
<1>3. turn'[t].generation > 1
  BY <1>1, <1>2 DEF StartedOnce, TurnRow
<1> QED
  BY <1>2, <1>3 DEF Tidy, RowsRun, PassesRun, RowsStart, SameStart, CallsKept, NoEarlyKeep,
     MessagesKept

(* The user's commands are tidy,                                           *)
LEMMA UserIsTidy ==
  ASSUME ConstantsOK, IInv, StartedOnce, UserStep
  PROVE  Tidy
<1>0. /\ sub \in [Submission -> SubmissionRow] /\ turn \in [Submission -> TurnRow]
      /\ inflight \subseteq Call /\ ActiveTurn = active
  BY ActiveIsLive DEF IInv, TypeOK
<1>1. PassesRun /\ MessagesKept /\ faults' = faults
  BY ZenonT(40) DEF UserStep, Admit, UpdatePending, Retry, Withdraw, CancelByUser, FlagCancel,
         ResolveInteraction, Resume, RepeatInterrupt, Interrupt, PassesRun, MessagesKept
<1>2. CASE UNCHANGED <<turn, inflight>>
  BY <1>1, <1>2, QuietIsTidy
<1>3. ASSUME NEW candidates \in SUBSET Submission, NEW rows,
             \A s \in candidates : turn[s].status = "none",
             Claim(candidates, rows, turn, inflight, "ingress")
      PROVE  Tidy
  <2>1. RowsRun /\ RowsStart /\ CallsKept /\ NoEarlyKeep
    BY <1>0, <1>3, ClaimIsTidy
  <2> QED  BY <1>1, <2>1 DEF Tidy
<1>4. PICK s \in Submission :
        \/ Admit(s) \/ UpdatePending(s) \/ Retry(s) \/ Withdraw(s)
        \/ CancelByUser(s) \/ ResolveInteraction(s) \/ RepeatInterrupt(s)
        \/ \E t \in Submission : Interrupt(t, s)
  BY DEF UserStep
<1>5. CASE Admit(s)
  <2>1. turn[s].status = "none"
    BY <1>5 DEF Admit, IInv, ClaimsHaveTurns
  <2>2. \/ UNCHANGED <<turn, inflight>>
        \/ \E rows : Claim({s}, rows, turn, inflight, "ingress")
    BY <1>5 DEF Admit
  <2> QED  BY <1>2, <1>3, <2>1, <2>2
<1>6. CASE Retry(s)
  <2>1. turn[s].status = "none"
    BY <1>6, RetainedHasNoTurn DEF Retry, Retryable, IInv
  <2> QED  BY <1>2, <1>3, <1>6, <2>1 DEF Retry
<1>7. CASE Withdraw(s)
  <2>1. CASE UNCHANGED <<turn, inflight>>
    BY <1>2, <2>1
  <2>2. CASE Claim(NextInLine(sub), WithdrawnRows(s), turn, inflight, "ingress")
    <3>1. NextInLine(sub) \in SUBSET Submission
      BY InLine
    <3>2. ASSUME NEW r \in NextInLine(sub)
          PROVE  turn[r].status = "none"
      <4>1. r \in Retained(sub)
        BY <3>2 DEF NextInLine, Retained
      <4> QED  BY <4>1, RetainedHasNoTurn DEF IInv
    <3> QED  BY <1>3, <2>2, <3>1, <3>2
  <2> QED  BY <1>7, <2>1, <2>2 DEF Withdraw, WithdrawnRows
<1>8. CASE CancelByUser(s) \/ RepeatInterrupt(s)
  <2>1. CASE CancelByUser(s)
    <3>1. /\ turn' = [turn EXCEPT ![s].cancel = @ \/ turn[s].status \in Live]
          /\ inflight' = inflight \cup {[kind |-> "settle", turn |-> s]}
      BY <2>1 DEF CancelByUser, FlagCancel
    <3> QED  BY <1>1, <3>1, FlagsAreTidy DEF IInv
  <2>2. CASE RepeatInterrupt(s)
    <3>1. turn' = turn /\ inflight' = inflight \cup {[kind |-> "flag", turn |-> s]}
      BY <2>2 DEF RepeatInterrupt
    <3> QED  BY <1>1, <3>1, FlagsAreTidy DEF IInv
  <2> QED  BY <1>8, <2>1, <2>2
<1>9. CASE ResolveInteraction(s)
  <2>1. PICK kind \in DispatchKind : Resume(s, "interaction", kind)
    BY <1>9 DEF ResolveInteraction, DispatchKind
  <2> QED  BY <2>1, ResumeIsTidy DEF IInv
<1>10. ASSUME NEW t \in Submission, Interrupt(t, s)
       PROVE  Tidy
  <2>1. /\ turn'[t].status = turn[t].status /\ turn'[t].target = s /\ s # None
        /\ turn'[t].generation = turn[t].generation + 1 /\ turn[t].status # "none"
        /\ \A r \in Submission \ {t} : turn'[r] = turn[r]
    BY <1>0, <1>10 DEF Interrupt, TurnRow, Live, ConstantsOK
  <2>2. RowsRun
    BY <2>1 DEF RowsRun
  <2>3. RowsStart
    BY <2>1 DEF RowsStart, SameStart
  <2>4. CallsKept /\ NoEarlyKeep
    BY <1>10 DEF Interrupt, CallsKept, NoEarlyKeep
  <2> QED  BY <1>1, <2>2, <2>3, <2>4 DEF Tidy
<1> QED
  BY <1>2, <1>4, <1>5, <1>6, <1>7, <1>8, <1>9, <1>10 DEF UpdatePending

(* the calls after a commit are,                                           *)
LEMMA CallIsTidy ==
  ASSUME ConstantsOK, IInv, EInv, CallStep
  PROVE  Tidy
<1>0. /\ sub \in [Submission -> SubmissionRow] /\ turn \in [Submission -> TurnRow]
      /\ inflight \subseteq Call
  BY DEF IInv, TypeOK
<1>1. PassesRun /\ MessagesKept /\ faults' = faults
  BY DEF CallStep, DispatchSucceeds, DispatchFails, CloseUnsent, ContinueInterrupt,
         FlagCancel, SettleCancel, PassesRun, MessagesKept
<1>2. PICK c \in inflight :
        \/ DispatchSucceeds(c) \/ DispatchFails(c) \/ CloseUnsent(c)
        \/ ContinueInterrupt(c) \/ SettleCancel(c)
  BY DEF CallStep
<1>3. c.turn \in Submission /\ inflight \ {c} \subseteq inflight
  BY <1>0 DEF Call
<1>4. ASSUME NEW final \in Terminal, turn[c.turn].status \in Live,
             Terminalize(c.turn, final, inflight \ {c})
      PROVE  Tidy
  <2>1. RowsRun /\ RowsStart /\ CallsKept /\ NoEarlyKeep
    BY <1>3, <1>4, TerminalizeIsTidy
  <2> QED  BY <1>1, <2>1 DEF Tidy
<1>5. ASSUME UNCHANGED turn, inflight' = inflight \ {c},
             \/ c.kind \notin Answering \/ c.turn \in broker'
             \/ turn[c.turn].status # "pending" \/ turn[c.turn].generation # 1
      PROVE  Tidy
  BY <1>1, <1>5 DEF Tidy, RowsRun, RowsStart, SameStart, CallsKept, NoEarlyKeep
<1>6. CASE DispatchSucceeds(c)
  BY <1>5, <1>6 DEF DispatchSucceeds
<1>7. CASE ContinueInterrupt(c)
  <2>1. /\ turn' = [turn EXCEPT ![c.turn].cancel = @ \/ turn[c.turn].status \in Live]
        /\ inflight' = (inflight \ {c}) \cup {[kind |-> "settle", turn |-> c.turn]}
        /\ c.kind \notin Answering
    BY <1>7 DEF ContinueInterrupt, FlagCancel, DispatchKind, Answering
  <2> DEFINE call == [kind |-> "settle", turn |-> c.turn]
  <2>2. /\ call.kind # "keep" /\ inflight \ {c} \in SUBSET inflight
        /\ \A d \in inflight \ (inflight \ {c}) : d.kind \notin Answering
        /\ inflight' = (inflight \ {c}) \cup {call}
    BY <2>1
  <2> HIDE DEF call
  <2> QED  BY <1>1, <1>3, <2>1, <2>2, FlagsAreTidy DEF IInv
<1>8. CASE SettleCancel(c)
  <2>1. c.kind \notin Answering
    BY <1>8 DEF SettleCancel, DispatchKind, Answering
  <2> QED  BY <1>4, <1>5, <1>8, <2>1 DEF SettleCancel, Live, Terminal
<1>9. CASE DispatchFails(c)
  <2>1. CASE turn[c.turn].status = "pending" /\ Terminalize(c.turn, "failed", inflight \ {c})
    BY <1>4, <2>1 DEF Live, Terminal
  <2>2. CASE /\ inflight' = (inflight \ {c}) \cup {[kind |-> "fail", turn |-> c.turn]}
             /\ UNCHANGED turn
    <3> DEFINE d == [kind |-> "fail", turn |-> c.turn]
    <3>1. d \in inflight' /\ d.turn = c.turn /\ d.kind = "fail"
      BY <2>2
    <3>2. \A e \in inflight' \ inflight : e = d
      BY <2>2
    <3> HIDE DEF d
    <3> QED
      BY <1>1, <2>2, <3>1, <3>2 DEF Tidy, RowsRun, RowsStart, SameStart, CallsKept, NoEarlyKeep
  <2>3. CASE /\ c.kind = "keep" \/ turn[c.turn].status # "pending"
             /\ inflight' = inflight \ {c} /\ UNCHANGED turn
    BY <1>5, <2>3 DEF EInv, KeepsLater
  <2> QED  BY <1>9, <2>1, <2>2, <2>3 DEF DispatchFails
<1>10. CASE CloseUnsent(c)
  <2>1. turn[c.turn].status # "none"
    BY <1>10 DEF CloseUnsent, IInv, CallsFit
  <2>2. /\ turn'[c.turn].status = "failed"
        /\ turn'[c.turn].generation = turn[c.turn].generation
        /\ \A r \in Submission \ {c.turn} : turn'[r] = turn[r]
        /\ inflight' = inflight \ {c}
    BY <1>0, <1>3, <1>10 DEF CloseUnsent, FailWithoutHandoff, TurnRow
  <2> QED
    BY <1>1, <2>1, <2>2 DEF Tidy, RowsRun, RowsStart, SameStart, CallsKept, NoEarlyKeep
<1> QED  BY <1>2, <1>6, <1>7, <1>8, <1>9, <1>10

(* the workers' steps are, but for a delivery,                             *)
LEMMA WorkerIsTidy ==
  ASSUME ConstantsOK, IInv, WorkerStep
  PROVE  Tidy \/ \E w \in Worker, t \in Submission : Deliver(w, t)
<1>0. /\ turn \in [Submission -> TurnRow] /\ inflight \subseteq Call
      /\ worker \in [Worker -> Pass]
  BY DEF IInv, TypeOK
<1>1. ASSUME NEW w \in Worker, StopPass(w)
      PROVE  Tidy
  <2>1. PassesRun
    BY <1>0, <1>1 DEF StopPass, PassesRun, Pass
  <2>2. MessagesKept
    BY <1>1 DEF StopPass, MessagesKept
  <2> QED  BY <1>1, <2>1, <2>2, QuietIsTidy DEF StopPass
<1>3. ASSUME NEW w \in Worker, FinishPass(w)
      PROVE  Tidy
  <2>1. /\ MessagesKept /\ faults' = faults
        /\ worker' = [worker EXCEPT ![w] = Idle]
    BY <1>3 DEF FinishPass, MessagesKept
  <2>2. CASE ~Owns(w) /\ UNCHANGED <<turn, inflight>>
    <3>1. PassesRun
      BY <1>0, <2>1, <2>2 DEF PassesRun, Owns, Pass
    <3> QED  BY <2>1, <2>2, <3>1, QuietIsTidy
  <2>3. CASE Owns(w) /\ \E final \in Outcome : Terminalize(worker[w].turn, final, inflight)
    <3>1. PICK final \in Terminal : Terminalize(worker[w].turn, final, inflight)
      BY <2>3 DEF Outcome
    <3>2. worker[w].turn \in Submission /\ turn[worker[w].turn].status \in Live
      BY <1>0, <2>3 DEF Owns, Live, Pass
    <3>3. /\ RowsRun /\ RowsStart /\ CallsKept /\ NoEarlyKeep
          /\ turn'[worker[w].turn].status \in Terminal
      BY <3>1, <3>2, TerminalizeIsTidy
    <3>4. PassesRun
      BY <1>0, <2>1, <3>3 DEF PassesRun, Terminal
    <3> QED  BY <2>1, <3>3, <3>4 DEF Tidy
  <2> QED  BY <1>3, <2>2, <2>3 DEF FinishPass
<1>4. ASSUME NEW w \in Worker, NEW reason \in WaitReason, WaitPass(w, reason)
      PROVE  Tidy
  <2>1. worker[w].turn \in Submission /\ turn[worker[w].turn].status = "running"
    BY <1>0, <1>4 DEF WaitPass, Owns, Pass
  <2>2. /\ turn'[worker[w].turn].status = "waiting"
        /\ turn'[worker[w].turn].generation = turn[worker[w].turn].generation
        /\ \A r \in Submission \ {worker[w].turn} : turn'[r] = turn[r]
        /\ worker' = [worker EXCEPT ![w] = Idle]
        /\ UNCHANGED <<inflight, broker, faults>>
    BY <1>0, <1>4, <2>1 DEF WaitPass, TurnRow
  <2>3. PassesRun
    BY <1>0, <2>2 DEF PassesRun
  <2> QED
    BY <2>1, <2>2, <2>3 DEF Tidy, RowsRun, RowsStart, SameStart, CallsKept, NoEarlyKeep,
       MessagesKept
<1> QED  BY <1>1, <1>3, <1>4 DEF WorkerStep

(* and the monitor's are.                                                  *)
LEMMA MonitorIsTidy ==
  ASSUME ConstantsOK, IInv, StartedOnce, MonitorStep
  PROVE  Tidy
<1>0. turn \in [Submission -> TurnRow] /\ inflight \subseteq Call
  BY DEF IInv, TypeOK
<1>1. CASE \E t \in Submission : AttachmentsReady(t)
  <2>1. PICK t \in Submission : Resume(t, "attachment_parsing", "ingress")
    BY <1>1 DEF AttachmentsReady
  <2> QED  BY <2>1, ResumeIsTidy DEF IInv, DispatchKind
<1>2. ASSUME NEW t \in Submission, ExpirePending(t) \/ ExpireRunning(t)
      PROVE  Tidy
  <2>1. PassesRun /\ MessagesKept /\ faults' = faults
    BY <1>2 DEF ExpirePending, ExpireRunning, PassesRun, MessagesKept
  <2>2. CASE UNCHANGED turn /\ inflight' = inflight \cup {[kind |-> "handoff", turn |-> t]}
    BY <2>1, <2>2 DEF Tidy, RowsRun, RowsStart, SameStart, CallsKept, NoEarlyKeep
  <2>3. CASE turn[t].status \in Live /\ Terminalize(t, "failed", inflight)
    <3>1. RowsRun /\ RowsStart /\ CallsKept /\ NoEarlyKeep
      BY <2>3, TerminalizeIsTidy DEF Terminal
    <3> QED  BY <2>1, <3>1 DEF Tidy
  <2>4. ASSUME NEW bump \in {0, 1}, Recover(t, bump), turn[t].status \in Live,
               bump = 0 => turn[t].status = "pending"
        PROVE  Tidy
    <3>1. /\ turn'[t].status \in {"pending", "waiting"}
          /\ turn'[t].generation = turn[t].generation + bump
          /\ turn[t].status # "none" /\ turn[t].generation \in Nat
          /\ \A r \in Submission \ {t} : turn'[r] = turn[r]
      BY <1>0, <2>4 DEF Recover, TurnRow, Live
    <3>2. RowsRun
      BY <3>1 DEF RowsRun
    <3>3. RowsStart
      BY <2>4, <3>1 DEF RowsStart, SameStart
    <3>4. CallsKept /\ NoEarlyKeep
      BY <2>4 DEF Recover, CallsKept, NoEarlyKeep
    <3> QED  BY <2>1, <3>2, <3>3, <3>4 DEF Tidy
  <2> QED  BY <1>2, <2>2, <2>3, <2>4 DEF ExpirePending, ExpireRunning, Live
<1> QED  BY <1>1, <1>2 DEF MonitorStep

(* A delivery consumes the message and makes the worker the owner at once. *)
LEMMA DeliverKeepsEInv ==
  ASSUME ConstantsOK, IInv, EInv, NEW w \in Worker, NEW t \in Submission, Deliver(w, t)
  PROVE  EInv'
<1>0. /\ turn \in [Submission -> TurnRow] /\ worker \in [Worker -> Pass]
      /\ \A c \in inflight : c.turn \in Submission
  BY DEF IInv, TypeOK, Call
<1>1. /\ faults' = faults /\ inflight' = inflight /\ broker' = broker \ {t}
      /\ worker[w].turn = None /\ t # None
  BY DEF Deliver, Idle, ConstantsOK
<1>2. CASE turn[t].status # "pending" /\ UNCHANGED <<turn, worker>>
  <2>1. PassesRun /\ MessagesKept
    BY <1>1, <1>2 DEF PassesRun, MessagesKept
  <2> QED  BY <1>1, <1>2, <2>1, QuietIsTidy, TidyKeepsEInv DEF IInv
<1>3. CASE /\ turn[t].status = "pending"
           /\ turn' = [turn EXCEPT ![t].status = "running", ![t].reason = "none", ![t].owner = w]
           /\ worker' = [worker EXCEPT ![w] =
                            [turn |-> t, generation |-> turn[t].generation, cancelling |-> FALSE]]
  <2>1. /\ turn'[t].status = "running" /\ turn'[t].owner = w
        /\ turn'[t].generation = turn[t].generation
        /\ \A r \in Submission \ {t} : turn'[r] = turn[r]
    BY <1>0, <1>3 DEF TurnRow
  <2>2. /\ worker'[w].turn = t /\ worker'[w].generation = turn'[t].generation
        /\ \A v \in Worker \ {w} : worker'[v] = worker[v]
    BY <1>0, <1>3, <2>1
  <2>3. StartedOnce'
    BY <1>3, <2>1 DEF EInv, StartedOnce
  <2>4. KeepsLater'
    BY <1>0, <1>1, <2>1 DEF EInv, KeepsLater
  <2>5. RunIsOwned'
    BY <1>1, <2>1, <2>2 DEF EInv, RunIsOwned
  <2>6. FreshTurnIsDispatched'
    BY <1>1, <2>1 DEF EInv, FreshTurnIsDispatched
  <2> QED  BY <2>3, <2>4, <2>5, <2>6 DEF EInv
<1> QED  BY <1>2, <1>3 DEF Deliver

(* After a fault nothing is claimed of executors; the rest stands.         *)
LEMMA FaultKeepsEInv ==
  ASSUME IInv, EInv, FaultStep
  PROVE  EInv'
<1>1. turn' = turn /\ inflight' \subseteq inflight /\ faults' = faults + 1 /\ faults \in Nat
  BY DEF FaultStep, CrashWorker, RepeatMessage, LoseCall, LoseMessage, Fault, IInv, TypeOK
<1>2. StartedOnce' /\ KeepsLater'
  BY <1>1 DEF EInv, StartedOnce, KeepsLater
<1>3. RunIsOwned' /\ FreshTurnIsDispatched'
  BY <1>1 DEF RunIsOwned, FreshTurnIsDispatched
<1> QED  BY <1>2, <1>3 DEF EInv

(* The executor invariants hold of every behaviour.                        *)
LEMMA EInvHolds == Spec => []EInv
<1>1. Init => EInv
  <2> SUFFICES ASSUME Init
               PROVE  EInv
    OBVIOUS
  <2> QED  BY DEF Init, EInv, StartedOnce, KeepsLater, RunIsOwned, FreshTurnIsDispatched, NoTurn
<1>2. ASSUME IInv, EInv, [Next]_vars
      PROVE  EInv'
  <2>1. CASE UNCHANGED vars
    BY <1>2, <2>1 DEF vars, EInv, StartedOnce, KeepsLater, RunIsOwned, FreshTurnIsDispatched
  <2>2. CASE Tidy
    BY <1>2, <2>2, ConstantsOK, TidyKeepsEInv DEF IInv
  <2>3. CASE WorkerStep
    <3>1. CASE \E w \in Worker, t \in Submission : Deliver(w, t)
      BY <1>2, <3>1, ConstantsOK, DeliverKeepsEInv
    <3> QED  BY <1>2, <2>2, <2>3, <3>1, ConstantsOK, WorkerIsTidy
  <2> QED
    BY <1>2, <2>1, <2>2, <2>3, ConstantsOK, UserIsTidy, CallIsTidy, MonitorIsTidy,
       FaultKeepsEInv DEF EInv, Next
<1> QED  BY <1>1, <1>2, IInvAlways, PTL DEF Spec

(* Without a fault, a run nobody interrupted is being executed: no cancel, *)
(* expiry, recovery or settlement orphans it.                              *)
THEOREM RunsAreExecuted == Spec => []UninterruptedRunHasExecutor
<1>1. EInv => UninterruptedRunHasExecutor
  BY DEF EInv, RunIsOwned, UninterruptedRunHasExecutor, HasExecutor
<1> QED  BY <1>1, EInvHolds, PTL

(* Without a fault, no path forgets to dispatch the turn it created.       *)
THEOREM FreshTurnsAreSent == Spec => []FreshTurnIsDispatched
<1>1. EInv => FreshTurnIsDispatched
  BY DEF EInv
<1> QED  BY <1>1, EInvHolds, PTL

-----------------------------------------------------------------------------
(* The life of a turn, as the executor of its calls sees it.               *)

(* What a step may make of one turn.                                       *)
LifeMove(old, new) ==
  \/ new = old
  \/ /\ old.status = "pending"
     /\ new = Lives!Row("running", old.generation, old.cancel, old.interrupted)
  \/ /\ old.status = "running"
     /\ new = Lives!Row("waiting", old.generation, old.cancel, old.interrupted)
  \/ /\ old.status = "waiting"
     /\ new = Lives!Row("pending", old.generation + 1, FALSE, old.interrupted)
  \/ /\ ~old.interrupted
     /\ \E status \in {"pending", "waiting"} :
          \/ /\ old.status = "running"
             /\ new = Lives!Row(status, old.generation + 1, old.cancel, FALSE)
          \/ /\ old.status = "pending"
             /\ new = Lives!Row(status, old.generation, old.cancel, FALSE)
  \/ /\ old.status # "over"
     /\ new = Lives!Row(old.status, old.generation, TRUE, old.interrupted)
  \/ /\ old.status # "over" /\ ~old.interrupted
     /\ new = Lives!Row(old.status, old.generation + 1, TRUE, TRUE)
  \/ old.status # "over" /\ new = Lives!Over

(* t moves, and no other turn.                                             *)
LifeMoves(t) ==
  /\ LifeMove(LifeOf(turn[t]), LifeOf(turn'[t]))
  /\ \A s \in Submission \ {t} : LifeOf(turn'[s]) = LifeOf(turn[s])

LifeHidden == \A s \in Submission : LifeOf(turn'[s]) = LifeOf(turn[s])

(* These are the steps of the specification of a turn's life.              *)
LEMMA LifeMovesAreSteps ==
  ASSUME NEW t \in Submission, LifeMoves(t)
  PROVE  [Lives!LifeNext]_(Lives!lifeVars)
<1> DEFINE view == [s \in Submission |-> LifeOf(turn[s])]
           new == LifeOf(turn'[t])
<1>1. view' = [view EXCEPT ![t] = new]
  BY DEF LifeMoves
<1>2. view[t] = LifeOf(turn[t])
  OBVIOUS
<1>3. LifeMove(view[t], new)
  BY <1>2 DEF LifeMoves
<1>4. new = view[t] => view' = view
  BY <1>1
<1>5. [Lives!LifeNext]_(Lives!lifeVars) <=> [\E s \in Submission : Lives!LifeStep(s)]_<<view>>
  BY DEF Lives!LifeNext, Lives!lifeVars
<1>6. Lives!LifeStep(t) <=>
        \/ view[t].status = "pending"
           /\ view' = [view EXCEPT ![t] = Lives!Row("running", view[t].generation,
                                            view[t].cancel, view[t].interrupted)]
        \/ view[t].status = "running"
           /\ view' = [view EXCEPT ![t] = Lives!Row("waiting", view[t].generation,
                                            view[t].cancel, view[t].interrupted)]
        \/ view[t].status = "waiting"
           /\ view' = [view EXCEPT ![t] = Lives!Row("pending", view[t].generation + 1,
                                            FALSE, view[t].interrupted)]
        \/ ~view[t].interrupted
           /\ \E status \in {"pending", "waiting"} :
                \/ view[t].status = "running"
                   /\ view' = [view EXCEPT ![t] = Lives!Row(status,
                                 view[t].generation + 1, view[t].cancel, FALSE)]
                \/ view[t].status = "pending"
                   /\ view' = [view EXCEPT ![t] = Lives!Row(status,
                                 view[t].generation, view[t].cancel, FALSE)]
        \/ view[t].status # "over"
           /\ view' = [view EXCEPT ![t] = Lives!Row(view[t].status, view[t].generation,
                                            TRUE, view[t].interrupted)]
        \/ view[t].status # "over" /\ ~view[t].interrupted
           /\ view' = [view EXCEPT ![t] = Lives!Row(view[t].status,
                                            view[t].generation + 1, TRUE, TRUE)]
        \/ view[t].status # "over" /\ view' = [view EXCEPT ![t] = Lives!Over]
  BY DEF Lives!LifeStep, Lives!ClaimLife, Lives!Suspend, Lives!Resumption, Lives!Recovery,
         Lives!CancelRequest, Lives!InterruptRequest, Lives!Ending, Lives!Becomes
<1> HIDE DEF view, new
<1> QED  BY <1>1, <1>3, <1>4, <1>5, <1>6 DEF LifeMove

(* and a hidden step is none.                                              *)
LEMMA LifeHiddenIsStutter ==
  ASSUME LifeHidden
  PROVE  [Lives!LifeNext]_(Lives!lifeVars)
BY DEF LifeHidden, Lives!lifeVars

(* The fields of a view.                                                   *)
LEMMA RowFields ==
  ASSUME NEW s, NEW g, NEW c, NEW i
  PROVE  /\ Lives!Row(s, g, c, i).status = s /\ Lives!Row(s, g, c, i).generation = g
         /\ Lives!Row(s, g, c, i).cancel = c /\ Lives!Row(s, g, c, i).interrupted = i
BY DEF Lives!Row

(* The views of the rows.                                                  *)
LEMMA LifeViews ==
  ASSUME NEW row \in TurnRow
  PROVE  /\ row.status \in Terminal => LifeOf(row) = Lives!Over
         /\ row.status = "none" => LifeOf(row) = LifeOf(NewTurn)
         /\ row.status \in Live =>
              /\ LifeOf(row).status # "over"
              /\ LifeOf(row) = Lives!Row(row.status, row.generation, row.cancel,
                                         row.target # None)
<1>1. row.status \in Terminal => LifeOf(row) = Lives!Over
  BY DEF LifeOf, Terminal, Live, Lives!Over, Lives!Row
<1>2. row.status = "none" => LifeOf(row) = LifeOf(NewTurn)
  BY DEF LifeOf, Terminal, Live, NewTurn, NoTurn
<1>3. row.status \in Live =>
        LifeOf(row) = Lives!Row(row.status, row.generation, row.cancel, row.target # None)
  BY DEF LifeOf, Terminal, Live, Lives!Row
<1>4. row.status \in Live => LifeOf(row).status # "over"
  <2>1. PICK u \in BOOLEAN : u = (row.target # None)
    OBVIOUS
  <2>2. row.status \in Live =>
          LifeOf(row) = Lives!Row(row.status, row.generation, row.cancel, u)
    BY <1>3, <2>1
  <2> QED  BY <2>2, RowFields DEF Live
<1> QED  BY <1>1, <1>2, <1>3, <1>4

(* A turn is only created where there was none: nobody sees it begin.      *)
LEMMA OfferIsHidden ==
  ASSUME NEW candidates \in SUBSET Submission, NEW rows, NEW turns, NEW calls, NEW kind,
         turns \in [Submission -> TurnRow],
         \A s \in candidates : turns[s].status = "none",
         Claim(candidates, rows, turns, calls, kind)
  PROVE  \A s \in Submission : LifeOf(turn'[s]) = LifeOf(turns[s])
<1>1. ASSUME NEW s \in candidates, AdmitRow(s, rows, turns, calls, kind),
             NEW r \in Submission
      PROVE  LifeOf(turn'[r]) = LifeOf(turns[r])
  <2>1. turn' = [turns EXCEPT ![s] = NewTurn]
    BY <1>1 DEF AdmitRow
  <2>2. CASE r = s
    <3>1. turn'[r] = NewTurn /\ turns[r] \in TurnRow /\ turns[r].status = "none"
      BY <2>1, <2>2
    <3> QED  BY <3>1, LifeViews
  <2>3. CASE r # s
    BY <2>1, <2>3
  <2> QED  BY <2>2, <2>3
<1>2. \/ \E s \in candidates : AdmitRow(s, rows, turns, calls, kind)
      \/ turn' = turns
  BY DEF Claim, RejectRow
<1> QED  BY <1>1, <1>2

(* A retained row, in particular a successor, has no turn.                 *)
LEMMA CandidatesHaveNoTurn ==
  ASSUME IInv, NEW t \in Submission
  PROVE  /\ Successor(t) \in SUBSET Submission
         /\ \A s \in Successor(t) : turn[s].status = "none"
<1>1. Successor(t) \subseteq Retained(sub)
  BY DEF Successor, Selected, NextInLine, Retained
<1> QED  BY <1>1, RetainedFacts, RetainedHasNoTurn DEF IInv

(* Whoever closes a live turn ends its life, and hides what comes next.    *)
LEMMA TerminalizeEndsLife ==
  ASSUME ConstantsOK, IInv, NEW t \in Submission, NEW final \in Terminal, NEW calls,
         turn[t].status \in Live, Terminalize(t, final, calls)
  PROVE  LifeMoves(t)
<1>0. turn \in [Submission -> TurnRow]
  BY DEF IInv, TypeOK
<1> DEFINE turns == ClosedTurns(t, final)
<1>1. turns \in [Submission -> TurnRow]
  BY <1>0, ClosedType DEF ClosedTurns
<1>2. /\ turns[t].status = final
      /\ \A r \in Submission \ {t} : turns[r] = turn[r]
  BY <1>0, ClosedType DEF ClosedTurns
<1>3. Claim(Successor(t), sub, turns, calls, "handoff")
  BY DEF Terminalize, ClosedTurns, IInv, SingleLiveTurn
<1> HIDE DEF turns
<1>4. \A s \in Successor(t) : turns[s].status = "none"
  BY <1>2, CandidatesHaveNoTurn DEF Live
<1>5. \A s \in Submission : LifeOf(turn'[s]) = LifeOf(turns[s])
  BY <1>1, <1>3, <1>4, CandidatesHaveNoTurn, OfferIsHidden
<1>6. LifeOf(turn'[t]) = Lives!Over
  BY <1>1, <1>2, <1>5, LifeViews
<1>7. LifeOf(turn[t]).status # "over"
  BY <1>0, LifeViews DEF Live
<1> QED  BY <1>2, <1>5, <1>6, <1>7 DEF LifeMoves, LifeMove

(* What a step may make of the row of a live turn that goes on.            *)
RowLives(old, new) ==
  \/ /\ old.status = "pending" /\ new.status = "running"
     /\ new.generation = old.generation
     /\ new.cancel = old.cancel /\ new.target = old.target
  \/ /\ old.status = "running" /\ new.status = "waiting"
     /\ new.generation = old.generation
     /\ new.cancel = old.cancel /\ new.target = old.target
  \/ /\ old.status = "waiting" /\ new.status = "pending"
     /\ new.generation = old.generation + 1
     /\ new.cancel = FALSE /\ new.target = old.target
  \/ /\ old.status \in {"pending", "running"} /\ new.status \in {"pending", "waiting"}
     /\ new.generation = IF old.status = "running"
                           THEN old.generation + 1 ELSE old.generation
     /\ new.cancel = old.cancel /\ old.target = None /\ new.target = None
  \/ /\ new.status = old.status
     /\ new.generation = old.generation
     /\ new.cancel = TRUE /\ new.target = old.target
  \/ /\ new.status = old.status
     /\ new.generation = old.generation + 1
     /\ new.cancel = TRUE /\ old.target = None /\ new.target # None

(* These are moves of its life.                                            *)
LEMMA RowLivesMoves ==
  ASSUME NEW old \in TurnRow, NEW new \in TurnRow,
         old.status \in Live, new.status \in Live, RowLives(old, new)
  PROVE  LifeMove(LifeOf(old), LifeOf(new))
<1>1. PICK u \in BOOLEAN : u = (old.target # None)
  OBVIOUS
<1>2. PICK v \in BOOLEAN : v = (new.target # None)
  OBVIOUS
<1> DEFINE x == LifeOf(old)
           y == LifeOf(new)
<1>3. /\ x = Lives!Row(old.status, old.generation, old.cancel, u)
      /\ y = Lives!Row(new.status, new.generation, new.cancel, v)
  BY <1>1, <1>2, LifeViews
<1> HIDE DEF x, y
<1>4. /\ x.status = old.status /\ x.generation = old.generation
      /\ x.cancel = old.cancel /\ x.interrupted = u
  BY <1>3, RowFields
<1>5. old.target = new.target => u = v
  BY <1>1, <1>2
<1>6. (old.target = None => u = FALSE) /\ (new.target # None => v = TRUE)
  BY <1>1, <1>2
<1>7. old.status # "over"
  BY DEF Live
<1>8. LifeMove(x, y)
  <2>1. CASE /\ old.status = "pending" /\ new.status = "running"
             /\ new.generation = old.generation
             /\ new.cancel = old.cancel /\ new.target = old.target
    BY <1>3, <1>4, <1>5, <2>1, Zenon DEF LifeMove
  <2>2. CASE /\ old.status = "running" /\ new.status = "waiting"
             /\ new.generation = old.generation
             /\ new.cancel = old.cancel /\ new.target = old.target
    BY <1>3, <1>4, <1>5, <2>2, Zenon DEF LifeMove
  <2>3. CASE /\ old.status = "waiting" /\ new.status = "pending"
             /\ new.generation = old.generation + 1
             /\ new.cancel = FALSE /\ new.target = old.target
    BY <1>3, <1>4, <1>5, <2>3, Zenon DEF LifeMove
  <2>4. CASE /\ old.status \in {"pending", "running"}
             /\ new.status \in {"pending", "waiting"}
             /\ new.generation = IF old.status = "running"
                                   THEN old.generation + 1 ELSE old.generation
             /\ new.cancel = old.cancel /\ old.target = None /\ new.target = None
    <3>1. u = FALSE /\ v = FALSE
      BY <1>5, <1>6, <2>4
    <3>2. CASE old.status = "running"
      <4>1. y = Lives!Row(new.status, x.generation + 1, x.cancel, FALSE)
        BY <1>3, <1>4, <2>4, <3>1, <3>2
      <4> QED  BY <1>4, <2>4, <3>1, <3>2, <4>1 DEF LifeMove
    <3>3. CASE old.status = "pending"
      <4>1. y = Lives!Row(new.status, x.generation, x.cancel, FALSE)
        BY <1>3, <1>4, <2>4, <3>1, <3>3
      <4> QED  BY <1>4, <2>4, <3>1, <3>3, <4>1 DEF LifeMove
    <3> QED  BY <2>4, <3>2, <3>3
  <2>5. CASE /\ new.status = old.status
             /\ new.generation = old.generation
             /\ new.cancel = TRUE /\ new.target = old.target
    BY <1>3, <1>4, <1>5, <1>7, <2>5, Zenon DEF LifeMove
  <2>6. CASE /\ new.status = old.status
             /\ new.generation = old.generation + 1
             /\ new.cancel = TRUE /\ old.target = None /\ new.target # None
    BY <1>3, <1>4, <1>6, <1>7, <2>6, Zenon DEF LifeMove
  <2> QED  BY <2>1, <2>2, <2>3, <2>4, <2>5, <2>6 DEF RowLives
<1> QED  BY <1>8 DEF x, y

(* A step that rewrites one live row moves its life.                       *)
LEMMA RowMovesLife ==
  ASSUME TypeOK, TypeOK', NEW t \in Submission,
         turn[t].status \in Live, turn'[t].status \in Live,
         \A s \in Submission \ {t} : turn'[s] = turn[s],
         RowLives(turn[t], turn'[t])
  PROVE  LifeMoves(t)
<1>1. turn[t] \in TurnRow /\ turn'[t] \in TurnRow
  BY DEF TypeOK
<1> QED  BY <1>1, RowLivesMoves DEF LifeMoves

(* The first half of a cancel flags a live turn, and only that.            *)
LEMMA FlagLives ==
  ASSUME TypeOK, TypeOK', NEW t \in Submission, NEW calls, FlagCancel(t, calls)
  PROVE  LifeHidden \/ LifeMoves(t)
<1>1. turn \in [Submission -> TurnRow] /\ \A s \in Submission \ {t} : turn'[s] = turn[s]
  BY DEF TypeOK, FlagCancel
<1>2. CASE turn[t].status \in Live
  <2>1. /\ turn'[t].status = turn[t].status /\ turn'[t].cancel = TRUE
        /\ turn'[t].target = turn[t].target
        /\ turn'[t].generation = turn[t].generation
    BY <1>1, <1>2 DEF FlagCancel, TurnRow
  <2> QED  BY <1>1, <1>2, <2>1, RowMovesLife DEF RowLives
<1>3. CASE turn[t].status \notin Live
  <2>1. turn' = turn
    BY <1>1, <1>3 DEF FlagCancel, TypeOK, TurnRow
  <2> QED  BY <2>1 DEF LifeHidden
<1> QED  BY <1>2, <1>3

(* A waiting turn is resumed under a new generation.                       *)
LEMMA ResumeLives ==
  ASSUME TypeOK, TypeOK', NEW t \in Submission, NEW reason, NEW kind,
         Resume(t, reason, kind)
  PROVE  LifeMoves(t)
<1>1. turn \in [Submission -> TurnRow] /\ \A s \in Submission \ {t} : turn'[s] = turn[s]
  BY DEF TypeOK, Resume
<1>2. /\ turn[t].status = "waiting" /\ turn'[t].status = "pending"
      /\ turn'[t].cancel = FALSE /\ turn'[t].target = turn[t].target
      /\ turn'[t].generation = turn[t].generation + 1
  BY <1>1 DEF Resume, TurnRow
<1> QED  BY <1>1, <1>2, RowMovesLife DEF RowLives, Live

(* An interrupt happens once to a turn.                                    *)
LEMMA InterruptLives ==
  ASSUME ConstantsOK, TypeOK, TypeOK', NEW t \in Submission, NEW s \in Submission,
         Interrupt(t, s)
  PROVE  LifeMoves(t)
<1>1. turn \in [Submission -> TurnRow]
      /\ \A r \in Submission \ {t} : turn'[r] = turn[r]
  BY DEF TypeOK, Interrupt
<1>2. /\ turn[t].status \in Live /\ turn[t].target = None
      /\ turn'[t].status = turn[t].status /\ turn'[t].cancel = TRUE
      /\ turn'[t].target = s
      /\ turn'[t].generation = turn[t].generation + 1
  BY <1>1 DEF Interrupt, TurnRow
<1>3. s # None
  BY ConstantsOK
<1> QED  BY <1>1, <1>2, <1>3, RowMovesLife DEF RowLives

(* The user's commands.                                                    *)
LEMMA UserLives ==
  ASSUME ConstantsOK, IInv, TypeOK', NEW s \in Submission,
         \/ Admit(s) \/ UpdatePending(s) \/ Retry(s) \/ Withdraw(s)
         \/ CancelByUser(s) \/ ResolveInteraction(s) \/ RepeatInterrupt(s)
         \/ \E t \in Submission : Interrupt(t, s)
  PROVE  LifeHidden \/ \E t \in Submission : LifeMoves(t)
<1>0. sub \in [Submission -> SubmissionRow] /\ turn \in [Submission -> TurnRow]
  BY DEF IInv, TypeOK
<1>1. CASE turn' = turn
  BY <1>1 DEF LifeHidden
<1>2. ASSUME NEW candidates \in SUBSET Submission, NEW rows, NEW kind,
             \A r \in candidates : turn[r].status = "none",
             Claim(candidates, rows, turn, inflight, kind)
      PROVE  LifeHidden
  BY <1>0, <1>2, OfferIsHidden DEF LifeHidden
<1>3. CASE Admit(s)
  <2>1. turn[s].status = "none"
    BY <1>3 DEF Admit, IInv, ClaimsHaveTurns
  <2> QED  BY <1>1, <1>2, <1>3, <2>1 DEF Admit
<1>4. CASE Retry(s)
  <2>1. turn[s].status = "none"
    BY <1>4, RetainedHasNoTurn DEF Retry, Retryable, IInv
  <2> QED  BY <1>1, <1>2, <1>4, <2>1 DEF Retry
<1>5. CASE Withdraw(s)
  <2> DEFINE rows == WithdrawnRows(s)
  <2>1. CASE turn' = turn
    BY <1>1, <2>1
  <2>2. CASE Claim(NextInLine(sub), rows, turn, inflight, "ingress")
    <3>1. \A r \in NextInLine(sub) : r \in Submission /\ sub[r].status = "pending"
      BY DEF NextInLine, Pending
    <3>2. \A r \in NextInLine(sub) : turn[r].status = "none"
      BY <3>1 DEF IInv, ClaimsHaveTurns
    <3>3. NextInLine(sub) \in SUBSET Submission
      BY <3>1
    <3> HIDE DEF rows
    <3> QED  BY <1>2, <2>2, <3>2, <3>3
  <2> QED  BY <1>5, <2>1, <2>2 DEF Withdraw, WithdrawnRows
<1>6. CASE CancelByUser(s)
  BY <1>0, <1>6, FlagLives DEF CancelByUser, IInv
<1>7. CASE ResolveInteraction(s)
  BY <1>7, ResumeLives DEF ResolveInteraction, IInv
<1>8. ASSUME NEW t \in Submission, Interrupt(t, s)
      PROVE  LifeMoves(t)
  BY <1>8, InterruptLives DEF IInv
<1> QED  BY <1>1, <1>3, <1>4, <1>5, <1>6, <1>7, <1>8
         DEF UpdatePending, RepeatInterrupt

(* The calls of a handler after its commit.                                *)
LEMMA CallLives ==
  ASSUME ConstantsOK, IInv, TypeOK', NEW c \in inflight,
         \/ DispatchSucceeds(c) \/ DispatchFails(c) \/ CloseUnsent(c)
         \/ ContinueInterrupt(c) \/ SettleCancel(c)
  PROVE  LifeHidden \/ \E t \in Submission : LifeMoves(t)
<1>0. turn \in [Submission -> TurnRow] /\ c.turn \in Submission
  BY CallsAreTyped DEF IInv, TypeOK
<1>1. CASE turn' = turn
  BY <1>1 DEF LifeHidden
<1>2. CASE ContinueInterrupt(c)
  BY <1>0, <1>2, FlagLives DEF ContinueInterrupt, IInv
<1>3. ASSUME NEW final \in Terminal, turn[c.turn].status \in Live,
             Terminalize(c.turn, final, inflight \ {c})
      PROVE  LifeMoves(c.turn)
  BY <1>0, <1>3, TerminalizeEndsLife
<1>4. CASE SettleCancel(c)
  BY <1>0, <1>1, <1>3, <1>4 DEF SettleCancel, Live, Terminal
<1>5. CASE DispatchFails(c)
  BY <1>0, <1>1, <1>3, <1>5 DEF DispatchFails, Live, Terminal
<1>6. CASE CloseUnsent(c)
  <2>1. /\ \A s \in Submission \ {c.turn} : turn'[s] = turn[s]
        /\ turn'[c.turn].status = "failed"
    BY <1>0, <1>6 DEF CloseUnsent, FailWithoutHandoff, TurnRow
  <2>2. turn[c.turn] \in TurnRow /\ turn'[c.turn] \in TurnRow
    BY <1>0 DEF TypeOK
  <2>3. LifeOf(turn'[c.turn]) = Lives!Over
    BY <2>1, <2>2, LifeViews DEF Terminal
  <2>4. CASE turn[c.turn].status \in Live
    <3>1. LifeOf(turn[c.turn]).status # "over"
      BY <2>2, <2>4, LifeViews
    <3> QED  BY <1>0, <2>1, <2>3, <3>1 DEF LifeMoves, LifeMove
  <2>5. CASE turn[c.turn].status \notin Live
    <3>1. turn[c.turn].status \in Terminal
      BY <1>6, <2>2, <2>5 DEF CloseUnsent, IInv, CallsFit, TurnRow
    <3>2. LifeOf(turn[c.turn]) = Lives!Over
      BY <2>2, <3>1, LifeViews
    <3> QED  BY <2>1, <2>3, <3>2 DEF LifeHidden
  <2> QED  BY <2>4, <2>5
<1> QED  BY <1>1, <1>2, <1>4, <1>5, <1>6 DEF DispatchSucceeds

(* What the monitor recovers keeps its flags, and a lost pass its turn's   *)
(* generation no longer.                                                   *)
LEMMA RecoverLives ==
  ASSUME TypeOK, TypeOK', NEW t \in Submission, NEW bump \in {0, 1},
         turn[t].status \in {"pending", "running"}, turn[t].target = None,
         bump = 1 <=> turn[t].status = "running", Recover(t, bump)
  PROVE  LifeMoves(t)
<1>1. turn \in [Submission -> TurnRow] /\ \A s \in Submission \ {t} : turn'[s] = turn[s]
  BY DEF TypeOK, Recover
<1>2. /\ turn'[t].status \in {"pending", "waiting"}
      /\ turn'[t].cancel = turn[t].cancel /\ turn'[t].target = turn[t].target
      /\ turn'[t].generation = turn[t].generation + bump
  BY <1>1 DEF Recover, TurnRow
<1>3. turn[t].generation \in Nat
  BY <1>1 DEF TurnRow
<1>4. turn'[t].generation = IF turn[t].status = "running"
                              THEN turn[t].generation + 1 ELSE turn[t].generation
  BY <1>2, <1>3
<1> QED  BY <1>1, <1>2, <1>4, RowMovesLife DEF RowLives, Live

(* Workers, the monitor and the faults.                                    *)
LEMMA OtherLives ==
  ASSUME ConstantsOK, IInv, TypeOK', WorkerStep \/ MonitorStep \/ FaultStep
  PROVE  LifeHidden \/ \E t \in Submission : LifeMoves(t)
<1>0. TypeOK /\ turn \in [Submission -> TurnRow]
  BY DEF IInv, TypeOK
<1>1. CASE turn' = turn
  BY <1>1 DEF LifeHidden
<1>2. ASSUME NEW w \in Worker, NEW t \in Submission, Deliver(w, t)
      PROVE  LifeHidden \/ LifeMoves(t)
  <2>1. CASE turn[t].status = "pending"
    <3>1. \A s \in Submission \ {t} : turn'[s] = turn[s]
      BY <1>0, <1>2, <2>1 DEF Deliver
    <3>2. /\ turn'[t].status = "running" /\ turn'[t].generation = turn[t].generation
          /\ turn'[t].cancel = turn[t].cancel /\ turn'[t].target = turn[t].target
      BY <1>0, <1>2, <2>1 DEF Deliver, TurnRow
    <3> QED  BY <1>0, <2>1, <3>1, <3>2, RowMovesLife DEF RowLives, Live
  <2>2. CASE turn[t].status # "pending"
    <3>1. UNCHANGED <<turn, worker>>
      BY <1>2, <2>2, Zenon DEF Deliver
    <3>2. turn' = turn
      BY <3>1
    <3> QED  BY <3>2 DEF LifeHidden
  <2> QED  BY <2>1, <2>2
<1>3. ASSUME NEW w \in Worker, FinishPass(w)
      PROVE  LifeHidden \/ \E t \in Submission : LifeMoves(t)
  <2>1. CASE Owns(w) /\ \E final \in Outcome : Terminalize(worker[w].turn, final, inflight)
    <3>1. PICK final \in Terminal : Terminalize(worker[w].turn, final, inflight)
      BY <2>1 DEF Outcome
    <3>2. worker[w].turn \in Submission /\ turn[worker[w].turn].status \in Live
      BY <2>1 DEF Owns, Live, IInv, TypeOK, Pass
    <3> QED  BY <3>1, <3>2, TerminalizeEndsLife
  <2> QED  BY <1>1, <1>3, <2>1 DEF FinishPass
<1>4. ASSUME NEW w \in Worker, NEW reason \in WaitReason, WaitPass(w, reason)
      PROVE  \E t \in Submission : LifeMoves(t)
  <2> DEFINE t == worker[w].turn
  <2>1. t \in Submission /\ turn[t].status = "running"
    BY <1>4 DEF WaitPass, Owns, IInv, TypeOK, Pass
  <2>2. \A s \in Submission \ {t} : turn'[s] = turn[s]
    BY <1>0, <1>4, <2>1 DEF WaitPass
  <2>3. /\ turn'[t].status = "waiting" /\ turn'[t].generation = turn[t].generation
        /\ turn'[t].cancel = turn[t].cancel /\ turn'[t].target = turn[t].target
    BY <1>0, <1>4, <2>1 DEF WaitPass, TurnRow
  <2>4. PICK s \in Submission : s = t
    BY <2>1
  <2> HIDE DEF t
  <2>5. LifeMoves(s)
    BY <1>0, <2>1, <2>2, <2>3, <2>4, RowMovesLife DEF RowLives, Live
  <2> QED  BY <2>5
<1>5. ASSUME NEW t \in Submission, AttachmentsReady(t)
      PROVE  LifeMoves(t)
  BY <1>0, <1>5, ResumeLives DEF AttachmentsReady
<1>6. ASSUME NEW t \in Submission, ExpirePending(t) \/ ExpireRunning(t)
      PROVE  LifeHidden \/ LifeMoves(t)
  <2>1. CASE turn[t].status \in Live /\ Terminalize(t, "failed", inflight)
    BY <2>1, TerminalizeEndsLife DEF Terminal
  <2>2. CASE turn[t].status = "pending" /\ Recoverable(t) /\ Recover(t, 0)
    BY <1>0, <2>2, RecoverLives DEF Recoverable
  <2>3. CASE turn[t].status = "running" /\ Recoverable(t) /\ Recover(t, 1)
    BY <1>0, <2>3, RecoverLives DEF Recoverable
  <2>4. CASE UNCHANGED <<sub, turn, active>>
    <3>1. turn' = turn
      BY <2>4
    <3> QED  BY <3>1 DEF LifeHidden
  <2> QED  BY <1>6, <2>1, <2>2, <2>3, <2>4 DEF ExpirePending, ExpireRunning, Live
<1>7. CASE FaultStep
  BY <1>1, <1>7 DEF FaultStep, CrashWorker, RepeatMessage, LoseCall, LoseMessage
<1> QED
  BY <1>1, <1>2, <1>3, <1>4, <1>5, <1>6, <1>7 DEF WorkerStep, MonitorStep, StopPass

(* Every step of the queue moves the life of one turn, or of none.         *)
LEMMA StepLives ==
  ASSUME ConstantsOK, IInv, [Next]_vars
  PROVE  LifeHidden \/ \E t \in Submission : LifeMoves(t)
<1>1. TypeOK'
  BY StepIsSafe DEF SafeStep, IInv
<1>2. CASE UNCHANGED vars
  BY <1>2 DEF vars, LifeHidden
<1>3. CASE UserStep
  BY <1>1, <1>3, UserLives DEF UserStep
<1>4. CASE CallStep
  BY <1>1, <1>4, CallLives DEF CallStep
<1> QED  BY <1>1, <1>2, <1>3, <1>4, OtherLives DEF Next

(* The queue does to a turn only what the executor of its calls expects.   *)
THEOREM QueueImplementsLife == Spec => ImplementsLife
<1>1. ASSUME Init
      PROVE  Lives!LifeInit
  <2>1. LifeOf(NoTurn) = Lives!Unclaimed
    BY DEF LifeOf, NoTurn, Terminal, Live, Lives!Unclaimed, Lives!Row
  <2>2. \A s \in Submission : LifeOf(turn[s]) = Lives!Unclaimed
    BY <1>1, <2>1 DEF Init
  <2> QED  BY <2>2 DEF Lives!LifeInit
<1>2. ASSUME IInv, [Next]_vars
      PROVE  [Lives!LifeNext]_(Lives!lifeVars)
  BY <1>2, ConstantsOK, StepLives, LifeHiddenIsStutter, LifeMovesAreSteps
<1> QED  BY <1>1, <1>2, IInvAlways, PTL DEF Spec, ImplementsLife, Lives!LifeSpec

(* A life moves on or ends: what it has behind it, it keeps behind it.     *)
LEMMA LifeMovesOn ==
  ASSUME NEW old \in Lives!Life, NEW new, LifeMove(old, new), NEW g \in Nat,
         old.generation > g \/ (old.generation = g /\ old.status # "pending")
  PROVE  \/ new.status = "over"
         \/ new.generation > g
         \/ new.generation = g /\ new.status # "pending"
<1>1. old.generation \in Nat
  BY DEF Lives!Life
<1>2. CASE new = Lives!Over \/ new = old
  BY <1>2 DEF Lives!Over, Lives!Row
<1>3. CASE /\ old.status = "pending"
           /\ new = Lives!Row("running", old.generation, old.cancel, old.interrupted)
  BY <1>1, <1>3, RowFields
<1>4. CASE /\ old.status = "running"
           /\ new = Lives!Row("waiting", old.generation, old.cancel, old.interrupted)
  BY <1>1, <1>4, RowFields
<1>5. ASSUME NEW c, NEW i, new = Lives!Row(old.status, old.generation, c, i)
      PROVE  new.status = old.status /\ new.generation = old.generation
  BY <1>5, RowFields
<1>6. ASSUME NEW s, NEW c, NEW i, new = Lives!Row(s, old.generation + 1, c, i)
      PROVE  new.generation > g
  <2>1. new.generation = old.generation + 1
    BY <1>6, RowFields
  <2> QED  BY <1>1, <2>1
<1>7. ASSUME NEW s, old.status = "pending",
             new = Lives!Row(s, old.generation, old.cancel, FALSE)
      PROVE  new.generation > g
  <2>1. new.generation = old.generation
    BY <1>7 DEF Lives!Row
  <2> QED  BY <1>1, <1>7, <2>1
<1>8. CASE \/ new = Lives!Row("pending", old.generation + 1, FALSE, old.interrupted)
           \/ \E s \in {"pending", "waiting"} :
                new = Lives!Row(s, old.generation + 1, old.cancel, FALSE)
           \/ new = Lives!Row(old.status, old.generation + 1, TRUE, TRUE)
  BY <1>6, <1>8
<1>9. CASE new = Lives!Row(old.status, old.generation, TRUE, old.interrupted)
  BY <1>1, <1>5, <1>9
<1> QED  BY <1>2, <1>3, <1>4, <1>7, <1>8, <1>9 DEF LifeMove

(* A generation that a pass has used up is used up for good: no cancel,    *)
(* answer, recovery or late process has the queue claim it a second time.  *)
THEOREM QueueSpendsGenerations == Spec => Lives!GenerationsAreSpent
<1>1. ASSUME IInv, [Next]_vars
      PROVE  \A t \in Submission, g \in Nat : Lives!Spent(t, g) => Lives!Spent(t, g)'
  <2> SUFFICES ASSUME NEW t \in Submission, NEW g \in Nat, Lives!Spent(t, g)
               PROVE  Lives!Spent(t, g)'
    OBVIOUS
  <2> DEFINE old == LifeOf(turn[t])
             new == LifeOf(turn'[t])
  <2>1. \/ old.status = "over" \/ old.generation > g
        \/ old.generation = g /\ old.status # "pending"
    BY DEF Lives!Spent
  <2>2. (\/ new.status = "over" \/ new.generation > g
         \/ new.generation = g /\ new.status # "pending") => Lives!Spent(t, g)'
    BY DEF Lives!Spent
  <2>3. LifeMove(old, new)
    BY <1>1, ConstantsOK, StepLives DEF LifeHidden, LifeMoves, LifeMove
  <2>4. old \in Lives!Life
    <3>1. turn[t] \in TurnRow
      BY <1>1 DEF IInv, TypeOK
    <3>2. LifeOf(NewTurn) = Lives!Unclaimed
      BY DEF LifeOf, NewTurn, NoTurn, Live, Terminal, Lives!Unclaimed, Lives!Row
    <3>3. Lives!Unclaimed \in Lives!Life /\ Lives!Over \in Lives!Life
      BY DEF Lives!Unclaimed, Lives!Over, Lives!Row, Lives!Life, Lives!LifeStatus
    <3>4. CASE turn[t].status \in Live
      <4>1. PICK u \in BOOLEAN : u = (turn[t].target # None)
        OBVIOUS
      <4>2. old = Lives!Row(turn[t].status, turn[t].generation, turn[t].cancel, u)
        BY <3>1, <3>4, <4>1, LifeViews
      <4> QED
        BY <3>1, <3>4, <4>2 DEF TurnRow, Live, Lives!Row, Lives!Life, Lives!LifeStatus
    <3> QED  BY <3>1, <3>2, <3>3, <3>4, LifeViews DEF TurnRow
  <2> HIDE DEF old, new
  <2>5. CASE old.status = "over"
    BY <2>2, <2>3, <2>4, <2>5 DEF LifeMove, Lives!Over, Lives!Row
  <2>6. CASE old.status # "over"
    BY <2>1, <2>2, <2>3, <2>4, <2>6, LifeMovesOn DEF Lives!Life
  <2> QED  BY <2>5, <2>6
<1> QED  BY <1>1, IInvAlways, PTL DEF Spec, Lives!GenerationsAreSpent
=============================================================================
