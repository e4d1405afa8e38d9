------------------------------ MODULE TurnLife ------------------------------
(***************************************************************************)
(* The life of a turn, as the queue that schedules it and the executor of  *)
(* its tool calls must agree on it: TurnQueue keeps the rows of this table *)
(* for the Conversation's queue, ToolCalls for the fences of its calls,    *)
(* and each of them implements this specification.  Who takes a step, when *)
(* and why is hidden: workers, leases, messages, questions and calls.      *)
(*                                                                         *)
(* What the two rely on is the dispatch generation.  It names one pass: a  *)
(* turn is claimed at most once in a generation, whatever cancels, answers,*)
(* interrupts, recoveries and late processes do to it.                     *)
(***************************************************************************)
EXTENDS Integers

CONSTANT Turn

VARIABLE life  \* life[t]: what the fences read of the turn t

lifeVars == <<life>>

LifeStatus == {"pending", "running", "waiting", "over"}

Life == [status : LifeStatus, generation : Nat,
         cancel : BOOLEAN, interrupted : BOOLEAN]

Row(status, generation, cancel, interrupted) ==
  [status |-> status, generation |-> generation,
   cancel |-> cancel, interrupted |-> interrupted]

(* Nobody reads the flags and the generation of a turn that is over.       *)
Over == Row("over", 0, FALSE, FALSE)

(* A turn that is still to be created looks like one that was.             *)
Unclaimed == Row("pending", 1, FALSE, FALSE)

LifeInit == life \in [Turn -> {Unclaimed, Over}]

Becomes(t, row) == life' = [life EXCEPT ![t] = row]

(* A worker takes the turn: the pass of this generation begins.            *)
ClaimLife(t) ==
  /\ life[t].status = "pending"
  /\ Becomes(t, Row("running", life[t].generation, life[t].cancel, life[t].interrupted))

(* The pass leaves the turn to its user, or to the parser of an attachment.*)
Suspend(t) ==
  /\ life[t].status = "running"
  /\ Becomes(t, Row("waiting", life[t].generation, life[t].cancel, life[t].interrupted))

(* What it waited for is there: a new generation, and no cancel any more.  *)
Resumption(t) ==
  /\ life[t].status = "waiting"
  /\ Becomes(t, Row("pending", life[t].generation + 1, FALSE, life[t].interrupted))

(* The monitor takes the turn back: from a pass that is lost, under a new  *)
(* generation, or from a queue that forgot it.                             *)
Recovery(t) ==
  /\ ~life[t].interrupted
  /\ \E status \in {"pending", "waiting"} :
       \/ /\ life[t].status = "running"
          /\ Becomes(t, Row(status, life[t].generation + 1, life[t].cancel, FALSE))
       \/ /\ life[t].status = "pending"
          /\ Becomes(t, Row(status, life[t].generation, life[t].cancel, FALSE))

CancelRequest(t) ==
  /\ life[t].status # "over"
  /\ Becomes(t, Row(life[t].status, life[t].generation, TRUE, life[t].interrupted))

(* Once in its life, and the pass under way is fenced off.                 *)
InterruptRequest(t) ==
  /\ life[t].status # "over"
  /\ ~life[t].interrupted
  /\ Becomes(t, Row(life[t].status, life[t].generation + 1, TRUE, TRUE))

Ending(t) ==
  /\ life[t].status # "over"
  /\ Becomes(t, Over)

LifeStep(t) ==
  \/ ClaimLife(t)
  \/ Suspend(t)
  \/ Resumption(t)
  \/ Recovery(t)
  \/ CancelRequest(t)
  \/ InterruptRequest(t)
  \/ Ending(t)

LifeNext == \E t \in Turn : LifeStep(t)

LifeSpec == LifeInit /\ [][LifeNext]_lifeVars

-----------------------------------------------------------------------------
(* The generation g of t was claimed, or can be no more: a later one has   *)
(* begun, or the turn is over.                                             *)
Spent(t, g) ==
  \/ life[t].status = "over"
  \/ life[t].generation > g
  \/ life[t].generation = g /\ life[t].status # "pending"

(* A generation that was spent stays spent, so no two passes have one: this*)
(* is what allows every fence to compare generations alone.                *)
GenerationsAreSpent ==
  [][\A t \in Turn, g \in Nat : Spent(t, g) => Spent(t, g)']_lifeVars
=============================================================================
