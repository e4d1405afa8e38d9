------------------------------ MODULE TurnSlot -------------------------------
(***************************************************************************)
(* What the turn queue of a Conversation promises to its user: the         *)
(* Conversation has one slot, a submission holds it from its admission to  *)
(* the end of its turn, and it gets it at most once.  Workers, leases,     *)
(* generations, messages and cancels are all hidden: whatever happens to   *)
(* them, the user sees one of these steps or nothing.                      *)
(***************************************************************************)
CONSTANTS Submission, None

VARIABLES
  slot,  \* the submission whose turn is under way, or None
  stage  \* what the user sees of each submission

slotVars == <<slot, stage>>

Stage == {"outside", "queued", "held", "admitted", "over", "withdrawn"}

Waiting == {s \in Submission : stage[s] \in {"queued", "held"}}

SlotInit ==
  /\ slot = None
  /\ stage = [s \in Submission |-> "outside"]

(* x becomes "to" and the slot is free: it is given to a waiting           *)
(* submission, or that one is rejected and shown as held, or nobody is     *)
(* offered it.                                                             *)
Offer(x, to) ==
  \/ /\ slot' = None
     /\ stage' = [stage EXCEPT ![x] = to]
  \/ \E s \in Submission :
       /\ (IF s = x THEN to ELSE stage[s]) \in {"queued", "held"}
       /\ \/ slot' = s /\ stage' = [stage EXCEPT ![x] = to, ![s] = "admitted"]
          \/ slot' = None /\ stage' = [stage EXCEPT ![x] = to, ![s] = "held"]

Enter(s) ==
  /\ stage[s] = "outside"
  /\ \/ slot = None /\ Waiting = {} /\ Offer(s, "queued")
     \/ stage' = [stage EXCEPT ![s] = "queued"] /\ UNCHANGED slot

Requeue(s) ==
  /\ s \in Waiting
  /\ stage' = [stage EXCEPT ![s] = "queued"]
  /\ UNCHANGED slot

(* The user picks a waiting submission while the slot is free.             *)
Choose(s) ==
  /\ s \in Waiting
  /\ slot = None
  /\ \/ slot' = s /\ stage' = [stage EXCEPT ![s] = "admitted"]
     \/ slot' = None /\ stage' = [stage EXCEPT ![s] = "held"]

(* A submission is withdrawn.  On a free slot its withdrawal may also be an*)
(* offer, and whoever heads the queue is chosen: it may be s itself, which *)
(* Choose(s) describes.                                                    *)
Leave(s) ==
  /\ s \in Waiting
  /\ \/ slot = None /\ Offer(s, "withdrawn")
     \/ slot # None /\ stage' = [stage EXCEPT ![s] = "withdrawn"] /\ UNCHANGED slot

(* The turn that holds the slot ends, whatever its outcome.                *)
End ==
  /\ slot # None
  /\ Offer(slot, "over")

SlotNext ==
  \/ End
  \/ \E s \in Submission : Enter(s) \/ Requeue(s) \/ Choose(s) \/ Leave(s)

SlotSpec == SlotInit /\ [][SlotNext]_slotVars
=============================================================================
