----------------------------- MODULE MCTurnQueue -----------------------------
(* Model-checking instance of TurnQueue.                                   *)
EXTENDS TurnQueue, FiniteSets, TLC

CONSTANT MaxCalls  \* bound: handlers between their commit and their next call

WorkerSymmetry == Permutations(Worker)

(* Sound where every submission has the same mode. *)
SubmissionSymmetry == Permutations(Submission)

FewCalls == Cardinality(inflight) <= MaxCalls

(* For liveness: a user who gives the next command when the handler of the *)
(* previous one has returned, and a monitor that does not sweep between the*)
(* read of a dispatch failure and its write, which ends the turn anyway.   *)
(* Everything else is as in FairSpec.                                      *)
PatientNext ==
  \/ UserStep /\ inflight = {}
  \/ MonitorStep /\ \A c \in inflight : c.kind # "fail"
  \/ CallStep \/ WorkerStep \/ FaultStep

PatientSpec == Init /\ [][PatientNext]_vars /\ Fairness
=============================================================================
