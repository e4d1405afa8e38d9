-------------------------- MODULE MCKnowledgeIndex --------------------------
(* Model-checking instance of KnowledgeIndex.                              *)
EXTENDS KnowledgeIndex, FiniteSets, TLC

MCJobs == Upserts \cup {DeleteJob}
MCTitles == 1..2

ProcessSymmetry == Permutations(Passes) \cup Permutations(Tasks)

(* Titles are numbered as they are given: none comes back.                 *)
NewTitle == doc'.title \in {doc.title, doc.title + 1}

(* With one worker, ageing matters only for a lease it no longer holds:    *)
(* nobody else is there to take over the others.                           *)
OnlyAbandonedAge ==
    \A w \in Workers : attempt'[w].job # NoJob => ~job'[attempt'[w].job].aged

OneWorkerNext ==
    \/ UserStep /\ NewTitle
    \/ DispatchStep
    \/ \E p \in Passes : PassStep(p)
    \/ \E w \in Workers : DrainStep(w)
    \/ LeaveDocument /\ OnlyAbandonedAge

OneWorkerSpec == Init /\ [][OneWorkerNext]_vars
=============================================================================
