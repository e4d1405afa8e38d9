--------------------------- MODULE MCUsageLedger ---------------------------
(* Model-checking instance of UsageLedger.                                 *)
EXTENDS UsageLedger, TLC

MCAllowance == [c \in Calls |-> IF c \in Primary THEN 2 ELSE 1]
CallSymmetry == Permutations(Primary) \cup Permutations(Calls \ Primary)
=============================================================================
