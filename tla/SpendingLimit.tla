--------------------------- MODULE SpendingLimit ----------------------------
(***************************************************************************)
(* What the consumption ledger promises to an account: a call is admitted  *)
(* once, on a day whose limits leave room for all it may consume; it       *)
(* consumes no more than it is charged; and what it is charged may be      *)
(* lowered, down to what it has consumed, but never raised again.  So the  *)
(* calls of a day never cost more than the limit of that day.              *)
(* Reservations, settlements, corrections, permits, processes and turns    *)
(* are hidden: whatever becomes of them, the account sees one of these     *)
(* steps or nothing.                                                       *)
(***************************************************************************)
EXTENDS Integers, FiniteSets, Functions

CONSTANTS Calls, Days, Allowance, CallLimit, TokenLimit

VARIABLES
    day,     \* the day on which a call was admitted, 0 before
    charge,  \* what the account is charged for it
    cost     \* what it has consumed

limitVars == <<day, charge, cost>>

CallsOf(d) == {c \in Calls : day[c] = d}

LimitInit ==
    /\ day = [c \in Calls |-> 0]
    /\ charge = [c \in Calls |-> 0]
    /\ cost = [c \in Calls |-> 0]

Admit(c, d) ==
    /\ day[c] = 0
    /\ Cardinality(CallsOf(d)) < CallLimit
    /\ SumFunctionOnSet(charge, CallsOf(d)) + Allowance[c] <= TokenLimit
    /\ day' = [day EXCEPT ![c] = d]
    /\ charge' = [charge EXCEPT ![c] = Allowance[c]]
    /\ UNCHANGED cost

Consume(c) ==
    /\ day[c] # 0
    /\ UNCHANGED <<day, charge>>
    /\ \E tokens \in cost[c] + 1 .. charge[c] : cost' = [cost EXCEPT ![c] = tokens]

(* What is given back here can still be spent by a later call of the day.  *)
Lower(c) ==
    /\ day[c] # 0
    /\ UNCHANGED <<day, cost>>
    /\ \E tokens \in cost[c] .. charge[c] - 1 : charge' = [charge EXCEPT ![c] = tokens]

LimitNext == \E c \in Calls : Consume(c) \/ Lower(c) \/ \E d \in Days : Admit(c, d)

LimitSpec == LimitInit /\ [][LimitNext]_limitVars
=============================================================================
