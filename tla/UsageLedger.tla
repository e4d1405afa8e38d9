---------------------------- MODULE UsageLedger ----------------------------
(***************************************************************************)
(* The consumption ledger of one account (usage/service.py, runtime.py,    *)
(* reconciliation.py) and the model dispatches of one turn                 *)
(* (conversation/application/model_dispatch_service.py), under backend/app.*)
(*                                                                         *)
(* A metered call is admitted by a reservation that holds its allowance in *)
(* the window of the day, then sent, then settled.  Nothing spans the      *)
(* request: the process may die, the turn may end and the answer may be    *)
(* lost in between, and then the reservation is kept until an operator     *)
(* brings evidence.                                                        *)
(*                                                                         *)
(* "Tokens" stand for every quantity that a settlement replaces by what    *)
(* was observed (tokens, units of them, cost); the count of calls stands   *)
(* for those that none refunds.  The limits are constant.                  *)
(***************************************************************************)
EXTENDS Integers, FiniteSets, Functions

CONSTANTS
    Calls,
    Primary,        \* the calls that are model dispatches of the turn
    Operators,
    Allowance,      \* Allowance[c]: the tokens c may consume
    LastDay,        \* bound: days
    MaxRevision,    \* bound: an operator starts no correction beyond it
    CallLimit,
    TokenLimit,
    MaxUnresolved,
    NoCorrection

ASSUME LedgerConstants ==
    /\ IsFiniteSet(Calls)
    /\ Primary \subseteq Calls
    /\ Allowance \in [Calls -> Nat \ {0}]
    /\ LastDay \in Nat \ {0}
    /\ {MaxRevision, CallLimit, TokenLimit, MaxUnresolved} \subseteq Nat

VARIABLES
    today,
    window,      \* window[d]: the row of model_budget_windows of day d
    row,         \* row[c]: the row of model_budget_reservations of c
    dispatch,    \* dispatch[c]: status of the row of agent_model_dispatches
    turn,        \* "running"; "stopping", where the pass that makes the
                 \*   dispatches is cancelled or fenced; "ended"
    proc,        \* proc[c]: how far the process that makes the call is
    wire,        \* wire[c]: what has become of the request at the provider
    spent,       \* spent[c]: what the provider has really consumed
    correction   \* correction[o]: what operator o has seen and concluded

ledgerVars == <<window, row, dispatch>>
vars == <<today, window, row, dispatch, turn, proc, wire, spent, correction>>

Days == 1..LastDay
Unresolved == {"reserved", "unknown"}
Final == {"settled", "estimated", "rejected"}
Unmeasured == -1

Window == [admitted : Nat, used : Int, reserved : Int]

\* evidence: reconciliation_ref is set; claimed: transport_claimed_at is.
Row == [status : {"absent"} \cup Unresolved \cup Final, day : Days,
        reserved : Nat, observed : Nat, claimed : BOOLEAN,
        revision : Nat, evidence : BOOLEAN]

Correction == [call : Calls, revision : Nat, tokens : Nat]

NoRow == [status |-> "absent", day |-> 1, reserved |-> 0, observed |-> 0,
          claimed |-> FALSE, revision |-> 0, evidence |-> FALSE]

TypeOK ==
    /\ today \in Days
    /\ window \in [Days -> Window]
    /\ row \in [Calls -> Row]
    /\ dispatch \in [Primary ->
                       {"absent", "running", "completed", "failed", "unknown"}]
    /\ turn \in {"running", "stopping", "ended"}
    /\ proc \in [Calls -> {"idle", "admitted", "claimed", "sent", "done"}]
    /\ wire \in [Calls -> {"none", "request", "executed", "refused"}]
    /\ spent \in [Calls -> Nat]
    /\ correction \in [Operators -> Correction \cup {NoCorrection}]

Init ==
    /\ today = 1
    /\ window = [d \in Days |-> [admitted |-> 0, used |-> 0, reserved |-> 0]]
    /\ row = [c \in Calls |-> NoRow]
    /\ dispatch = [c \in Primary |-> "absent"]
    /\ turn = "running"
    /\ proc = [c \in Calls |-> "idle"]
    /\ wire = [c \in Calls |-> "none"]
    /\ spent = [c \in Calls |-> 0]
    /\ correction = [o \in Operators |-> NoCorrection]

-----------------------------------------------------------------------------
(* usage/service.py, each in its caller's transaction and under the        *)
(* account's lock.                                                         *)

(* The counters of the window of day d change by these amounts.            *)
Book(d, admitted, held, used) ==
    window' = [window EXCEPT ![d] = [admitted |-> @.admitted + admitted,
                                     reserved |-> @.reserved + held,
                                     used |-> @.used + used]]

(* Mutant: what is only held does not count.                               *)
MutantWithinLimits(c) ==
    /\ window[today].admitted < CallLimit
    /\ window[today].used + Allowance[c] <= TokenLimit

WithinLimits(c) ==
    /\ window[today].admitted < CallLimit
    /\ window[today].used + window[today].reserved + Allowance[c] <= TokenLimit

(* One reservation per call; too many unresolved ones, of whatever day,    *)
(* admit no other.                                                         *)
Reserve(c) ==
    /\ row[c].status = "absent"
    /\ Cardinality({x \in Calls : row[x].status \in Unresolved}) < MaxUnresolved
    /\ WithinLimits(c)
    /\ Book(today, 1, Allowance[c], 0)
    /\ row' = [row EXCEPT ![c] = [NoRow EXCEPT !.status = "reserved",
                                  !.day = today, !.reserved = Allowance[c]]]

(* Mutant: a settlement may replace any other.                             *)
MutantSettleable(c, outcome) == row[c].status # "absent"

(* A final row, and an unknown one without evidence, are left as they are. *)
Settleable(c, outcome) ==
    \/ row[c].status = "reserved"
    \/ row[c].status = "unknown" /\ outcome = "unknown"

(* Nobody knows what the provider did: the reservation stays, and grows if *)
(* more than it was seen.                                                  *)
Hold(c, tokens) ==
    LET kept == IF tokens > row[c].reserved THEN tokens ELSE row[c].reserved
        seen == IF tokens > row[c].observed THEN tokens ELSE row[c].observed
    IN /\ Book(row[c].day, 0, kept - row[c].reserved, 0)
       /\ row' = [row EXCEPT ![c].status = "unknown", ![c].reserved = kept,
                             ![c].observed = seen, ![c].revision = @ + 1]

(* Without a measurement the whole allowance counts as used.               *)
Amount(c, outcome, tokens) ==
    CASE outcome = "rejected" -> 0
      [] outcome # "rejected" /\ tokens = Unmeasured -> row[c].reserved
      [] OTHER -> tokens

Verdict(outcome, tokens) ==
    CASE outcome = "rejected" -> "rejected"
      [] outcome # "rejected" /\ tokens = Unmeasured -> "estimated"
      [] OTHER -> "settled"

(* Mutant: the settlement goes to the window of the day it happens on.     *)
MutantRelease(c, amount) == Book(today, 0, -row[c].reserved, amount)

(* What was held in the window of the admission is given back, and what    *)
(* was used is charged there.                                              *)
Release(c, amount) == Book(row[c].day, 0, -row[c].reserved, amount)

Charge(c, outcome, tokens) ==
    LET amount == Amount(c, outcome, tokens)
    IN /\ Release(c, amount)
       /\ row' = [row EXCEPT ![c].status = Verdict(outcome, tokens), ![c].observed = amount,
                             ![c].revision = @ + 1, ![c].evidence = FALSE]

SettleIdentity(c, outcome, tokens) ==
    \/ /\ ~Settleable(c, outcome)
       /\ UNCHANGED <<window, row>>
    \/ /\ Settleable(c, outcome)
       /\ outcome = "unknown"
       /\ Hold(c, tokens)
    \/ /\ Settleable(c, outcome)
       /\ outcome # "unknown"
       /\ Charge(c, outcome, tokens)

-----------------------------------------------------------------------------
(* The process that makes the call.                                        *)

(* Mutant: a call may be admitted whatever the turn is doing.              *)
MutantAdmitsCalls == TRUE

(* start_model_dispatch: the turn runs, in this generation, and nobody has *)
(* asked it to stop.                                                       *)
AdmitsCalls == turn = "running"

StartDispatch(c) ==
    /\ c \in Primary
    /\ proc[c] = "idle"
    /\ AdmitsCalls
    /\ dispatch[c] = "absent"
    /\ Reserve(c)
    /\ dispatch' = [dispatch EXCEPT ![c] = "running"]
    /\ proc' = [proc EXCEPT ![c] = "admitted"]
    /\ UNCHANGED <<today, turn, wire, spent, correction>>

(* runtime.begin, for every other meter.                                   *)
Begin(c) ==
    /\ c \notin Primary
    /\ proc[c] = "idle"
    /\ Reserve(c)
    /\ proc' = [proc EXCEPT ![c] = "admitted"]
    /\ UNCHANGED <<today, dispatch, turn, wire, spent, correction>>

(* Mutant: the permit is the row, whatever its status.                     *)
MutantClaimPrimary(c) ==
    /\ c \in Primary
    /\ proc[c] = "admitted"
    /\ ~row[c].claimed
    /\ row' = [row EXCEPT ![c].claimed = TRUE]
    /\ proc' = [proc EXCEPT ![c] = "claimed"]
    /\ UNCHANGED <<today, window, dispatch, turn, wire, spent, correction>>

(* The permit of a model dispatch is consumed once, before its request.    *)
(* Where it cannot be, the call ends in Unknown.                           *)
ClaimPrimary(c) ==
    /\ c \in Primary
    /\ proc[c] = "admitted"
    /\ row[c].status = "reserved"
    /\ ~row[c].claimed
    /\ row' = [row EXCEPT ![c].claimed = TRUE]
    /\ proc' = [proc EXCEPT ![c] = "claimed"]
    /\ UNCHANGED <<today, window, dispatch, turn, wire, spent, correction>>

Send(c) ==
    /\ proc[c] = IF c \in Primary THEN "claimed" ELSE "admitted"
    /\ proc' = [proc EXCEPT ![c] = "sent"]
    /\ wire' = [wire EXCEPT ![c] = "request"]
    /\ UNCHANGED <<today, ledgerVars, turn, spent, correction>>

(* The provider executes the request or refuses it, whether or not anybody *)
(* still waits for the answer.                                             *)
Provider(c) ==
    /\ wire[c] = "request"
    /\ \/ /\ wire' = [wire EXCEPT ![c] = "executed"]
          /\ \E tokens \in 1..Allowance[c] : spent' = [spent EXCEPT ![c] = tokens]
       \/ /\ wire' = [wire EXCEPT ![c] = "refused"]
          /\ UNCHANGED spent
    /\ UNCHANGED <<today, ledgerVars, turn, proc, correction>>

(* Mutant: the ledger's words are stored as the dispatch's.                *)
MutantDispatchStatus(outcome) == outcome

DispatchStatus(outcome) ==
    CASE outcome = "completed" -> "completed"
      [] outcome = "rejected" -> "failed"
      [] OTHER -> "unknown"

(* Mutant: finish_model_dispatch does not look at the dispatch.            *)
MutantFinish(c, outcome, tokens) ==
    /\ proc' = [proc EXCEPT ![c] = "done"]
    /\ SettleIdentity(c, outcome, tokens)
    /\ IF c \in Primary
       THEN dispatch' = [dispatch EXCEPT ![c] = DispatchStatus(outcome)]
       ELSE UNCHANGED dispatch
    /\ UNCHANGED <<today, turn, wire, spent, correction>>

(* finish_model_dispatch settles a dispatch that is still running, finish  *)
(* any other receipt.                                                      *)
Finish(c, outcome, tokens) ==
    /\ proc' = [proc EXCEPT ![c] = "done"]
    /\ \/ /\ c \in Primary
          /\ dispatch[c] = "running"
          /\ SettleIdentity(c, outcome, tokens)
          /\ dispatch' = [dispatch EXCEPT ![c] = DispatchStatus(outcome)]
       \/ /\ c \in Primary
          /\ dispatch[c] # "running"
          /\ UNCHANGED ledgerVars
       \/ /\ c \notin Primary
          /\ SettleIdentity(c, outcome, tokens)
          /\ UNCHANGED dispatch
    /\ UNCHANGED <<today, turn, wire, spent, correction>>

(* The answer arrives, with or without a usable measurement.               *)
Complete(c, tokens) ==
    /\ proc[c] = "sent"
    /\ wire[c] = "executed"
    /\ tokens \in {spent[c], Unmeasured}
    /\ Finish(c, "completed", tokens)

(* Mutant: a call that fails without an answer counts as refused.          *)
MutantKnownRefused(c) == proc[c] \in {"admitted", "sent"}

(* The provider refused it, or it was given up before it was sent: a       *)
(* cancelled begin_async, a request that exceeds the model's window.       *)
KnownRefused(c) ==
    \/ proc[c] = "admitted"
    \/ proc[c] = "sent" /\ wire[c] = "refused"

Refuse(c) ==
    /\ KnownRefused(c)
    /\ Finish(c, "rejected", Unmeasured)

(* A timeout, a cancellation, a broken stream, a permit that is gone: the  *)
(* provider may still be at work.                                          *)
Unknown(c, tokens) ==
    /\ proc[c] \in {"admitted", "claimed", "sent"}
    /\ tokens \in {spent[c], Unmeasured}
    /\ Finish(c, "unknown", tokens)

(* The process dies, or its settlement cannot be committed.                *)
ProcessEnds(c) ==
    /\ proc[c] \in {"admitted", "claimed", "sent"}
    /\ proc' = [proc EXCEPT ![c] = "done"]
    /\ UNCHANGED <<today, ledgerVars, turn, wire, spent, correction>>

-----------------------------------------------------------------------------
(* The turn, of which only this much matters here, and the calendar.       *)

StopTurn ==
    /\ turn = "running"
    /\ turn' = "stopping"
    /\ UNCHANGED <<today, ledgerVars, proc, wire, spent, correction>>

(* close_running_model_dispatches, in the transaction that ends the turn:  *)
(* a settlement as unknown of every dispatch that is still running.        *)
EndTurn ==
    LET open == {c \in Primary : dispatch[c] = "running"}
    IN /\ turn # "ended"
       /\ turn' = "ended"
       /\ dispatch' = [c \in Primary |-> IF c \in open THEN "unknown" ELSE dispatch[c]]
       /\ row' = [c \in Calls |->
                    IF c \in open /\ Settleable(c, "unknown")
                    THEN [row[c] EXCEPT !.status = "unknown", !.revision = row[c].revision + 1]
                    ELSE row[c]]
       /\ UNCHANGED <<today, window, proc, wire, spent, correction>>

Midnight ==
    /\ today < LastDay
    /\ today' = today + 1
    /\ UNCHANGED <<ledgerVars, turn, proc, wire, spent, correction>>

-----------------------------------------------------------------------------
(* usage/reconciliation.py.                                                *)

(* What an operator attests of an unresolved call: the provider is done    *)
(* with it, or it can no longer be sent.                                   *)
Quiesced(c) ==
    \/ wire[c] \in {"executed", "refused"}
    \/ wire[c] = "none" /\ proc[c] = "done"

(* An operator reads a receipt and finds the evidence of its consumption.  *)
ReadReceipt(o, c) ==
    /\ correction[o] = NoCorrection
    /\ row[c].status # "absent"
    /\ row[c].revision < MaxRevision
    /\ row[c].status \in Unresolved => Quiesced(c)
    /\ correction' = [correction EXCEPT ![o] =
                        [call |-> c, revision |-> row[c].revision, tokens |-> spent[c]]]
    /\ UNCHANGED <<today, ledgerVars, turn, proc, wire, spent>>

(* What an unresolved receipt holds, or a settled one has used, is         *)
(* replaced by the evidence.                                               *)
Reclaim(c, tokens) ==
    \/ /\ row[c].status \in Unresolved
       /\ Release(c, tokens)
    \/ /\ row[c].status \notin Unresolved
       /\ Book(row[c].day, 0, 0, tokens - row[c].observed)

(* The correction applies to the revision the operator has read, or not at *)
(* all.  Repeated with the same request id it changes nothing.             *)
Reconcile(o) ==
    /\ correction[o] # NoCorrection
    /\ correction' = [correction EXCEPT ![o] = NoCorrection]
    /\ LET c == correction[o].call
           tokens == correction[o].tokens
       IN \/ /\ row[c].revision = correction[o].revision
             /\ Reclaim(c, tokens)
             /\ row' = [row EXCEPT ![c].status = IF tokens = 0 THEN "rejected" ELSE "settled",
                                   ![c].observed = tokens, ![c].revision = @ + 1,
                                   ![c].evidence = TRUE]
          \/ /\ row[c].revision # correction[o].revision
             /\ UNCHANGED <<window, row>>
    /\ UNCHANGED <<today, dispatch, turn, proc, wire, spent>>

-----------------------------------------------------------------------------
CallStep(c) ==
    \/ StartDispatch(c)
    \/ Begin(c)
    \/ ClaimPrimary(c)
    \/ Send(c)
    \/ Provider(c)
    \/ \E tokens \in {spent[c], Unmeasured} : Complete(c, tokens) \/ Unknown(c, tokens)
    \/ Refuse(c)
    \/ ProcessEnds(c)

Next ==
    \/ \E c \in Calls : CallStep(c)
    \/ StopTurn
    \/ EndTurn
    \/ Midnight
    \/ \E o \in Operators : Reconcile(o) \/ \E c \in Calls : ReadReceipt(o, c)

Spec == Init /\ [][Next]_vars

-----------------------------------------------------------------------------
(* What the ledger charges for c, held or used.                            *)
Charged(c) == IF row[c].status \in Unresolved THEN row[c].reserved ELSE row[c].observed

(* The calls of day d, and those of them whose outcome is still open.      *)
AdmittedOn(d) == {c \in Calls : row[c].status # "absent" /\ row[c].day = d}
UnresolvedOn(d) == {c \in AdmittedOn(d) : row[c].status \in Unresolved}

(* What the account sees of the ledger, the requests and the corrections.  *)
AdmissionDay(c) == IF row[c].status = "absent" THEN 0 ELSE row[c].day

Limit == INSTANCE SpendingLimit WITH
           day <- [c \in Calls |-> AdmissionDay(c)],
           charge <- [c \in Calls |-> Charged(c)],
           cost <- spent

(* Admissions, lost answers, dead processes, settlements on a later day    *)
(* and corrections implement the spending limit: a call is admitted only   *)
(* where what all calls of the day are really charged leaves room, what is *)
(* consumed was charged before, and no charge is lowered below what its    *)
(* call has consumed, or may consume later, or raised again.               *)
ImplementsLimit == Limit!LimitSpec

(* The counters of a window, updated one settlement at a time, are the     *)
(* sums over its receipts - also of those settled on a later day, settled  *)
(* twice, or corrected.                                                    *)
Balanced ==
    \A d \in Days :
        /\ window[d].admitted = Cardinality(AdmittedOn(d))
        /\ window[d].reserved =
             SumFunctionOnSet([c \in Calls |-> row[c].reserved], UnresolvedOn(d))
        /\ window[d].used =
             SumFunctionOnSet([c \in Calls |-> row[c].observed],
                              AdmittedOn(d) \ UnresolvedOn(d))

(* Whatever the provider has consumed for a call, and may still consume,   *)
(* is charged: no lost answer, dead process, ended turn or correction      *)
(* refunds it.                                                             *)
SpendIsCovered ==
    \A c \in Calls :
        /\ spent[c] <= Charged(c)
        /\ wire[c] = "request" => Allowance[c] <= Charged(c)

(* The limits of a day hold at all times, not only at the admission.       *)
BudgetHolds ==
    \A d \in Days :
        /\ window[d].admitted <= CallLimit
        /\ window[d].used + window[d].reserved <= TokenLimit

(* "A terminal turn cannot own running calls": none is admitted after its  *)
(* end, and none is left over by it.                                       *)
EndedTurnOwnsNoCall ==
    turn = "ended" => \A c \in Primary : dispatch[c] # "running"

(* A dispatch and its receipt tell the same story, unless an operator has  *)
(* corrected the receipt.                                                  *)
Agrees(c) ==
    \/ row[c].evidence
    \/ dispatch[c] = "absent" /\ row[c].status = "absent"
    \/ dispatch[c] = "running" /\ row[c].status = "reserved"
    \/ dispatch[c] = "completed" /\ row[c].status \in {"settled", "estimated"}
    \/ dispatch[c] = "failed" /\ row[c].status = "rejected"
    \/ dispatch[c] = "unknown" /\ row[c].status = "unknown"

(* Whoever ends a dispatch, the process or the end of the turn, and        *)
(* whoever comes second, dispatch and receipt end the same way.            *)
DispatchAgrees == \A c \in Primary : Agrees(c)

(* What is settled or unknown is changed by evidence only: no late answer  *)
(* settles it again or undoes a correction.                                *)
OnlyEvidenceResolves ==
    [][\A c \in Calls :
         /\ row[c].status \in Final \cup {"unknown"}
         /\ row'[c].status # "unknown"
         /\ row'[c] # row[c]
         => row'[c].evidence]_vars

(* The permit of a call whose turn has ended is no longer to be had, so a  *)
(* call that has not claimed it by then is never sent.                     *)
ClosedCallIsNotSent ==
    [][\A c \in Primary :
         dispatch[c] # "running" /\ ~row[c].claimed
         => ~row'[c].claimed /\ (wire'[c] = wire[c])]_vars
=============================================================================
