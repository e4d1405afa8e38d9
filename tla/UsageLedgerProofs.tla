------------------------- MODULE UsageLedgerProofs -------------------------
(* Proofs about the usage ledger, for any calls, allowances, operators,    *)
(* days and limits.                                                        *)
EXTENDS UsageLedger, FiniteSetTheorems, TLAPS

(* How far a call has come, at the process, at the provider and in the     *)
(* ledger.  A request that can still consume has its allowance held.       *)
CallOK(c) ==
    /\ row[c].status = "absent" <=> proc[c] = "idle"
    /\ proc[c] \in {"idle", "admitted", "claimed"} => wire[c] = "none"
    /\ wire[c] # "executed" => spent[c] = 0
    /\ spent[c] <= Charged(c)
    /\ row[c].status # "absent" /\ ~Quiesced(c) =>
         row[c].status \in Unresolved /\ Allowance[c] <= row[c].reserved
    /\ row[c].evidence => row[c].status \in Final
    /\ c \in Primary /\ (proc[c] = "claimed" \/ wire[c] # "none") => row[c].claimed

(* What an operator has read of the consumption of a call stays true,      *)
(* because the call had quiesced.                                          *)
CorrectionOK(o) ==
    correction[o] # NoCorrection =>
      LET c == correction[o].call
      IN /\ row[c].status # "absent"
         /\ Quiesced(c)
         /\ correction[o].tokens = spent[c]

LedgerInv ==
    /\ TypeOK
    /\ BudgetHolds
    /\ DispatchAgrees
    /\ EndedTurnOwnsNoCall
    /\ \A c \in Calls : CallOK(c)
    /\ \A o \in Operators : CorrectionOK(o)

-----------------------------------------------------------------------------
(* A window whose held and used tokens do not grow together stays within   *)
(* its limits.                                                             *)
LEMMA WindowKeepsBudget ==
    ASSUME TypeOK, BudgetHolds, NEW d \in Days, NEW held \in Int, NEW used \in Int,
           held + used <= 0, Book(d, 0, held, used)
    PROVE  window' \in [Days -> Window] /\ BudgetHolds'
  <1>0. window \in [Days -> Window] /\ CallLimit \in Nat /\ TokenLimit \in Nat
    BY LedgerConstants DEF TypeOK
  <1>1. window[d] \in Window
    BY <1>0
  <1>2. /\ window[d].admitted \in Nat
        /\ window[d].used \in Int
        /\ window[d].reserved \in Int
    BY <1>1 DEF Window
  <1>3. window' \in [Days -> Window]
    <2>1. window' = [window EXCEPT ![d] =
              [admitted |-> window[d].admitted + 0, used |-> window[d].used + used,
               reserved |-> window[d].reserved + held]]
      BY DEF Book
    <2>2. [admitted |-> window[d].admitted + 0, used |-> window[d].used + used,
           reserved |-> window[d].reserved + held] \in Window
      BY <1>2 DEF Window
    <2> QED  BY <1>0, <2>1, <2>2
  <1>4. ASSUME NEW e \in Days
        PROVE  /\ window'[e].admitted <= CallLimit
               /\ window'[e].used + window'[e].reserved <= TokenLimit
    <2>0. /\ window[e].admitted <= CallLimit
          /\ window[e].used + window[e].reserved <= TokenLimit
      BY <1>4 DEF BudgetHolds
    <2>1. CASE e = d
      <3>1. /\ window'[e].admitted = window[d].admitted
            /\ window'[e].used = window[d].used + used
            /\ window'[e].reserved = window[d].reserved + held
        BY <1>0, <1>1, <1>2, <2>1 DEF Book, Window
      <3> QED  BY <1>0, <1>2, <2>0, <2>1, <3>1
    <2>2. CASE e # d
      BY <1>0, <2>0, <2>2 DEF Book
    <2> QED  BY <2>1, <2>2
  <1> QED  BY <1>3, <1>4 DEF BudgetHolds

(* What a settlement may make of the receipt of c.                         *)
Settled(r, c, outcome) ==
    /\ r \in Row
    /\ r.status # "absent"
    /\ r.claimed = row[c].claimed
    /\ spent[c] <= IF r.status \in Unresolved THEN r.reserved ELSE r.observed
    /\ \/ /\ ~Settleable(c, outcome)
          /\ r = row[c]
       \/ /\ Settleable(c, outcome)
          /\ outcome = "unknown"
          /\ r.status = "unknown"
          /\ r.reserved >= row[c].reserved
          /\ ~r.evidence
       \/ /\ row[c].status = "reserved"
          /\ outcome = "completed"
          /\ r.status \in {"settled", "estimated"}
          /\ ~r.evidence
       \/ /\ row[c].status = "reserved"
          /\ outcome = "rejected"
          /\ r.status = "rejected"
          /\ ~r.evidence

(* A settlement keeps the limits of every day, and covers what was spent.  *)
LEMMA SettlementIsCovered ==
    ASSUME TypeOK, BudgetHolds, NEW c \in Calls, CallOK(c),
           NEW outcome \in {"completed", "rejected", "unknown"},
           NEW tokens \in {spent[c], Unmeasured},
           row[c].status # "absent",
           outcome = "rejected" => spent[c] = 0,
           SettleIdentity(c, outcome, tokens)
    PROVE  /\ window' \in [Days -> Window]
           /\ BudgetHolds'
           /\ \E r : row' = [row EXCEPT ![c] = r] /\ Settled(r, c, outcome)
  <1>0. /\ row[c] \in Row
        /\ spent[c] \in Nat
        /\ spent[c] <= IF row[c].status \in Unresolved
                       THEN row[c].reserved ELSE row[c].observed
        /\ row[c].evidence => row[c].status \in Final
        /\ window \in [Days -> Window]
        /\ row \in [Calls -> Row]
    BY DEF TypeOK, CallOK, Charged
  <1>1. /\ row[c].day \in Days
        /\ row[c].reserved \in Nat
        /\ row[c].observed \in Nat
        /\ row[c].revision \in Nat
        /\ row[c].claimed \in BOOLEAN
        /\ row[c].evidence \in BOOLEAN
    BY <1>0 DEF Row
  <1>2. window[row[c].day] \in Window
    BY <1>0, <1>1
  <1>3. CASE ~Settleable(c, outcome)
    <2>1. UNCHANGED <<window, row>>
      BY <1>3 DEF SettleIdentity
    <2>2. row' = [row EXCEPT ![c] = row[c]]
      BY <1>0, <2>1
    <2>3. Settled(row[c], c, outcome)
      BY <1>0, <1>3 DEF Settled
    <2> QED  BY <1>0, <2>1, <2>2, <2>3 DEF BudgetHolds
  <1>4. CASE Settleable(c, outcome) /\ outcome = "unknown"
    <2>0. row[c].status \in Unresolved /\ spent[c] <= row[c].reserved /\ ~row[c].evidence
      BY <1>0, <1>4 DEF Settleable, Unresolved, Final
    <2>1. PICK kept, seen :
            /\ kept = IF tokens > row[c].reserved THEN tokens ELSE row[c].reserved
            /\ seen = IF tokens > row[c].observed THEN tokens ELSE row[c].observed
            /\ Book(row[c].day, 0, kept - row[c].reserved, 0)
            /\ row' = [row EXCEPT ![c].status = "unknown", ![c].reserved = kept,
                                  ![c].observed = seen, ![c].revision = @ + 1]
      BY <1>4 DEF SettleIdentity, Hold
    <2>2. kept = row[c].reserved /\ seen \in Nat
      BY <1>0, <1>1, <2>0, <2>1 DEF Unmeasured
    <2> DEFINE r == [status |-> "unknown", day |-> row[c].day, reserved |-> kept,
                     observed |-> seen, claimed |-> row[c].claimed,
                     revision |-> row[c].revision + 1, evidence |-> row[c].evidence]
    <2>3. row' = [row EXCEPT ![c] = r]
      BY <1>0, <2>1 DEF Row
    <2>4. Settled(r, c, outcome)
      <3>1. r \in Row
        BY <1>1, <2>2 DEF Row, Unresolved
      <3> QED  BY <1>1, <1>4, <2>0, <2>2, <3>1 DEF Settled, Unresolved
    <2>5. window' \in [Days -> Window] /\ BudgetHolds'
      <3> DEFINE held == kept - row[c].reserved
      <3>1. held \in Int /\ held + 0 <= 0 /\ Book(row[c].day, 0, held, 0)
        BY <1>1, <2>1, <2>2
      <3> HIDE DEF held
      <3> QED  BY <1>1, <3>1, WindowKeepsBudget
    <2> QED  BY <2>3, <2>4, <2>5
  <1>5. CASE Settleable(c, outcome) /\ outcome # "unknown"
    <2>0. row[c].status = "reserved" /\ spent[c] <= row[c].reserved
      BY <1>0, <1>5 DEF Settleable, Unresolved
    <2>1. PICK amount, verdict :
            /\ amount = Amount(c, outcome, tokens)
            /\ verdict = Verdict(outcome, tokens)
            /\ Book(row[c].day, 0, -row[c].reserved, amount)
            /\ row' = [row EXCEPT ![c].status = verdict, ![c].observed = amount,
                                  ![c].revision = @ + 1, ![c].evidence = FALSE]
      BY <1>5 DEF SettleIdentity, Charge, Release
    <2>2. amount \in Nat /\ spent[c] <= amount /\ amount <= row[c].reserved
      BY <1>0, <1>1, <2>0, <2>1 DEF Amount, Unmeasured
    <2>3. \/ outcome = "rejected" /\ verdict = "rejected"
          \/ outcome = "completed" /\ verdict \in {"settled", "estimated"}
      BY <1>5, <2>1 DEF Verdict
    <2> DEFINE r == [status |-> verdict, day |-> row[c].day, reserved |-> row[c].reserved,
                     observed |-> amount, claimed |-> row[c].claimed,
                     revision |-> row[c].revision + 1, evidence |-> FALSE]
    <2>4. row' = [row EXCEPT ![c] = r]
      BY <1>0, <2>1 DEF Row
    <2>5. Settled(r, c, outcome)
      <3>1. r \in Row
        BY <1>1, <2>2, <2>3 DEF Row, Final
      <3> QED  BY <2>0, <2>2, <2>3, <3>1 DEF Settled, Unresolved
    <2>6. window' \in [Days -> Window] /\ BudgetHolds'
      <3>1. -row[c].reserved \in Int /\ -row[c].reserved + amount <= 0
        BY <1>1, <2>2
      <3> QED  BY <1>1, <2>1, <2>2, <3>1, WindowKeepsBudget
    <2> QED  BY <2>4, <2>5, <2>6
  <1> QED  BY <1>3, <1>4, <1>5

-----------------------------------------------------------------------------
(* What has to be shown of a step that concerns one call.                  *)
CallKept(c) ==
    /\ TypeOK'
    /\ BudgetHolds'
    /\ UNCHANGED <<turn, correction>>
    /\ \A x \in Calls \ {c} :
         /\ row'[x] = row[x]
         /\ proc'[x] = proc[x]
         /\ wire'[x] = wire[x]
         /\ spent'[x] = spent[x]
         /\ x \in Primary => dispatch'[x] = dispatch[x]
    /\ CallOK(c)'
    /\ row[c].status # "absent" /\ Quiesced(c) =>
         row'[c].status # "absent" /\ Quiesced(c)' /\ spent'[c] = spent[c]
    /\ c \in Primary =>
         /\ Agrees(c)'
         /\ turn = "ended" => dispatch'[c] # "running"

LEMMA CallKeepsInv ==
    ASSUME LedgerInv, NEW c \in Calls, CallKept(c)
    PROVE  LedgerInv'
  <1>1. \A x \in Calls : CallOK(x)'
    <2>1. ASSUME NEW x \in Calls, x # c
          PROVE  CallOK(x)'
      <3>1. CallOK(x)
        BY DEF LedgerInv
      <3>2. /\ row'[x] = row[x]
            /\ proc'[x] = proc[x]
            /\ wire'[x] = wire[x]
            /\ spent'[x] = spent[x]
        BY <2>1 DEF CallKept
      <3> QED  BY <3>1, <3>2 DEF CallOK, Charged, Quiesced
    <2> QED  BY <2>1 DEF CallKept
  <1>2. \A x \in Primary : Agrees(x)' /\ (turn' = "ended" => dispatch'[x] # "running")
    <2>1. ASSUME NEW x \in Primary, x # c
          PROVE  Agrees(x)' /\ (turn' = "ended" => dispatch'[x] # "running")
      <3>1. Agrees(x) /\ (turn = "ended" => dispatch[x] # "running")
        BY DEF LedgerInv, DispatchAgrees, EndedTurnOwnsNoCall
      <3>2. row'[x] = row[x] /\ dispatch'[x] = dispatch[x] /\ turn' = turn
        BY <2>1, LedgerConstants DEF CallKept
      <3> QED  BY <3>1, <3>2 DEF Agrees
    <2> QED  BY <2>1 DEF CallKept
  <1>3. ASSUME NEW o \in Operators
        PROVE  CorrectionOK(o)'
    <2>1. CASE correction[o] = NoCorrection
      BY <2>1 DEF CorrectionOK, CallKept
    <2>2. CASE correction[o] # NoCorrection
      <3> DEFINE x == correction[o].call
      <3>1. x \in Calls /\ correction' = correction
        BY <2>2 DEF LedgerInv, TypeOK, Correction, CallKept
      <3>2. row[x].status # "absent" /\ Quiesced(x) /\ correction[o].tokens = spent[x]
        BY <2>2 DEF LedgerInv, CorrectionOK
      <3>3. row'[x].status # "absent" /\ Quiesced(x)' /\ spent'[x] = spent[x]
        <4>1. CASE x = c
          BY <3>2, <4>1 DEF CallKept
        <4>2. CASE x # c
          BY <3>1, <3>2, <4>2 DEF CallKept, Quiesced
        <4> QED  BY <4>1, <4>2
      <3> QED  BY <3>1, <3>2, <3>3 DEF CorrectionOK
    <2> QED  BY <2>1, <2>2
  <1> QED  BY <1>1, <1>2, <1>3 DEF LedgerInv, CallKept, DispatchAgrees, EndedTurnOwnsNoCall

-----------------------------------------------------------------------------
(* What the invariant says of one call, with the types of its parts.       *)
LEMMA CallFacts ==
    ASSUME LedgerInv, NEW c \in Calls
    PROVE  /\ TypeOK
           /\ BudgetHolds
           /\ CallOK(c)
           /\ row[c] \in Row
           /\ spent[c] \in Nat
           /\ Allowance[c] \in Nat \ {0}
           /\ c \in Primary =>
                Agrees(c) /\ (turn = "ended" => dispatch[c] # "running")
  BY LedgerConstants DEF LedgerInv, TypeOK, DispatchAgrees, EndedTurnOwnsNoCall

(* An admission keeps within the limits of the day, and holds what its     *)
(* request may consume.                                                    *)
LEMMA ReserveIsSafe ==
    ASSUME LedgerInv, NEW c \in Calls, Reserve(c)
    PROVE  /\ window' \in [Days -> Window]
           /\ BudgetHolds'
           /\ \E r \in Row :
                /\ row' = [row EXCEPT ![c] = r]
                /\ r.status = "reserved"
                /\ r.reserved = Allowance[c]
                /\ ~r.claimed
                /\ ~r.evidence
  <1>0. /\ today \in Days
        /\ window \in [Days -> Window]
        /\ CallLimit \in Nat
        /\ TokenLimit \in Nat
        /\ Allowance[c] \in Nat \ {0}
    BY LedgerConstants DEF LedgerInv, TypeOK
  <1>1. /\ window[today].admitted \in Nat
        /\ window[today].used \in Int
        /\ window[today].reserved \in Int
    BY <1>0 DEF Window
  <1> DEFINE w == [admitted |-> window[today].admitted + 1,
                   reserved |-> window[today].reserved + Allowance[c],
                   used |-> window[today].used + 0]
  <1>2. window' = [window EXCEPT ![today] = w]
    BY DEF Reserve, Book
  <1>3. w \in Window
    BY <1>0, <1>1 DEF Window
  <1>4. w.admitted <= CallLimit /\ w.used + w.reserved <= TokenLimit
    BY <1>0, <1>1 DEF Reserve, WithinLimits
  <1> HIDE DEF w
  <1>5. BudgetHolds'
    <2>1. ASSUME NEW d \in Days
          PROVE  /\ window'[d].admitted <= CallLimit
                 /\ window'[d].used + window'[d].reserved <= TokenLimit
      <3>1. CASE d = today
        BY <1>0, <1>2, <1>4, <3>1
      <3>2. CASE d # today
        BY <1>0, <1>2, <3>2 DEF LedgerInv, BudgetHolds
      <3> QED  BY <3>1, <3>2
    <2> QED  BY <2>1 DEF BudgetHolds
  <1> DEFINE r == [NoRow EXCEPT !.status = "reserved", !.day = today,
                                !.reserved = Allowance[c]]
  <1>6. row' = [row EXCEPT ![c] = r]
    BY DEF Reserve
  <1>7. /\ r \in Row
        /\ r.status = "reserved"
        /\ r.reserved = Allowance[c]
        /\ ~r.claimed
        /\ ~r.evidence
    BY <1>0 DEF NoRow, Row, Unresolved
  <1> HIDE DEF r
  <1> QED  BY <1>0, <1>2, <1>3, <1>5, <1>6, <1>7

LEMMA AdmissionIsSafe ==
    ASSUME LedgerInv, NEW c \in Calls, StartDispatch(c) \/ Begin(c)
    PROVE  CallKept(c)
  <1>1. /\ Reserve(c)
        /\ proc[c] = "idle"
        /\ proc' = [proc EXCEPT ![c] = "admitted"]
        /\ UNCHANGED <<today, turn, wire, spent, correction>>
    BY DEF StartDispatch, Begin
  <1>2. PICK r \in Row :
          /\ row' = [row EXCEPT ![c] = r]
          /\ r.status = "reserved"
          /\ r.reserved = Allowance[c]
          /\ ~r.claimed
          /\ ~r.evidence
    BY <1>1, ReserveIsSafe
  <1>3. window' \in [Days -> Window] /\ BudgetHolds'
    BY <1>1, ReserveIsSafe
  <1>4. row[c].status = "absent" /\ wire[c] = "none" /\ spent[c] = 0
    BY <1>1, CallFacts DEF CallOK, Reserve
  <1>5. \/ /\ c \in Primary
           /\ turn = "running"
           /\ dispatch' = [dispatch EXCEPT ![c] = "running"]
        \/ c \notin Primary /\ UNCHANGED dispatch
    BY DEF StartDispatch, Begin, AdmitsCalls
  <1>6. TypeOK'
    BY <1>1, <1>2, <1>3, <1>5 DEF LedgerInv, TypeOK
  <1>7. row'[c] = r /\ proc'[c] = "admitted" /\ wire'[c] = "none" /\ spent'[c] = 0
    BY <1>1, <1>2, <1>4 DEF LedgerInv, TypeOK
  <1>8. CallOK(c)'
    BY <1>2, <1>7, CallFacts DEF CallOK, Charged, Quiesced, Unresolved
  <1>9. c \in Primary => Agrees(c)' /\ turn # "ended"
    BY <1>2, <1>5, <1>7 DEF Agrees, LedgerInv, TypeOK
  <1> QED  BY <1>1, <1>2, <1>3, <1>4, <1>5, <1>6, <1>8, <1>9 DEF CallKept, LedgerInv, TypeOK

(* Whatever a call finds its outcome to be, the end of it keeps the        *)
(* invariant.                                                              *)
LEMMA FinishIsSafe ==
    ASSUME LedgerInv, NEW c \in Calls,
           NEW outcome \in {"completed", "rejected", "unknown"},
           NEW tokens \in {spent[c], Unmeasured},
           proc[c] \in {"admitted", "claimed", "sent"},
           outcome = "completed" => wire[c] = "executed",
           outcome = "rejected" => proc[c] = "admitted" \/ wire[c] = "refused",
           Finish(c, outcome, tokens)
    PROVE  CallKept(c)
  <1>1. /\ proc' = [proc EXCEPT ![c] = "done"]
        /\ UNCHANGED <<today, turn, wire, spent, correction>>
    BY DEF Finish
  <1>2. /\ row[c].status # "absent"
        /\ outcome = "rejected" => spent[c] = 0
        /\ outcome \in {"completed", "rejected"} => Quiesced(c)'
        /\ proc'[c] = "done"
    BY <1>1, CallFacts DEF CallOK, Quiesced, LedgerInv, TypeOK
  <1>3. /\ window' \in [Days -> Window]
        /\ BudgetHolds'
        /\ \E r :
             /\ row' = [row EXCEPT ![c] = r]
             /\ \/ /\ Settled(r, c, outcome)
                   /\ c \in Primary => /\ dispatch[c] = "running"
                                       /\ dispatch' = [dispatch EXCEPT ![c] =
                                                          DispatchStatus(outcome)]
                   /\ c \notin Primary => UNCHANGED dispatch
                \/ /\ r = row[c]
                   /\ c \in Primary
                   /\ UNCHANGED dispatch
    <2>1. CASE ~(c \in Primary /\ UNCHANGED ledgerVars)
      <3>0. /\ SettleIdentity(c, outcome, tokens)
            /\ c \in Primary => /\ dispatch[c] = "running"
                                /\ dispatch' = [dispatch EXCEPT ![c] =
                                                   DispatchStatus(outcome)]
            /\ c \notin Primary => UNCHANGED dispatch
        BY <2>1 DEF Finish
      <3>1. /\ window' \in [Days -> Window]
            /\ BudgetHolds'
            /\ \E r : row' = [row EXCEPT ![c] = r] /\ Settled(r, c, outcome)
        BY <1>2, <3>0, CallFacts, SettlementIsCovered
      <3> QED  BY <3>0, <3>1
    <2>2. CASE c \in Primary /\ UNCHANGED ledgerVars
      <3>1. row' = [row EXCEPT ![c] = row[c]]
        BY <2>2 DEF ledgerVars, LedgerInv, TypeOK
      <3> QED  BY <2>2, <3>1 DEF ledgerVars, LedgerInv, TypeOK, BudgetHolds
    <2> QED  BY <2>1, <2>2 DEF Finish
  <1>4. PICK r :
          /\ row' = [row EXCEPT ![c] = r]
          /\ \/ /\ Settled(r, c, outcome)
                /\ c \in Primary => /\ dispatch[c] = "running"
                                    /\ dispatch' = [dispatch EXCEPT ![c] =
                                                       DispatchStatus(outcome)]
                /\ c \notin Primary => UNCHANGED dispatch
             \/ /\ r = row[c]
                /\ c \in Primary
                /\ UNCHANGED dispatch
    BY <1>3
  <1>5. r \in Row /\ row'[c] = r
    BY <1>4, CallFacts DEF Settled, LedgerInv, TypeOK
  <1>6. TypeOK'
    BY <1>1, <1>3, <1>4, <1>5 DEF LedgerInv, TypeOK, DispatchStatus
  <1>7. CallOK(c)'
    <2>0. /\ wire'[c] = wire[c] /\ spent'[c] = spent[c]
          /\ wire[c] \in {"none", "request", "executed", "refused"}
      BY <1>1 DEF LedgerInv, TypeOK
    <2>1. /\ r.status # "absent"
          /\ r.claimed = row[c].claimed
          /\ spent[c] <= IF r.status \in Unresolved THEN r.reserved ELSE r.observed
          /\ r.evidence => r.status \in Final
      BY <1>2, <1>4, CallFacts DEF CallOK, Charged, Settled
    <2>2. CASE Quiesced(c)'
      BY <1>2, <1>5, <2>0, <2>1, <2>2, CallFacts DEF CallOK, Charged
    <2>3. CASE ~Quiesced(c)'
      <3>1. wire[c] = "request" /\ outcome = "unknown"
        BY <1>2, <2>0, <2>3 DEF Quiesced
      <3>2. row[c].status \in Unresolved /\ Allowance[c] <= row[c].reserved
        BY <1>2, <3>1, CallFacts DEF CallOK, Quiesced
      <3>3. r.status \in Unresolved /\ r.reserved >= row[c].reserved
        BY <1>4, <3>1, <3>2, CallFacts DEF Settled, Row, Unresolved
      <3>4. Allowance[c] <= r.reserved
        BY <1>5, <3>2, <3>3, CallFacts DEF Row
      <3> QED  BY <1>2, <1>5, <2>0, <2>1, <2>3, <3>1, <3>3, <3>4, CallFacts DEF CallOK, Charged
    <2> QED  BY <2>2, <2>3
  <1>8. c \in Primary => Agrees(c)' /\ (turn = "ended" => dispatch'[c] # "running")
    BY <1>4, <1>5, CallFacts
       DEF Agrees, Settled, Settleable, Final, DispatchStatus, LedgerInv, TypeOK
  <1> QED  BY <1>1, <1>3, <1>4, <1>5, <1>6, <1>7, <1>8, CallFacts
              DEF CallKept, CallOK, Quiesced, LedgerInv, TypeOK

(* The permit, the request and the provider.                               *)
LEMMA TransportIsSafe ==
    ASSUME LedgerInv, NEW c \in Calls,
           ClaimPrimary(c) \/ Send(c) \/ Provider(c) \/ ProcessEnds(c)
    PROVE  CallKept(c)
  <1>0. /\ CallOK(c)
        /\ row[c] \in Row
        /\ spent[c] \in Nat
        /\ Allowance[c] \in Nat \ {0}
        /\ c \in Primary =>
             Agrees(c) /\ (turn = "ended" => dispatch[c] # "running")
    BY CallFacts
  <1>1. CASE ClaimPrimary(c)
    <2>1. row' = [row EXCEPT ![c] = [row[c] EXCEPT !.claimed = TRUE]]
      BY <1>1 DEF ClaimPrimary
    <2>2. [row[c] EXCEPT !.claimed = TRUE] \in Row
      BY <1>0 DEF Row
    <2>3. TypeOK'
      BY <1>1, <2>1, <2>2 DEF ClaimPrimary, LedgerInv, TypeOK
    <2>4. /\ row'[c].status = row[c].status
          /\ row'[c].reserved = row[c].reserved
          /\ row'[c].observed = row[c].observed
          /\ row'[c].evidence = row[c].evidence
          /\ row'[c].claimed
          /\ proc'[c] = "claimed"
      BY <1>0, <1>1, <2>1 DEF ClaimPrimary, LedgerInv, TypeOK, Row
    <2> QED  BY <1>0, <1>1, <2>1, <2>3, <2>4
             DEF ClaimPrimary, CallKept, CallOK, Charged, Quiesced, Agrees,
                 LedgerInv, TypeOK, BudgetHolds
  <1>2. CASE Send(c)
    <2>1. TypeOK'
      BY <1>2 DEF Send, ledgerVars, LedgerInv, TypeOK
    <2>2. proc'[c] = "sent" /\ wire'[c] = "request"
      BY <1>2 DEF Send, LedgerInv, TypeOK
    <2> QED  BY <1>0, <1>2, <2>1, <2>2
             DEF Send, ledgerVars, CallKept, CallOK, Charged, Quiesced, Agrees,
                 LedgerInv, TypeOK, BudgetHolds
  <1>3. CASE Provider(c)
    <2>1. TypeOK'
      BY <1>0, <1>3 DEF Provider, ledgerVars, LedgerInv, TypeOK
    <2>2. /\ row[c].status \in Unresolved
          /\ Allowance[c] <= row[c].reserved
          /\ spent[c] = 0
      BY <1>0, <1>3 DEF Provider, CallOK, Quiesced
    <2>3. /\ wire'[c] \in {"executed", "refused"}
          /\ spent'[c] \in 0..Allowance[c]
          /\ wire'[c] # "executed" => spent'[c] = 0
      BY <1>0, <1>3, <2>2 DEF Provider, LedgerInv, TypeOK
    <2>4. row'[c] = row[c] /\ row[c].reserved \in Nat /\ spent'[c] <= row[c].reserved
      BY <1>0, <1>3, <2>2, <2>3 DEF Provider, ledgerVars, Row
    <2>5. CallOK(c)'
      BY <1>0, <1>3, <2>2, <2>3, <2>4
         DEF Provider, ledgerVars, CallOK, Charged, Quiesced
    <2> QED  BY <1>0, <1>3, <2>1, <2>5
             DEF Provider, ledgerVars, CallKept, Quiesced, Agrees,
                 LedgerInv, TypeOK, BudgetHolds
  <1>4. CASE ProcessEnds(c)
    <2>1. TypeOK'
      BY <1>4 DEF ProcessEnds, ledgerVars, LedgerInv, TypeOK
    <2>2. proc'[c] = "done"
      BY <1>4 DEF ProcessEnds, LedgerInv, TypeOK
    <2> QED  BY <1>0, <1>4, <2>1, <2>2
             DEF ProcessEnds, ledgerVars, CallKept, CallOK, Charged, Quiesced, Agrees,
                 LedgerInv, TypeOK, BudgetHolds
  <1> QED  BY <1>1, <1>2, <1>3, <1>4

LEMMA CallStepIsSafe ==
    ASSUME LedgerInv, NEW c \in Calls, CallStep(c)
    PROVE  CallKept(c)
  <1>1. CASE \E tokens \in {spent[c], Unmeasured} : Complete(c, tokens)
    BY <1>1, FinishIsSafe DEF Complete
  <1>2. CASE \E tokens \in {spent[c], Unmeasured} : Unknown(c, tokens)
    BY <1>2, FinishIsSafe DEF Unknown
  <1>3. CASE Refuse(c)
    BY <1>3, FinishIsSafe DEF Refuse, KnownRefused
  <1> QED  BY <1>1, <1>2, <1>3, AdmissionIsSafe, TransportIsSafe DEF CallStep

-----------------------------------------------------------------------------
(* The end of a turn settles its running dispatches as unknown, which      *)
(* refunds nothing.                                                        *)
LEMMA TurnIsSafe ==
    ASSUME LedgerInv, StopTurn \/ EndTurn \/ Midnight
    PROVE  LedgerInv'
  <1>1. CASE StopTurn \/ Midnight
    <2>1. UNCHANGED <<window, row, dispatch, proc, wire, spent, correction>>
      BY <1>1 DEF StopTurn, Midnight, ledgerVars
    <2>2. TypeOK'
      BY <1>1, <2>1, LedgerConstants DEF StopTurn, Midnight, LedgerInv, TypeOK, Days
    <2>3. turn' = "ended" => turn = "ended"
      BY <1>1 DEF StopTurn, Midnight
    <2> QED  BY <2>1, <2>2, <2>3
             DEF LedgerInv, BudgetHolds, DispatchAgrees, Agrees, EndedTurnOwnsNoCall,
                 CallOK, Charged, Quiesced, CorrectionOK
  <1>2. CASE EndTurn
    <2>1. /\ dispatch' = [c \in Primary |-> IF dispatch[c] = "running" THEN "unknown"
                                            ELSE dispatch[c]]
          /\ turn' = "ended"
          /\ UNCHANGED <<today, window, proc, wire, spent, correction>>
      BY <1>2 DEF EndTurn
    <2>2. ASSUME NEW c \in Calls
          PROVE  /\ row'[c] \in Row
                 /\ \/ row'[c] = row[c]
                    \/ /\ row[c].status \in Unresolved
                       /\ row'[c].status = "unknown"
                       /\ row'[c].reserved = row[c].reserved
                       /\ row'[c].claimed = row[c].claimed
                       /\ row'[c].evidence = row[c].evidence
                 /\ c \in Primary /\ dispatch[c] = "running" /\ ~row[c].evidence =>
                      row'[c].status = "unknown"
                 /\ c \notin Primary \/ dispatch[c] # "running" => row'[c] = row[c]
      <3>0. row[c] \in Row /\ (c \in Primary => Agrees(c))
        BY CallFacts
      <3>1. row'[c] = IF c \in Primary /\ dispatch[c] = "running" /\ Settleable(c, "unknown")
                      THEN [row[c] EXCEPT !.status = "unknown",
                                          !.revision = row[c].revision + 1]
                      ELSE row[c]
        BY <1>2 DEF EndTurn
      <3>2. CASE c \in Primary /\ dispatch[c] = "running" /\ Settleable(c, "unknown")
        <4> DEFINE r == [status |-> "unknown", day |-> row[c].day,
                         reserved |-> row[c].reserved, observed |-> row[c].observed,
                         claimed |-> row[c].claimed, revision |-> row[c].revision + 1,
                         evidence |-> row[c].evidence]
        <4>0. row[c].revision + 1 \in Nat
          BY <3>0 DEF Row
        <4>1. row'[c] = r
          BY <3>0, <3>1, <3>2 DEF Row
        <4>2. /\ r \in Row
              /\ r.status = "unknown"
              /\ r.reserved = row[c].reserved
              /\ r.claimed = row[c].claimed
              /\ r.evidence = row[c].evidence
          BY <3>0, <4>0 DEF Row, Unresolved
        <4> QED  BY <3>2, <4>1, <4>2 DEF Settleable, Unresolved
      <3>3. CASE ~(c \in Primary /\ dispatch[c] = "running" /\ Settleable(c, "unknown"))
        BY <3>0, <3>1, <3>3 DEF Agrees, Settleable
      <3> QED  BY <3>2, <3>3
    <2>3. row' \in [Calls -> Row]
      BY <1>2, <2>2 DEF EndTurn
    <2>4. TypeOK'
      BY <2>1, <2>3 DEF LedgerInv, TypeOK
    <2>5. ASSUME NEW c \in Calls
          PROVE  CallOK(c)' /\ (row[c].status # "absent" => row'[c].status # "absent")
      <3>1. CallOK(c)
        BY CallFacts
      <3> QED  BY <2>1, <2>2, <3>1 DEF CallOK, Charged, Quiesced, Unresolved, Final
    <2>6. ASSUME NEW c \in Primary
          PROVE  Agrees(c)' /\ dispatch'[c] # "running"
      <3>1. c \in Calls /\ Agrees(c)
        BY LedgerConstants, CallFacts
      <3> QED  BY <2>1, <2>2, <3>1 DEF Agrees
    <2>7. ASSUME NEW o \in Operators
          PROVE  CorrectionOK(o)'
      <3>1. correction[o] # NoCorrection => correction[o].call \in Calls
        BY DEF LedgerInv, TypeOK, Correction
      <3>2. CorrectionOK(o)
        BY DEF LedgerInv
      <3> QED  BY <2>1, <2>5, <3>1, <3>2 DEF CorrectionOK, Quiesced
    <2> QED  BY <2>1, <2>4, <2>5, <2>6, <2>7
             DEF LedgerInv, BudgetHolds, DispatchAgrees, EndedTurnOwnsNoCall
  <1> QED  BY <1>1, <1>2

-----------------------------------------------------------------------------
(* An operator reads a receipt only when nothing more can be spent on it.  *)
LEMMA ReadingIsSafe ==
    ASSUME LedgerInv, NEW o \in Operators, NEW c \in Calls, ReadReceipt(o, c)
    PROVE  LedgerInv'
  <1>0. /\ CallOK(c)
        /\ row[c] \in Row
        /\ spent[c] \in Nat
    BY CallFacts
  <1> DEFINE seen == [call |-> c, revision |-> row[c].revision, tokens |-> spent[c]]
  <1>1. /\ UNCHANGED <<today, window, row, dispatch, turn, proc, wire, spent>>
        /\ correction' = [correction EXCEPT ![o] = seen]
    BY DEF ReadReceipt, ledgerVars
  <1>2. seen \in Correction
    BY <1>0 DEF Correction, Row
  <1>3. row[c].status # "absent" /\ Quiesced(c)
    BY <1>0 DEF ReadReceipt, CallOK
  <1>4. TypeOK'
    BY <1>1, <1>2 DEF LedgerInv, TypeOK
  <1>5. ASSUME NEW p \in Operators
        PROVE  CorrectionOK(p)'
    <2>1. CASE p = o
      BY <1>1, <1>3, <2>1 DEF CorrectionOK, Quiesced, LedgerInv, TypeOK
    <2>2. CASE p # o
      BY <1>1, <2>2 DEF CorrectionOK, Quiesced, LedgerInv, TypeOK
    <2> QED  BY <2>1, <2>2
  <1> QED  BY <1>1, <1>4, <1>5
           DEF LedgerInv, BudgetHolds, DispatchAgrees, Agrees, EndedTurnOwnsNoCall,
               CallOK, Charged, Quiesced

(* A correction replaces what the receipt charged by what was spent.       *)
LEMMA ReconcileIsSafe ==
    ASSUME LedgerInv, NEW o \in Operators, Reconcile(o)
    PROVE  LedgerInv'
  <1> DEFINE c == correction[o].call
             tokens == correction[o].tokens
  <1>0. /\ c \in Calls
        /\ row[c].status # "absent"
        /\ Quiesced(c)
        /\ tokens = spent[c]
    BY DEF LedgerInv, TypeOK, Correction, CorrectionOK, Reconcile
  <1>1. /\ correction' = [correction EXCEPT ![o] = NoCorrection]
        /\ UNCHANGED <<today, dispatch, turn, proc, wire, spent>>
    BY DEF Reconcile
  <1> HIDE DEF c, tokens
  <1>2. /\ CallOK(c)
        /\ row[c] \in Row
        /\ spent[c] \in Nat
        /\ c \in Primary =>
             Agrees(c) /\ (turn = "ended" => dispatch[c] # "running")
    BY <1>0, CallFacts
  <1>3. /\ window' \in [Days -> Window]
        /\ BudgetHolds'
        /\ \E r \in Row :
             /\ row' = [row EXCEPT ![c] = r]
             /\ \/ r = row[c]
                \/ /\ r.status \in {"rejected", "settled"}
                   /\ r.observed = spent[c]
                   /\ r.claimed = row[c].claimed
                   /\ r.evidence
    <2>1. CASE UNCHANGED <<window, row>>
      <3>1. row' = [row EXCEPT ![c] = row[c]]
        BY <2>1 DEF LedgerInv, TypeOK
      <3> QED  BY <1>2, <2>1, <3>1 DEF LedgerInv, TypeOK, BudgetHolds
    <2>2. CASE Reclaim(c, tokens)
             /\ row' = [row EXCEPT ![c].status = IF tokens = 0 THEN "rejected" ELSE "settled",
                                   ![c].observed = tokens, ![c].revision = @ + 1,
                                   ![c].evidence = TRUE]
      <3>0. /\ row[c].day \in Days
            /\ row[c].reserved \in Nat
            /\ row[c].observed \in Nat
            /\ row[c].revision \in Nat
            /\ row[c].claimed \in BOOLEAN
        BY <1>2 DEF Row
      <3>1. TypeOK /\ BudgetHolds
        BY DEF LedgerInv
      <3>2. window' \in [Days -> Window] /\ BudgetHolds'
        <4>1. CASE row[c].status \in Unresolved /\ Release(c, tokens)
          <5>1. -row[c].reserved \in Int /\ -row[c].reserved + tokens <= 0
            BY <1>0, <1>2, <3>0, <4>1 DEF CallOK, Charged
          <5>2. Book(row[c].day, 0, -row[c].reserved, tokens) /\ tokens \in Int
            BY <1>0, <1>2, <4>1 DEF Release
          <5> QED  BY <3>0, <3>1, <5>1, <5>2, WindowKeepsBudget
        <4>2. CASE row[c].status \notin Unresolved
                 /\ Book(row[c].day, 0, 0, tokens - row[c].observed)
          <5> DEFINE used == tokens - row[c].observed
          <5>1. used \in Int /\ 0 + used <= 0 /\ Book(row[c].day, 0, 0, used)
            BY <1>0, <1>2, <3>0, <4>2 DEF CallOK, Charged
          <5> HIDE DEF used
          <5> QED  BY <3>0, <3>1, <5>1, WindowKeepsBudget
        <4> QED  BY <2>2, <4>1, <4>2 DEF Reclaim
      <3>3. PICK status :
              /\ status = IF tokens = 0 THEN "rejected" ELSE "settled"
              /\ row' = [row EXCEPT ![c].status = status, ![c].observed = tokens,
                                    ![c].revision = @ + 1, ![c].evidence = TRUE]
        BY <2>2
      <3> DEFINE r == [status |-> status, day |-> row[c].day, reserved |-> row[c].reserved,
                       observed |-> tokens, claimed |-> row[c].claimed,
                       revision |-> row[c].revision + 1, evidence |-> TRUE]
      <3>4. row' = [row EXCEPT ![c] = r]
        BY <1>0, <1>2, <3>3 DEF Row, LedgerInv, TypeOK
      <3>5. status \in {"rejected", "settled"}
        BY <3>3
      <3>6. r \in Row
        BY <1>0, <1>2, <3>0, <3>5 DEF Row, Final
      <3> QED  BY <1>0, <3>2, <3>4, <3>5, <3>6
    <2> QED  BY <2>1, <2>2 DEF Reconcile, c, tokens
  <1>4. PICK r \in Row :
          /\ row' = [row EXCEPT ![c] = r]
          /\ \/ r = row[c]
             \/ /\ r.status \in {"rejected", "settled"}
                /\ r.observed = spent[c]
                /\ r.claimed = row[c].claimed
                /\ r.evidence
    BY <1>3
  <1>5. /\ row'[c] = r
        /\ \A x \in Calls \ {c} : row'[x] = row[x]
    BY <1>0, <1>4 DEF LedgerInv, TypeOK
  <1>6. TypeOK'
    BY <1>1, <1>3, <1>4 DEF LedgerInv, TypeOK
  <1>7. ASSUME NEW x \in Calls
        PROVE  CallOK(x)' /\ (row[x].status # "absent" => row'[x].status # "absent")
    <2>1. CASE x = c
      BY <1>0, <1>1, <1>2, <1>4, <1>5, <2>1
         DEF CallOK, Charged, Quiesced, Unresolved, Final
    <2>2. CASE x # c
      BY <1>1, <1>5, <2>2, CallFacts DEF CallOK, Charged, Quiesced
    <2> QED  BY <2>1, <2>2
  <1>8. ASSUME NEW x \in Primary
        PROVE  Agrees(x)'
    <2>0. x \in Calls /\ Agrees(x)
      BY LedgerConstants, CallFacts
    <2>1. CASE x = c
      BY <1>1, <1>4, <1>5, <2>0, <2>1 DEF Agrees
    <2>2. CASE x # c
      BY <1>1, <1>5, <2>0, <2>2 DEF Agrees
    <2> QED  BY <2>1, <2>2
  <1>9. ASSUME NEW p \in Operators
        PROVE  CorrectionOK(p)'
    <2>1. CASE p = o
      BY <1>1, <2>1 DEF CorrectionOK, LedgerInv, TypeOK
    <2>2. CASE p # o
      <3>1. /\ correction'[p] = correction[p]
            /\ correction[p] # NoCorrection => correction[p].call \in Calls
            /\ CorrectionOK(p)
        BY <1>1, <2>2 DEF LedgerInv, TypeOK, Correction
      <3> QED  BY <1>1, <1>7, <3>1 DEF CorrectionOK, Quiesced
    <2> QED  BY <2>1, <2>2
  <1> QED  BY <1>1, <1>3, <1>6, <1>7, <1>8, <1>9
           DEF LedgerInv, DispatchAgrees, EndedTurnOwnsNoCall

-----------------------------------------------------------------------------
LEMMA LedgerInit ==
    ASSUME Init
    PROVE  LedgerInv
  <1>1. NoRow \in Row /\ 1 \in Days
    BY LedgerConstants DEF NoRow, Row, Days
  <1>2. TypeOK
    BY <1>1 DEF Init, TypeOK, Window
  <1>3. BudgetHolds
    BY LedgerConstants DEF Init, BudgetHolds
  <1>4. \A c \in Calls : CallOK(c)
    BY LedgerConstants DEF Init, NoRow, CallOK, Charged, Quiesced, Unresolved
  <1> QED  BY <1>2, <1>3, <1>4, LedgerConstants
           DEF Init, NoRow, LedgerInv, DispatchAgrees, Agrees, EndedTurnOwnsNoCall, CorrectionOK

LEMMA LedgerStep ==
    ASSUME LedgerInv, [Next]_vars
    PROVE  LedgerInv'
  <1>1. CASE \E c \in Calls : CallStep(c)
    BY <1>1, CallStepIsSafe, CallKeepsInv
  <1>2. CASE StopTurn \/ EndTurn \/ Midnight
    BY <1>2, TurnIsSafe
  <1>3. CASE \E o \in Operators : Reconcile(o) \/ \E c \in Calls : ReadReceipt(o, c)
    BY <1>3, ReconcileIsSafe, ReadingIsSafe
  <1>4. CASE UNCHANGED vars
    BY <1>4 DEF vars, LedgerInv, TypeOK, BudgetHolds, DispatchAgrees, Agrees,
                EndedTurnOwnsNoCall, CallOK, Charged, Quiesced, CorrectionOK
  <1> QED  BY <1>1, <1>2, <1>3, <1>4 DEF Next

(* Every state of every behaviour satisfies the inductive invariant.       *)
THEOREM LedgerInvHolds == Spec => []LedgerInv
  <1> QED  BY LedgerInit, LedgerStep, PTL DEF Spec

(* The rows of the ledger, and what the processes and the operators know,  *)
(* keep their types.                                                       *)
THEOREM LedgerTypes == Spec => []TypeOK
  <1>1. LedgerInv => TypeOK
    BY DEF LedgerInv
  <1> QED  BY <1>1, LedgerInvHolds, PTL

(* No interleaving of admissions, settlements and corrections takes a day  *)
(* over its limits.                                                        *)
THEOREM LimitsHold == Spec => []BudgetHolds
  <1>1. LedgerInv => BudgetHolds
    BY DEF LedgerInv
  <1> QED  BY <1>1, LedgerInvHolds, PTL

(* Whatever a provider has consumed, or may still consume, is charged.     *)
THEOREM NothingSpentIsRefunded == Spec => []SpendIsCovered
  <1>1. LedgerInv => SpendIsCovered
    <2>1. ASSUME LedgerInv, NEW c \in Calls
          PROVE  /\ spent[c] <= Charged(c)
                 /\ wire[c] = "request" => Allowance[c] <= Charged(c)
      <3>1. CallOK(c)
        BY <2>1 DEF LedgerInv
      <3>2. wire[c] = "request" => row[c].status # "absent" /\ ~Quiesced(c)
        BY <3>1 DEF CallOK, Quiesced
      <3> QED  BY <3>1, <3>2 DEF CallOK, Charged
    <2> QED  BY <2>1 DEF SpendIsCovered
  <1> QED  BY <1>1, LedgerInvHolds, PTL

(* A turn that has ended leaves no dispatch running and admits none.       *)
THEOREM EndedTurnIsClosed == Spec => []EndedTurnOwnsNoCall
  <1>1. LedgerInv => EndedTurnOwnsNoCall
    BY DEF LedgerInv
  <1> QED  BY <1>1, LedgerInvHolds, PTL

(* A dispatch and its receipt end alike, whoever ends them.                *)
THEOREM DispatchFollowsReceipt == Spec => []DispatchAgrees
  <1>1. LedgerInv => DispatchAgrees
    BY DEF LedgerInv
  <1> QED  BY <1>1, LedgerInvHolds, PTL

-----------------------------------------------------------------------------
(* Everything that may become of a receipt in one step: it is admitted,    *)
(* claimed, settled by its process, left unknown, or corrected.            *)
RowChange(c) ==
    \/ row'[c] = row[c]
    \/ row[c].status = "absent" /\ ~row'[c].claimed
    \/ ClaimPrimary(c)
    \/ /\ row'[c].claimed = row[c].claimed
       /\ \/ row[c].status = "reserved"
          \/ row'[c].status = "unknown"
          \/ row'[c].evidence

LEMMA SettlementChanges ==
    ASSUME TypeOK, NEW x \in Calls, NEW outcome, NEW tokens,
           SettleIdentity(x, outcome, tokens), NEW c \in Calls
    PROVE  RowChange(c)
  <1>0. row \in [Calls -> Row] /\ row[c] \in Row
    BY DEF TypeOK
  <1>1. CASE UNCHANGED row \/ x # c
    BY <1>0, <1>1 DEF RowChange, SettleIdentity, Hold, Charge
  <1>2. CASE x = c /\ Hold(c, tokens)
    <2>1. row'[c].status = "unknown" /\ row'[c].claimed = row[c].claimed
      BY <1>0, <1>2 DEF Hold, Row
    <2> QED  BY <2>1 DEF RowChange
  <1>3. CASE x = c /\ Settleable(c, outcome) /\ outcome # "unknown" /\ Charge(c, outcome, tokens)
    <2>1. PICK amount, verdict :
            row' = [row EXCEPT ![c].status = verdict, ![c].observed = amount,
                               ![c].revision = @ + 1, ![c].evidence = FALSE]
      BY <1>3 DEF Charge
    <2>2. row'[c].claimed = row[c].claimed
      BY <1>0, <2>1 DEF Row
    <2> QED  BY <1>3, <2>2 DEF RowChange, Settleable
  <1> QED  BY <1>1, <1>2, <1>3 DEF SettleIdentity

LEMMA RowChanges ==
    ASSUME LedgerInv, [Next]_vars, NEW c \in Calls
    PROVE  RowChange(c)
  <1>0. TypeOK /\ row \in [Calls -> Row] /\ row[c] \in Row
    BY DEF LedgerInv, TypeOK
  <1>1. ASSUME NEW x \in Calls, CallStep(x)
        PROVE  RowChange(c)
    <2>1. CASE StartDispatch(x) \/ Begin(x)
      <3>1. Reserve(x)
        BY <2>1 DEF StartDispatch, Begin
      <3>2. PICK r \in Row : row' = [row EXCEPT ![x] = r] /\ ~r.claimed
        BY <1>1, <3>1, ReserveIsSafe
      <3> QED  BY <1>0, <3>1, <3>2 DEF RowChange, Reserve
    <2>2. CASE ClaimPrimary(x)
      <3>1. CASE x = c
        BY <2>2, <3>1 DEF RowChange
      <3>2. CASE x # c
        BY <1>0, <2>2, <3>2 DEF RowChange, ClaimPrimary
      <3> QED  BY <3>1, <3>2
    <2>3. CASE Send(x) \/ Provider(x) \/ ProcessEnds(x)
      BY <2>3 DEF RowChange, Send, Provider, ProcessEnds, ledgerVars
    <2>4. ASSUME NEW outcome, NEW tokens, Finish(x, outcome, tokens)
          PROVE  RowChange(c)
      <3>1. CASE SettleIdentity(x, outcome, tokens)
        BY <1>0, <1>1, <3>1, SettlementChanges
      <3>2. CASE UNCHANGED ledgerVars
        BY <3>2 DEF RowChange, ledgerVars
      <3> QED  BY <2>4, <3>1, <3>2 DEF Finish
    <2> QED  BY <1>1, <2>1, <2>2, <2>3, <2>4 DEF CallStep, Complete, Unknown, Refuse
  <1>2. CASE StopTurn \/ Midnight \/ UNCHANGED vars
    BY <1>2 DEF RowChange, StopTurn, Midnight, ledgerVars, vars
  <1>3. CASE EndTurn
    <2>1. \/ row'[c] = row[c]
          \/ row'[c] = [row[c] EXCEPT !.status = "unknown", !.revision = row[c].revision + 1]
      BY <1>3 DEF EndTurn
    <2> QED  BY <1>0, <2>1 DEF RowChange, Row
  <1>4. ASSUME NEW o \in Operators, Reconcile(o)
        PROVE  RowChange(c)
    <2>1. CASE UNCHANGED row
      BY <2>1 DEF RowChange
    <2>2. CASE ~UNCHANGED row
      <3> DEFINE x == correction[o].call
                 tokens == correction[o].tokens
      <3>1. PICK status :
              row' = [row EXCEPT ![x].status = status, ![x].observed = tokens,
                                 ![x].revision = @ + 1, ![x].evidence = TRUE]
        BY <1>4, <2>2 DEF Reconcile
      <3>2. CASE x = c
        <4>1. row'[c].evidence = TRUE /\ row'[c].claimed = row[c].claimed
          BY <1>0, <3>1, <3>2 DEF Row
        <4> QED  BY <4>1 DEF RowChange
      <3>3. CASE x # c
        BY <1>0, <3>1, <3>3 DEF RowChange
      <3> QED  BY <3>2, <3>3
    <2> QED  BY <2>1, <2>2
  <1>5. CASE \E o \in Operators, x \in Calls : ReadReceipt(o, x)
    BY <1>5 DEF RowChange, ReadReceipt, ledgerVars
  <1> QED  BY <1>1, <1>2, <1>3, <1>4, <1>5 DEF Next

(* Only a correction resolves what is settled or unknown.                  *)
THEOREM LateAnswersChangeNothing == Spec => OnlyEvidenceResolves
  <1>1. ASSUME LedgerInv, [Next]_vars
        PROVE  \A c \in Calls :
                 /\ row[c].status \in Final \cup {"unknown"}
                 /\ row'[c].status # "unknown"
                 /\ row'[c] # row[c]
                 => row'[c].evidence
    <2>1. \A c \in Calls : RowChange(c)
      BY <1>1, RowChanges
    <2> QED  BY <2>1 DEF RowChange, Final, ClaimPrimary
  <1> QED  BY <1>1, LedgerInvHolds, PTL DEF Spec, OnlyEvidenceResolves

(* A dispatch that was closed before it claimed its permit is never sent.  *)
THEOREM ClosedPermitIsGone == Spec => ClosedCallIsNotSent
  <1>1. ASSUME LedgerInv, [Next]_vars
        PROVE  \A c \in Primary :
                 dispatch[c] # "running" /\ ~row[c].claimed
                 => ~row'[c].claimed /\ (wire'[c] = wire[c])
    <2> SUFFICES ASSUME NEW c \in Primary, dispatch[c] # "running", ~row[c].claimed
                 PROVE  ~row'[c].claimed /\ (wire'[c] = wire[c])
      OBVIOUS
    <2>0. /\ c \in Calls
          /\ TypeOK
          /\ CallOK(c)
          /\ Agrees(c)
      BY <1>1, LedgerConstants, CallFacts
    <2>1. ~ClaimPrimary(c)
      BY <1>1, <2>0 DEF ClaimPrimary, Agrees, CallOK, Final
    <2>2. ~row'[c].claimed
      BY <1>1, <2>0, <2>1, RowChanges DEF RowChange
    <2>3. ~Send(c) /\ ~Provider(c)
      BY <1>1, <2>0 DEF Send, Provider, CallOK
    <2>4. wire'[c] = wire[c]
      <3>1. \/ UNCHANGED wire
            \/ \E x \in Calls : Send(x) \/ Provider(x)
        BY <1>1 DEF Next, vars, CallStep, StartDispatch, Begin, ClaimPrimary, Complete,
             Unknown, Refuse, Finish, ProcessEnds, StopTurn, EndTurn, Midnight,
             Reconcile, ReadReceipt
      <3> QED  BY <2>0, <2>3, <3>1 DEF Send, Provider, TypeOK
    <2> QED  BY <2>2, <2>4
  <1> QED  BY <1>1, LedgerInvHolds, PTL DEF Spec, ClosedCallIsNotSent

-----------------------------------------------------------------------------
(* Sums over finite sets.                                                  *)

(* Sum is the sum of f over every subset of S, whatever element is taken   *)
(* out first.                                                              *)
SumsOf(f, S, sum) ==
    /\ sum \in [SUBSET S -> Int]
    /\ sum[{}] = 0
    /\ \A T \in SUBSET S : \A x \in T : sum[T] = f[x] + sum[T \ {x}]

(* Induction over the subsets of a finite set, first-order: what holds of  *)
(* a subset once it holds of the smaller ones holds of them all.           *)
LEMMA NoSmallestFailure ==
    ASSUME NEW S, IsFiniteSet(S), NEW Good \in SUBSET SUBSET S,
           \A T \in SUBSET S : (\A U \in SUBSET T : U # T => U \in Good) => T \in Good
    PROVE  Good = SUBSET S
  <1> DEFINE bad == (SUBSET S) \ Good
  <1>1. SUFFICES ASSUME bad # {} PROVE FALSE
    OBVIOUS
  <1>2. IsWellFoundedOn(StrictSubsetOrdering(S), SUBSET S)
    BY FS_StrictSubsetOrderingWellFounded, FS_FiniteSubsetsOfFinite, Zenon
  <1>3. PICK T \in bad : \A U \in bad : ~(<<U, T>> \in StrictSubsetOrdering(S))
    <2> HIDE DEF bad
    <2>1. bad \subseteq SUBSET S
      BY DEF bad
    <2> QED  BY <1>1, <1>2, <2>1, WFMin, SMT
  <1>4. ASSUME NEW U \in SUBSET T, U # T
        PROVE  U \in Good
    BY <1>3, <1>4 DEF StrictSubsetOrdering
  <1> QED  BY <1>3, <1>4

(* There are such sums: an element added to the set adds its value to the  *)
(* sums of the subsets it joins.                                           *)
LEMMA SumsExist ==
    ASSUME NEW S, IsFiniteSet(S), NEW f, \A x \in S : f[x] \in Int
    PROVE  \E sum : SumsOf(f, S, sum)
  <1> DEFINE good == {T \in SUBSET S : \E sum : SumsOf(f, T, sum)}
  <1>1. ASSUME NEW T \in SUBSET S, \A U \in SUBSET T : U # T => U \in good
        PROVE  T \in good
    <2>1. CASE T = {}
      <3>1. SumsOf(f, {}, [U \in SUBSET {} |-> 0])
        BY DEF SumsOf
      <3> QED  BY <2>1, <3>1
    <2>2. CASE T # {}
      <3>1. PICK a \in T : TRUE
        BY <2>2
      <3> DEFINE R == T \ {a}
      <3>2. R \in good
        BY <1>1, <3>1
      <3>3. PICK sum : SumsOf(f, R, sum)
        BY <3>2
      <3> DEFINE more == [U \in SUBSET T |-> IF a \in U THEN f[a] + sum[U \ {a}] ELSE sum[U]]
      <3>4. f[a] \in Int
        BY <1>1, <3>1
      <3>5. /\ sum \in [SUBSET R -> Int]
            /\ sum[{}] = 0
            /\ \A U \in SUBSET R : \A x \in U : sum[U] = f[x] + sum[U \ {x}]
        BY <3>3 DEF SumsOf
      <3>6. ASSUME NEW U \in SUBSET T
            PROVE  /\ U \ {a} \in SUBSET R
                   /\ sum[U \ {a}] \in Int
                   /\ a \in U => more[U] = f[a] + sum[U \ {a}]
                   /\ a \notin U => more[U] = sum[U \ {a}]
        <4>1. U \ {a} \in SUBSET R
          OBVIOUS
        <4>2. a \notin U => U \ {a} = U
          OBVIOUS
        <4> QED  BY <3>5, <4>1, <4>2
      <3>7. more \in [SUBSET T -> Int]
        <4>1. ASSUME NEW U \in SUBSET T PROVE more[U] \in Int
          <5> HIDE DEF more
          <5>1. sum[U \ {a}] \in Int
            BY <3>6
          <5>2. CASE a \in U
            BY <3>4, <3>6, <5>1, <5>2
          <5>3. CASE a \notin U
            BY <3>6, <5>1, <5>3
          <5> QED  BY <5>2, <5>3
        <4>2. more = [U \in SUBSET T |-> more[U]]
          OBVIOUS
        <4> HIDE DEF more
        <4> QED  BY <4>1, <4>2
      <3>8. more[{}] = 0
        BY <3>5
      <3>9. ASSUME NEW U \in SUBSET T, NEW x \in U
            PROVE  more[U] = f[x] + more[U \ {x}]
        <4>0. f[x] \in Int
          BY <1>1
        <4>1. CASE x = a
          <5>1. more[U] = f[a] + sum[U \ {a}]
            BY <3>6, <4>1
          <5>2. more[U \ {x}] = sum[(U \ {x}) \ {a}] /\ (U \ {x}) \ {a} = U \ {a}
            <6>1. U \ {x} \in SUBSET T /\ a \notin U \ {x} /\ (U \ {x}) \ {a} = U \ {a}
              BY <4>1
            <6> HIDE DEF more
            <6> QED  BY <3>6, <6>1
          <5> QED  BY <4>1, <5>1, <5>2
        <4>2. CASE x # a
          <5> DEFINE V == U \ {a}
          <5>1. /\ V \in SUBSET R
                /\ x \in V
                /\ sum[V] = f[x] + sum[V \ {x}]
                /\ sum[V \ {x}] \in Int
            BY <3>5, <4>2
          <5>2. U \ {x} \in SUBSET T /\ (U \ {x}) \ {a} = V \ {x}
            OBVIOUS
          <5>3. a \in U <=> a \in U \ {x}
            BY <4>2
          <5> HIDE DEF more
          <5>4. CASE a \in U
            <6>1. more[U] = f[a] + sum[V]
              BY <3>6, <5>4
            <6>2. more[U \ {x}] = f[a] + sum[V \ {x}]
              BY <3>6, <5>2, <5>3, <5>4
            <6> HIDE DEF V
            <6> QED  BY <3>4, <4>0, <5>1, <6>1, <6>2
          <5>5. CASE a \notin U
            <6>1. more[U] = sum[V]
              BY <3>6, <5>5
            <6>2. more[U \ {x}] = sum[V \ {x}]
              BY <3>6, <5>2, <5>3, <5>5
            <6> QED  BY <5>1, <6>1, <6>2
          <5> QED  BY <5>4, <5>5
        <4> QED  BY <4>1, <4>2
      <3>10. SumsOf(f, T, more)
        <4> HIDE DEF more
        <4> QED  BY <3>7, <3>8, <3>9 DEF SumsOf
      <3> HIDE DEF more
      <3> QED  BY <3>10
    <2> QED  BY <2>1, <2>2
  <1>2. good \in SUBSET SUBSET S
    OBVIOUS
  <1>3. good = SUBSET S
    <2> HIDE DEF good
    <2> QED  BY <1>1, <1>2, NoSmallestFailure
  <1>4. S \in SUBSET S
    OBVIOUS
  <1> QED  BY <1>3, <1>4

(* SumFunctionOnSet, which takes the elements out in an order nobody       *)
(* knows, computes them.                                                   *)
LEMMA SumIsAnyOrder ==
    ASSUME NEW S, IsFiniteSet(S), NEW f, NEW sum, SumsOf(f, S, sum)
    PROVE  SumFunctionOnSet(f, S) = sum[S]
  <1> DEFINE pick(T) == CHOOSE x \in T : TRUE
             IsIter(h) == h = [T \in SUBSET S |->
                                 IF T = {} THEN 0 ELSE f[pick(T)] + h[T \ {pick(T)}]]
             iter == CHOOSE h : IsIter(h)
  <1>1. SumFunctionOnSet(f, S) = iter[S]
    BY DEF SumFunctionOnSet, FoldFunctionOnSet, MapThenFoldSet
  <1>p. \A T : T # {} => pick(T) \in T
    OBVIOUS
  <1> HIDE DEF pick
  <1>2. IsIter(sum)
    <2>1. sum = [T \in SUBSET S |-> sum[T]]
      BY DEF SumsOf
    <2>2. ASSUME NEW T \in SUBSET S
          PROVE  sum[T] = IF T = {} THEN 0 ELSE f[pick(T)] + sum[T \ {pick(T)}]
      BY <1>p DEF SumsOf
    <2> QED  BY <2>1, <2>2, Zenon
  <1>3. IsIter(iter)
    <2> HIDE DEF IsIter
    <2> QED  BY <1>2
  <1>4. ASSUME NEW T \in SUBSET S
        PROVE  iter[T] = IF T = {} THEN 0 ELSE f[pick(T)] + iter[T \ {pick(T)}]
    <2>1. iter = [U \in SUBSET S |-> IF U = {} THEN 0 ELSE f[pick(U)] + iter[U \ {pick(U)}]]
      BY <1>3
    <2> HIDE DEF iter
    <2> QED  BY <2>1
  <1> HIDE DEF iter
  <1> DEFINE good == {T \in SUBSET S : iter[T] = sum[T]}
  <1>5. ASSUME NEW T \in SUBSET S, \A U \in SUBSET T : U # T => U \in good
        PROVE  T \in good
    <2>1. CASE T = {}
      BY <1>4, <2>1 DEF SumsOf
    <2>2. CASE T # {}
      <3>1. pick(T) \in T
        BY <1>p, <2>2
      <3>2. iter[T \ {pick(T)}] = sum[T \ {pick(T)}]
        BY <1>5, <3>1
      <3> QED  BY <1>4, <2>2, <3>1, <3>2 DEF SumsOf
    <2> QED  BY <2>1, <2>2
  <1>6. good \in SUBSET SUBSET S
    OBVIOUS
  <1>7. good = SUBSET S
    <2> HIDE DEF good
    <2> QED  BY <1>5, <1>6, NoSmallestFailure
  <1> QED  BY <1>1, <1>7

(* So a sum of integers is an integer,                                     *)
LEMMA SumOfInt ==
    ASSUME NEW S, IsFiniteSet(S), NEW f, \A x \in S : f[x] \in Int
    PROVE  SumFunctionOnSet(f, S) \in Int
  <1>1. PICK sum : SumsOf(f, S, sum)
    BY SumsExist
  <1>2. sum[S] \in Int
    BY <1>1 DEF SumsOf
  <1> QED  BY <1>1, <1>2, SumIsAnyOrder

(* the sum of nothing is 0,                                                *)
LEMMA SumOfNone ==
    ASSUME NEW f
    PROVE  SumFunctionOnSet(f, {}) = 0
  <1>1. IsFiniteSet({})
    BY FS_EmptySet
  <1>2. PICK sum : SumsOf(f, {}, sum)
    BY <1>1, SumsExist
  <1> QED  BY <1>1, <1>2, SumIsAnyOrder DEF SumsOf

(* any element can be taken out first,                                     *)
LEMMA SumTakesOut ==
    ASSUME NEW S, IsFiniteSet(S), NEW f, \A x \in S : f[x] \in Int, NEW x \in S
    PROVE  SumFunctionOnSet(f, S) = f[x] + SumFunctionOnSet(f, S \ {x})
  <1> DEFINE T == S \ {x}
             rest(sum) == [U \in SUBSET T |-> sum[U]]
  <1>1. PICK sum : SumsOf(f, S, sum)
    BY SumsExist
  <1>2. SumsOf(f, T, rest(sum))
    <2>1. /\ sum \in [SUBSET S -> Int]
          /\ sum[{}] = 0
          /\ \A U \in SUBSET S : \A y \in U : sum[U] = f[y] + sum[U \ {y}]
      BY <1>1 DEF SumsOf
    <2>2. rest(sum) \in [SUBSET T -> Int]
      BY <2>1
    <2>3. rest(sum)[{}] = 0
      BY <2>1
    <2>4. ASSUME NEW U \in SUBSET T, NEW y \in U
          PROVE  rest(sum)[U] = f[y] + rest(sum)[U \ {y}]
      BY <2>1
    <2> HIDE DEF rest, T
    <2> QED  BY <2>2, <2>3, <2>4 DEF SumsOf
  <1>3. IsFiniteSet(T)
    BY FS_RemoveElement
  <1>4. SumFunctionOnSet(f, T) = sum[T]
    <2>1. SumFunctionOnSet(f, T) = rest(sum)[T]
      <3> HIDE DEF T, rest
      <3> QED  BY <1>2, <1>3, SumIsAnyOrder
    <2> QED  BY <2>1
  <1>5. SumFunctionOnSet(f, S) = sum[S]
    BY <1>1, SumIsAnyOrder
  <1>6. sum[S] = f[x] + sum[T]
    BY <1>1 DEF SumsOf
  <1> QED  BY <1>4, <1>5, <1>6

(* and only the values on the set matter.                                  *)
LEMMA SumsAgree ==
    ASSUME NEW S, IsFiniteSet(S), NEW f, NEW h,
           \A x \in S : f[x] \in Int /\ h[x] = f[x]
    PROVE  SumFunctionOnSet(h, S) = SumFunctionOnSet(f, S)
  <1>1. PICK sum : SumsOf(f, S, sum)
    BY SumsExist
  <1>2. SumsOf(h, S, sum)
    BY <1>1 DEF SumsOf
  <1> QED  BY <1>1, <1>2, SumIsAnyOrder

(* What c contributes to the sum of f over S.                              *)
Share(f, S, c) == IF c \in S THEN f[c] ELSE 0

(* A sum and the share of one element in it.                               *)
LEMMA SumWithout ==
    ASSUME NEW S, IsFiniteSet(S), NEW f, \A x \in S : f[x] \in Int, NEW c
    PROVE  SumFunctionOnSet(f, S) =
             SumFunctionOnSet(f, S \ {c}) + Share(f, S, c)
  <1>1. CASE c \in S
    <2>1. IsFiniteSet(S \ {c})
      BY FS_RemoveElement
    <2>2. SumFunctionOnSet(f, S \ {c}) \in Int
      BY <2>1, SumOfInt
    <2>3. SumFunctionOnSet(f, S) = f[c] + SumFunctionOnSet(f, S \ {c})
      BY <1>1, SumTakesOut
    <2> QED  BY <1>1, <2>2, <2>3 DEF Share
  <1>2. CASE c \notin S
    <2>1. SumFunctionOnSet(f, S \ {c}) = SumFunctionOnSet(f, S)
      <3>1. S \ {c} = S
        BY <1>2
      <3> QED  BY <3>1, Zenon
    <2>2. SumFunctionOnSet(f, S) \in Int
      BY SumOfInt
    <2> QED  BY <1>2, <2>1, <2>2 DEF Share
  <1> QED  BY <1>1, <1>2

(* Sums that differ by one element, which may come, go or change its       *)
(* value.                                                                  *)
LEMMA SumMoves ==
    ASSUME NEW S, IsFiniteSet(S), NEW f, \A x \in S : f[x] \in Int,
           NEW T, IsFiniteSet(T), NEW h, \A x \in T : h[x] \in Int,
           NEW c, S \ {c} = T \ {c}, \A x \in S \ {c} : h[x] = f[x]
    PROVE  SumFunctionOnSet(h, T) = SumFunctionOnSet(f, S)
             - Share(f, S, c) + Share(h, T, c)
  <1> DEFINE rest == SumFunctionOnSet(f, S \ {c})
  <1>1. IsFiniteSet(S \ {c})
    BY FS_RemoveElement
  <1>2. SumFunctionOnSet(h, T \ {c}) = rest
    <2>1. SumFunctionOnSet(h, S \ {c}) = rest
      BY <1>1, SumsAgree
    <2> QED  BY <2>1
  <1>3. rest \in Int
    BY <1>1, SumOfInt
  <1>4. SumFunctionOnSet(f, S) = rest + Share(f, S, c)
    BY SumWithout, Zenon
  <1>5. SumFunctionOnSet(h, T) = rest + Share(h, T, c)
    <2>1. SumFunctionOnSet(h, T) = SumFunctionOnSet(h, T \ {c}) + Share(h, T, c)
      BY SumWithout, Zenon
    <2> QED  BY <1>2, <2>1, Zenon
  <1>6. Share(f, S, c) \in Int /\ Share(h, T, c) \in Int
    BY DEF Share
  <1> HIDE DEF rest
  <1> QED  BY <1>3, <1>4, <1>5, <1>6

(* The sum over a set is that over a part of it and that over the rest.    *)
LEMMA SumSplits ==
    ASSUME NEW S, IsFiniteSet(S), NEW f, \A x \in S : f[x] \in Int, NEW T \in SUBSET S
    PROVE  SumFunctionOnSet(f, S) = SumFunctionOnSet(f, T) + SumFunctionOnSet(f, S \ T)
  <1> DEFINE good == {U \in SUBSET T : SumFunctionOnSet(f, U \cup (S \ T)) =
                        SumFunctionOnSet(f, U) + SumFunctionOnSet(f, S \ T)}
  <1>0. IsFiniteSet(T) /\ IsFiniteSet(S \ T) /\ \A U \in SUBSET S : IsFiniteSet(U)
    BY FS_Subset
  <1>1. ASSUME NEW U \in SUBSET T, \A V \in SUBSET U : V # U => V \in good
        PROVE  U \in good
    <2>1. CASE U = {}
      <3>1. U \cup (S \ T) = S \ T
        BY <2>1
      <3>2. SumFunctionOnSet(f, U) = 0
        BY <2>1, SumOfNone
      <3>3. SumFunctionOnSet(f, S \ T) \in Int
        BY <1>0, SumOfInt
      <3> QED  BY <3>1, <3>2, <3>3
    <2>2. CASE U # {}
      <3>1. PICK a \in U : TRUE
        BY <2>2
      <3>2. U \ {a} \in good
        BY <1>1, <3>1
      <3>3. SumFunctionOnSet(f, U) = f[a] + SumFunctionOnSet(f, U \ {a})
        BY <1>0, SumTakesOut
      <3>4. (U \cup (S \ T)) \ {a} = (U \ {a}) \cup (S \ T) /\ U \cup (S \ T) \in SUBSET S
        BY <3>1
      <3>5. SumFunctionOnSet(f, U \cup (S \ T)) = f[a] + SumFunctionOnSet(f, (U \ {a}) \cup (S \ T))
        <4>1. IsFiniteSet(U \cup (S \ T)) /\ (\A x \in U \cup (S \ T) : f[x] \in Int) /\ a \in U \cup (S \ T)
          BY <1>0, <3>4
        <4> QED  BY <3>4, <4>1, SumTakesOut
      <3>6. /\ f[a] \in Int
            /\ SumFunctionOnSet(f, U \ {a}) \in Int
            /\ SumFunctionOnSet(f, S \ T) \in Int
        BY <1>0, SumOfInt
      <3>7. SumFunctionOnSet(f, (U \ {a}) \cup (S \ T)) =
              SumFunctionOnSet(f, U \ {a}) + SumFunctionOnSet(f, S \ T)
        BY <3>2
      <3> QED  BY <3>3, <3>5, <3>6, <3>7
    <2> QED  BY <2>1, <2>2
  <1>2. good \in SUBSET SUBSET T
    OBVIOUS
  <1>3. good = SUBSET T
    <2> HIDE DEF good
    <2> QED  BY <1>0, <1>1, <1>2, NoSmallestFailure
  <1>4. T \cup (S \ T) = S /\ T \in SUBSET T
    OBVIOUS
  <1> QED  BY <1>3, <1>4

(* Greater values have a greater sum.                                      *)
LEMMA SumIsMonotone ==
    ASSUME NEW S, IsFiniteSet(S), NEW f, NEW h,
           \A x \in S : f[x] \in Int /\ h[x] \in Int /\ f[x] <= h[x]
    PROVE  SumFunctionOnSet(f, S) <= SumFunctionOnSet(h, S)
  <1> DEFINE good == {T \in SUBSET S : SumFunctionOnSet(f, T) <= SumFunctionOnSet(h, T)}
  <1>0. \A T \in SUBSET S : IsFiniteSet(T)
    BY FS_Subset
  <1>1. ASSUME NEW T \in SUBSET S, \A U \in SUBSET T : U # T => U \in good
        PROVE  T \in good
    <2>1. CASE T = {}
      BY <2>1, SumOfNone
    <2>2. CASE T # {}
      <3>1. PICK a \in T : TRUE
        BY <2>2
      <3>2. SumFunctionOnSet(f, T \ {a}) <= SumFunctionOnSet(h, T \ {a})
        BY <1>1, <3>1
      <3>3. /\ SumFunctionOnSet(f, T) = f[a] + SumFunctionOnSet(f, T \ {a})
            /\ SumFunctionOnSet(h, T) = h[a] + SumFunctionOnSet(h, T \ {a})
        BY <1>0, SumTakesOut
      <3>4. SumFunctionOnSet(f, T \ {a}) \in Int /\ SumFunctionOnSet(h, T \ {a}) \in Int
        BY <1>0, SumOfInt
      <3> QED  BY <3>2, <3>3, <3>4
    <2> QED  BY <2>1, <2>2
  <1>2. good \in SUBSET SUBSET S
    OBVIOUS
  <1>3. good = SUBSET S
    <2> HIDE DEF good
    <2> QED  BY <1>1, <1>2, NoSmallestFailure
  <1>4. S \in SUBSET S
    OBVIOUS
  <1> QED  BY <1>3, <1>4

-----------------------------------------------------------------------------
(* What a receipt accounts for in the counters of its window.              *)
HeldBy(r) == IF r.status \in Unresolved THEN r.reserved ELSE 0
UsedBy(r) == IF r.status \in Final THEN r.observed ELSE 0

(* The receipt of c becomes r, of the same day, and what this changes is   *)
(* booked in the window of that day.                                       *)
Booked(c, r) ==
    /\ r \in Row
    /\ r.status # "absent"
    /\ row[c].status # "absent" => row[c].day = r.day
    /\ row' = [row EXCEPT ![c] = r]
    /\ Book(r.day, IF row[c].status = "absent" THEN 1 ELSE 0,
            HeldBy(r) - HeldBy(row[c]), UsedBy(r) - UsedBy(row[c]))

(* A settlement changes nothing or is booked: what a later one finds on    *)
(* the receipt is what an earlier one has left in the window.              *)
LEMMA SettlementIsBooked ==
    ASSUME TypeOK, NEW c \in Calls, row[c].status # "absent",
           NEW outcome \in {"completed", "rejected", "unknown"},
           NEW tokens \in Nat \cup {Unmeasured},
           SettleIdentity(c, outcome, tokens)
    PROVE  UNCHANGED <<window, row>> \/ \E r : Booked(c, r)
  <1>0. /\ row[c] \in Row
        /\ row \in [Calls -> Row]
    BY DEF TypeOK
  <1>1. /\ row[c].day \in Days
        /\ row[c].reserved \in Nat
        /\ row[c].observed \in Nat
        /\ row[c].revision \in Nat
        /\ row[c].claimed \in BOOLEAN
        /\ row[c].evidence \in BOOLEAN
    BY <1>0 DEF Row
  <1>2. CASE Settleable(c, outcome) /\ outcome = "unknown"
    <2>0. row[c].status \in Unresolved
      BY <1>2 DEF Settleable, Unresolved
    <2>1. PICK kept, seen :
            /\ kept = IF tokens > row[c].reserved THEN tokens ELSE row[c].reserved
            /\ seen = IF tokens > row[c].observed THEN tokens ELSE row[c].observed
            /\ Book(row[c].day, 0, kept - row[c].reserved, 0)
            /\ row' = [row EXCEPT ![c].status = "unknown", ![c].reserved = kept,
                                  ![c].observed = seen, ![c].revision = @ + 1]
      BY <1>2 DEF SettleIdentity, Hold
    <2>2. kept \in Nat /\ seen \in Nat
      BY <1>1, <2>1 DEF Unmeasured
    <2> DEFINE r == [status |-> "unknown", day |-> row[c].day, reserved |-> kept,
                     observed |-> seen, claimed |-> row[c].claimed,
                     revision |-> row[c].revision + 1, evidence |-> row[c].evidence]
    <2>3. row' = [row EXCEPT ![c] = r]
      BY <1>0, <2>1 DEF Row
    <2>4. r \in Row
      BY <1>1, <2>2 DEF Row, Unresolved
    <2>5. /\ HeldBy(r) - HeldBy(row[c]) = kept - row[c].reserved
          /\ UsedBy(r) - UsedBy(row[c]) = 0
      BY <2>0 DEF HeldBy, UsedBy, Unresolved, Final
    <2>6. r.day = row[c].day /\ r.status # "absent"
      OBVIOUS
    <2> HIDE DEF r
    <2> QED  BY <2>0, <2>1, <2>3, <2>4, <2>5, <2>6 DEF Booked, Unresolved
  <1>3. CASE Settleable(c, outcome) /\ outcome # "unknown"
    <2>0. row[c].status = "reserved"
      BY <1>3 DEF Settleable
    <2>1. PICK amount, verdict :
            /\ amount = Amount(c, outcome, tokens)
            /\ verdict = Verdict(outcome, tokens)
            /\ Book(row[c].day, 0, -row[c].reserved, amount)
            /\ row' = [row EXCEPT ![c].status = verdict, ![c].observed = amount,
                                  ![c].revision = @ + 1, ![c].evidence = FALSE]
      BY <1>3 DEF SettleIdentity, Charge, Release
    <2>2. amount \in Nat
      BY <1>1, <2>1 DEF Amount, Unmeasured
    <2>3. verdict \in Final
      BY <2>1 DEF Verdict, Final
    <2> DEFINE r == [status |-> verdict, day |-> row[c].day, reserved |-> row[c].reserved,
                     observed |-> amount, claimed |-> row[c].claimed,
                     revision |-> row[c].revision + 1, evidence |-> FALSE]
    <2>4. row' = [row EXCEPT ![c] = r]
      BY <1>0, <2>1 DEF Row
    <2>5. r \in Row
      BY <1>1, <2>2, <2>3 DEF Row
    <2>6. /\ HeldBy(r) - HeldBy(row[c]) = -row[c].reserved
          /\ UsedBy(r) - UsedBy(row[c]) = amount
      BY <1>1, <2>0, <2>2, <2>3 DEF HeldBy, UsedBy, Unresolved, Final
    <2>7. r.day = row[c].day /\ r.status # "absent"
      BY <2>3 DEF Final
    <2> HIDE DEF r
    <2> QED  BY <2>0, <2>1, <2>4, <2>5, <2>6, <2>7 DEF Booked
  <1> QED  BY <1>2, <1>3 DEF SettleIdentity

(* So is an admission,                                                     *)
LEMMA ReserveIsBooked ==
    ASSUME LedgerInv, NEW c \in Calls, Reserve(c)
    PROVE  \E r : Booked(c, r)
  <1>0. today \in Days /\ Allowance[c] \in Nat \ {0}
    BY LedgerConstants DEF LedgerInv, TypeOK
  <1> DEFINE r == [NoRow EXCEPT !.status = "reserved", !.day = today,
                                !.reserved = Allowance[c]]
  <1>1. row' = [row EXCEPT ![c] = r] /\ row[c].status = "absent"
    BY DEF Reserve
  <1>2. r \in Row /\ r.status = "reserved" /\ r.day = today /\ r.reserved = Allowance[c]
    BY <1>0 DEF NoRow, Row, Unresolved
  <1> HIDE DEF r
  <1>3. /\ HeldBy(r) - HeldBy(row[c]) = Allowance[c]
        /\ UsedBy(r) - UsedBy(row[c]) = 0
    BY <1>0, <1>1, <1>2 DEF HeldBy, UsedBy, Unresolved, Final
  <1>4. Book(today, 1, Allowance[c], 0)
    BY DEF Reserve
  <1> QED  BY <1>1, <1>2, <1>3, <1>4 DEF Booked

(* and a correction.                                                       *)
LEMMA ReconcileIsBooked ==
    ASSUME LedgerInv, NEW o \in Operators, Reconcile(o)
    PROVE  /\ correction[o].call \in Calls
           /\ UNCHANGED <<window, row>> \/ \E r : Booked(correction[o].call, r)
  <1> DEFINE c == correction[o].call
             tokens == correction[o].tokens
  <1>0. /\ c \in Calls
        /\ row[c].status # "absent"
        /\ tokens \in Nat
    BY DEF LedgerInv, TypeOK, Correction, CorrectionOK, Reconcile
  <1>1. /\ row \in [Calls -> Row]
        /\ row[c] \in Row
    BY <1>0 DEF LedgerInv, TypeOK
  <1>2. CASE ~UNCHANGED <<window, row>>
    <2>1. /\ Reclaim(c, tokens)
          /\ row' = [row EXCEPT ![c].status = IF tokens = 0 THEN "rejected" ELSE "settled",
                                ![c].observed = tokens, ![c].revision = @ + 1,
                                ![c].evidence = TRUE]
      BY <1>2 DEF Reconcile
    <2> HIDE DEF c, tokens
    <2>2. PICK status :
            /\ status = IF tokens = 0 THEN "rejected" ELSE "settled"
            /\ row' = [row EXCEPT ![c].status = status, ![c].observed = tokens,
                                  ![c].revision = @ + 1, ![c].evidence = TRUE]
      BY <2>1
    <2>3. status \in Final
      BY <2>2 DEF Final
    <2>4. /\ row[c].day \in Days
          /\ row[c].reserved \in Nat
          /\ row[c].observed \in Nat
          /\ row[c].revision \in Nat
          /\ row[c].claimed \in BOOLEAN
          /\ row[c].status \in {"absent"} \cup Unresolved \cup Final
      BY <1>1 DEF Row
    <2> DEFINE r == [status |-> status, day |-> row[c].day, reserved |-> row[c].reserved,
                     observed |-> tokens, claimed |-> row[c].claimed,
                     revision |-> row[c].revision + 1, evidence |-> TRUE]
    <2>5. row' = [row EXCEPT ![c] = r]
      BY <1>0, <1>1, <2>2 DEF Row
    <2>6. r \in Row
      BY <1>0, <2>3, <2>4 DEF Row
    <2>7. r.day = row[c].day /\ r.status \in Final /\ r.observed = tokens
      BY <2>3
    <2> HIDE DEF r
    <2>8. HeldBy(r) = 0 /\ UsedBy(r) = tokens
      BY <2>7 DEF HeldBy, UsedBy, Unresolved, Final
    <2>9. Book(row[c].day, 0, HeldBy(r) - HeldBy(row[c]), UsedBy(r) - UsedBy(row[c]))
      <3>1. CASE row[c].status \in Unresolved
        <4>1. Book(row[c].day, 0, -row[c].reserved, tokens)
          BY <2>1, <3>1 DEF Reclaim, Release
        <4>2. HeldBy(row[c]) = row[c].reserved /\ UsedBy(row[c]) = 0
          BY <3>1 DEF HeldBy, UsedBy, Unresolved, Final
        <4>3. 0 - row[c].reserved = -row[c].reserved /\ tokens - 0 = tokens
          BY <1>0, <2>4
        <4> QED  BY <2>8, <4>1, <4>2, <4>3
      <3>2. CASE row[c].status \notin Unresolved
        <4>1. Book(row[c].day, 0, 0, tokens - row[c].observed)
          BY <2>1, <3>2 DEF Reclaim
        <4>2. HeldBy(row[c]) = 0 /\ UsedBy(row[c]) = row[c].observed
          BY <1>0, <2>4, <3>2 DEF HeldBy, UsedBy
        <4> QED  BY <2>8, <4>1, <4>2
      <3> QED  BY <3>1, <3>2
    <2>10. Booked(c, r)
      BY <1>0, <2>5, <2>6, <2>7, <2>9 DEF Booked, Final
    <2>11. \E x : Booked(c, x)
      BY <2>10, Zenon
    <2> QED  BY <1>0, <2>11, Zenon DEF c
  <1> QED  BY <1>0, <1>2

(* A booked change of one receipt keeps the sums.                          *)
LEMMA BookingKeepsBalance ==
    ASSUME TypeOK, Balanced, NEW c \in Calls, NEW r, Booked(c, r)
    PROVE  Balanced'
  <1> DEFINE reserved == [x \in Calls |-> row[x].reserved]
             observed == [x \in Calls |-> row[x].observed]
             reserved1 == [x \in Calls |-> row'[x].reserved]
             observed1 == [x \in Calls |-> row'[x].observed]
             old == IF row[c].status = "absent" THEN 1 ELSE 0
             held == HeldBy(r) - HeldBy(row[c])
             used == UsedBy(r) - UsedBy(row[c])
             d0 == r.day
  <1>0. /\ row \in [Calls -> Row]
        /\ row[c] \in Row
        /\ r \in Row
        /\ row' \in [Calls -> Row]
        /\ row'[c] = r
        /\ \A x \in Calls \ {c} : row'[x] = row[x]
        /\ window \in [Days -> Window]
        /\ IsFiniteSet(Calls)
    BY LedgerConstants DEF TypeOK, Booked
  <1>1. /\ d0 \in Days
        /\ r.reserved \in Nat
        /\ r.observed \in Nat
        /\ row[c].reserved \in Nat
        /\ row[c].observed \in Nat
        /\ r.status \in Unresolved \cup Final
        /\ row[c].status \in {"absent"} \cup Unresolved \cup Final
        /\ row[c].status # "absent" => row[c].day = d0
    BY <1>0 DEF Row, Booked
  <1>2. window' = [window EXCEPT ![d0] = [admitted |-> window[d0].admitted + old,
                                         reserved |-> window[d0].reserved + held,
                                         used |-> window[d0].used + used]]
    BY DEF Booked, Book
  <1>3. /\ \A x \in Calls : reserved[x] \in Int /\ observed[x] \in Int
        /\ \A x \in Calls : reserved1[x] \in Int /\ observed1[x] \in Int
        /\ \A x \in Calls \ {c} : reserved1[x] = reserved[x] /\ observed1[x] = observed[x]
        /\ reserved[c] = row[c].reserved /\ reserved1[c] = r.reserved
        /\ observed[c] = row[c].observed /\ observed1[c] = r.observed
    BY <1>0 DEF Row
  <1> HIDE DEF reserved, observed, reserved1, observed1, old, held, used, d0
  <1>4. ASSUME NEW d \in Days
        PROVE  /\ window'[d].admitted = Cardinality(AdmittedOn(d)')
               /\ window'[d].reserved = SumFunctionOnSet(reserved1, UnresolvedOn(d)')
               /\ window'[d].used =
                    SumFunctionOnSet(observed1, AdmittedOn(d)' \ UnresolvedOn(d)')
    <2> DEFINE A == AdmittedOn(d)
               A1 == AdmittedOn(d)'
               U == UnresolvedOn(d)
               U1 == UnresolvedOn(d)'
    <2>0. /\ A \subseteq Calls /\ U \subseteq Calls
          /\ A1 \subseteq Calls /\ U1 \subseteq Calls
          /\ IsFiniteSet(A) /\ IsFiniteSet(A \ U) /\ IsFiniteSet(U)
          /\ IsFiniteSet(A1 \ U1) /\ IsFiniteSet(U1)
      <3>1. /\ A \subseteq Calls /\ U \subseteq Calls
            /\ A1 \subseteq Calls /\ U1 \subseteq Calls
        BY DEF AdmittedOn, UnresolvedOn
      <3>2. \A S \in SUBSET Calls : IsFiniteSet(S)
        BY <1>0, FS_Subset
      <3> QED  BY <3>1, <3>2
    <2>1. /\ window[d].admitted = Cardinality(A)
          /\ window[d].reserved = SumFunctionOnSet(reserved, U)
          /\ window[d].used = SumFunctionOnSet(observed, A \ U)
      BY DEF Balanced, reserved, observed
    <2>2. A \ {c} = A1 \ {c} /\ U \ {c} = U1 \ {c}
      BY <1>0 DEF AdmittedOn, UnresolvedOn
    <2>3. /\ c \in A1 <=> d = d0
          /\ c \in U1 <=> d = d0 /\ r.status \in Unresolved
          /\ c \in A <=> row[c].status # "absent" /\ d = d0
          /\ c \in U <=> row[c].status \in Unresolved /\ d = d0
      BY <1>0, <1>1 DEF AdmittedOn, UnresolvedOn, Unresolved, Final, d0, Booked
    <2>4. /\ window[d].admitted \in Nat
          /\ window[d].reserved \in Int
          /\ window[d].used \in Int
      BY <1>0 DEF Window
    <2>m. /\ SumFunctionOnSet(reserved1, U1) = SumFunctionOnSet(reserved, U)
               - Share(reserved, U, c) + Share(reserved1, U1, c)
          /\ SumFunctionOnSet(observed1, A1 \ U1) = SumFunctionOnSet(observed, A \ U)
               - Share(observed, A \ U, c) + Share(observed1, A1 \ U1, c)
      <3> HIDE DEF A, A1, U, U1
      <3>1. (A \ U) \ {c} = (A1 \ U1) \ {c}
        BY <2>2
      <3> QED  BY <1>3, <2>0, <2>2, <3>1, SumMoves
    <2> HIDE DEF A, A1, U, U1
    <2>5. CASE d = d0
      <3>1. /\ window'[d].admitted = window[d].admitted + old
            /\ window'[d].reserved = window[d].reserved + held
            /\ window'[d].used = window[d].used + used
        BY <1>0, <1>2, <2>5
      <3>2. Cardinality(A1) = Cardinality(A) + old
        <4>1. A1 = A \cup {c}
          BY <2>2, <2>3, <2>5
        <4>2. Cardinality(A \cup {c}) = IF c \in A THEN Cardinality(A) ELSE Cardinality(A) + 1
          BY <2>0, FS_AddElement
        <4>3. c \in A <=> row[c].status # "absent"
          BY <2>3, <2>5
        <4> QED  BY <2>1, <2>4, <4>1, <4>2, <4>3 DEF old
      <3>3. Share(reserved1, U1, c) - Share(reserved, U, c) = held
        BY <1>1, <1>3, <2>3, <2>5 DEF Share, held, HeldBy
      <3>4. Share(observed1, A1 \ U1, c) - Share(observed, A \ U, c) = used
        <4>1. Share(observed1, A1 \ U1, c) = UsedBy(r)
          BY <1>1, <1>3, <2>3, <2>5 DEF Share, UsedBy, Unresolved, Final
        <4>2. Share(observed, A \ U, c) = UsedBy(row[c])
          BY <1>1, <1>3, <2>3, <2>5 DEF Share, UsedBy, Unresolved, Final
        <4> QED  BY <4>1, <4>2 DEF used
      <3>5. /\ Share(reserved1, U1, c) \in Int /\ Share(reserved, U, c) \in Int
            /\ Share(observed1, A1 \ U1, c) \in Int /\ Share(observed, A \ U, c) \in Int
        BY <1>1, <1>3 DEF Share
      <3> QED  BY <2>1, <2>4, <2>m, <3>1, <3>2, <3>3, <3>4, <3>5 DEF A1, U1
    <2>6. CASE d # d0
      <3>1. window'[d] = window[d]
        BY <1>0, <1>2, <2>6
      <3>2. c \notin A /\ c \notin A1 /\ c \notin U /\ c \notin U1
        BY <2>3, <2>6
      <3>3. A1 = A
        BY <2>2, <3>2
      <3>4. /\ Share(reserved1, U1, c) = 0 /\ Share(reserved, U, c) = 0
            /\ Share(observed1, A1 \ U1, c) = 0 /\ Share(observed, A \ U, c) = 0
        BY <3>2 DEF Share
      <3> QED  BY <2>1, <2>4, <2>m, <3>1, <3>3, <3>4 DEF A1, U1
    <2> QED  BY <2>5, <2>6
  <1> QED  BY <1>4 DEF Balanced, reserved1, observed1

(* So does a change that touches nothing of what the sums are over.        *)
LEMMA BalanceStays ==
    ASSUME TypeOK, Balanced, UNCHANGED window,
           \A c \in Calls :
             /\ row'[c].status = "absent" <=> row[c].status = "absent"
             /\ row'[c].status \in Unresolved <=> row[c].status \in Unresolved
             /\ row'[c].day = row[c].day
             /\ row'[c].reserved = row[c].reserved
             /\ row'[c].observed = row[c].observed
    PROVE  Balanced'
  <1>1. ASSUME NEW d \in Days
        PROVE  AdmittedOn(d)' = AdmittedOn(d) /\ UnresolvedOn(d)' = UnresolvedOn(d)
    BY DEF AdmittedOn, UnresolvedOn
  <1>2. /\ [c \in Calls |-> row'[c].reserved] = [c \in Calls |-> row[c].reserved]
        /\ [c \in Calls |-> row'[c].observed] = [c \in Calls |-> row[c].observed]
    OBVIOUS
  <1> QED  BY <1>1, <1>2, Zenon DEF Balanced

(* Every step books what it changes, in the window of the receipt's own    *)
(* day.                                                                    *)
LEMMA BalanceKept ==
    ASSUME LedgerInv, Balanced, [Next]_vars
    PROVE  Balanced'
  <1>0. TypeOK /\ row \in [Calls -> Row]
    BY DEF LedgerInv, TypeOK
  <1>1. CASE UNCHANGED <<window, row>>
    BY <1>0, <1>1, BalanceStays
  <1>2. ASSUME NEW c \in Calls, CallStep(c)
        PROVE  Balanced'
    <2>1. CASE StartDispatch(c) \/ Begin(c)
      <3>1. Reserve(c)
        BY <2>1 DEF StartDispatch, Begin
      <3> QED  BY <1>0, <3>1, ReserveIsBooked, BookingKeepsBalance
    <2>2. CASE ClaimPrimary(c)
      <3>1. /\ UNCHANGED window
            /\ row' = [row EXCEPT ![c].claimed = TRUE]
        BY <2>2 DEF ClaimPrimary
      <3>2. ASSUME NEW x \in Calls
            PROVE  /\ row'[x].status = row[x].status
                   /\ row'[x].day = row[x].day
                   /\ row'[x].reserved = row[x].reserved
                   /\ row'[x].observed = row[x].observed
        BY <1>0, <3>1 DEF Row
      <3> QED  BY <1>0, <3>1, <3>2, BalanceStays
    <2>3. CASE Send(c) \/ Provider(c) \/ ProcessEnds(c)
      BY <1>1, <2>3 DEF Send, Provider, ProcessEnds, ledgerVars
    <2>4. ASSUME NEW outcome \in {"completed", "rejected", "unknown"},
                 NEW tokens \in Nat \cup {Unmeasured}, proc[c] # "idle",
                 Finish(c, outcome, tokens)
          PROVE  Balanced'
      <3>1. row[c].status # "absent"
        BY <2>4, CallFacts DEF CallOK
      <3>2. SettleIdentity(c, outcome, tokens) \/ UNCHANGED <<window, row>>
        BY <2>4 DEF Finish, ledgerVars
      <3> QED  BY <1>0, <1>1, <3>1, <3>2, SettlementIsBooked, BookingKeepsBalance
    <2>5. spent[c] \in Nat
      BY CallFacts
    <2>6. Unmeasured \in Nat \cup {Unmeasured}
      OBVIOUS
    <2> QED  BY <1>2, <2>1, <2>2, <2>3, <2>4, <2>5, <2>6
             DEF CallStep, Complete, Unknown, Refuse, KnownRefused
  <1>3. CASE StopTurn \/ Midnight \/ UNCHANGED vars
    BY <1>1, <1>3 DEF StopTurn, Midnight, ledgerVars, vars
  <1>4. CASE EndTurn
    <2>1. UNCHANGED window
      BY <1>4 DEF EndTurn
    <2>2. ASSUME NEW c \in Calls
          PROVE  /\ row'[c].status = "absent" <=> row[c].status = "absent"
                 /\ row'[c].status \in Unresolved <=> row[c].status \in Unresolved
                 /\ row'[c].day = row[c].day
                 /\ row'[c].reserved = row[c].reserved
                 /\ row'[c].observed = row[c].observed
      <3>1. row'[c] = IF c \in Primary /\ dispatch[c] = "running" /\ Settleable(c, "unknown")
                      THEN [row[c] EXCEPT !.status = "unknown",
                                          !.revision = row[c].revision + 1]
                      ELSE row[c]
        BY <1>4 DEF EndTurn
      <3>2. row[c] \in Row
        BY <1>0
      <3> QED  BY <3>1, <3>2 DEF Settleable, Unresolved, Row
    <2> QED  BY <1>0, <2>1, <2>2, BalanceStays
  <1>5. CASE \E o \in Operators : Reconcile(o)
    BY <1>0, <1>1, <1>5, ReconcileIsBooked, BookingKeepsBalance
  <1>6. CASE \E o \in Operators, c \in Calls : ReadReceipt(o, c)
    BY <1>1, <1>6 DEF ReadReceipt, ledgerVars
  <1> QED  BY <1>2, <1>3, <1>4, <1>5, <1>6 DEF Next

(* Before the first call every sum is over no call at all.                 *)
LEMMA BalanceInit ==
    ASSUME Init
    PROVE  Balanced
  <1>1. ASSUME NEW d \in Days
        PROVE  AdmittedOn(d) = {} /\ UnresolvedOn(d) = {} /\ AdmittedOn(d) \ UnresolvedOn(d) = {}
    BY DEF Init, NoRow, AdmittedOn, UnresolvedOn
  <1> QED  BY <1>1, SumOfNone, FS_EmptySet DEF Init, Balanced

(* The counters of every window are the sums over its receipts, at all     *)
(* times.                                                                  *)
THEOREM LedgerBalances == Spec => []Balanced
  <1> QED  BY BalanceInit, BalanceKept, LedgerInvHolds, PTL DEF Spec

(* What the calls of a day are charged is what its window holds and has    *)
(* used.                                                                   *)
LEMMA ChargesAreCounted ==
    ASSUME TypeOK, Balanced, NEW d \in Days
    PROVE  SumFunctionOnSet([c \in Calls |-> Charged(c)], AdmittedOn(d)) =
             window[d].used + window[d].reserved
  <1> DEFINE charge == [c \in Calls |-> Charged(c)]
             reserved == [c \in Calls |-> row[c].reserved]
             observed == [c \in Calls |-> row[c].observed]
             A == AdmittedOn(d)
             U == UnresolvedOn(d)
  <1>1. ASSUME NEW c \in Calls
        PROVE  reserved[c] \in Int /\ observed[c] \in Int /\ charge[c] \in Int
    BY DEF TypeOK, Row, Charged
  <1>2. /\ A \subseteq Calls /\ U \subseteq A
        /\ \A c \in U : charge[c] = reserved[c]
        /\ \A c \in A \ U : charge[c] = observed[c]
    BY DEF AdmittedOn, UnresolvedOn, Charged
  <1>3. /\ window[d].reserved = SumFunctionOnSet(reserved, U)
        /\ window[d].used = SumFunctionOnSet(observed, A \ U)
        /\ window[d].used \in Int /\ window[d].reserved \in Int
    BY DEF Balanced, TypeOK, Window
  <1> HIDE DEF A, U, charge, reserved, observed
  <1>4. IsFiniteSet(A) /\ IsFiniteSet(U) /\ IsFiniteSet(A \ U)
    <2>1. \A S \in SUBSET Calls : IsFiniteSet(S)
      BY LedgerConstants, FS_Subset
    <2> QED  BY <1>2, <2>1
  <1>5. SumFunctionOnSet(charge, A) =
          SumFunctionOnSet(charge, U) + SumFunctionOnSet(charge, A \ U)
    BY <1>1, <1>2, <1>4, SumSplits
  <1>6. SumFunctionOnSet(charge, U) = SumFunctionOnSet(reserved, U)
    BY <1>1, <1>2, <1>4, SumsAgree
  <1>7. SumFunctionOnSet(charge, A \ U) = SumFunctionOnSet(observed, A \ U)
    BY <1>1, <1>2, <1>4, SumsAgree
  <1>8. SumFunctionOnSet(charge, A) = window[d].used + window[d].reserved
    BY <1>3, <1>5, <1>6, <1>7
  <1> QED  BY <1>8 DEF A, charge

(* What the provider has consumed for a call, or may still consume.        *)
MayCost(c) == IF wire[c] = "request" THEN Allowance[c] ELSE spent[c]

(* The calls of one day never cost more than the limit of that day, in     *)
(* what was really consumed or still may be - however many answers were    *)
(* lost, processes died and receipts were corrected since.                 *)
DayCostsAtMostItsLimit ==
    \A d \in Days :
        SumFunctionOnSet([c \in Calls |-> MayCost(c)], AdmittedOn(d)) <= TokenLimit

(* The three invariants together: the counters are sums of what is         *)
(* charged, every call is charged what it may cost, and the counters are   *)
(* within the limit.                                                       *)
LEMMA ChargesBoundCosts ==
    ASSUME LedgerInv, Balanced, SpendIsCovered
    PROVE  DayCostsAtMostItsLimit
  <1> DEFINE cost == [c \in Calls |-> MayCost(c)]
             charge == [c \in Calls |-> Charged(c)]
  <1>0. /\ TypeOK
        /\ BudgetHolds
        /\ IsFiniteSet(Calls)
        /\ TokenLimit \in Nat
    BY LedgerConstants DEF LedgerInv
  <1>1. ASSUME NEW c \in Calls
        PROVE  /\ charge[c] \in Int
               /\ cost[c] \in Int
               /\ cost[c] <= charge[c]
    <2>1. row[c].reserved \in Nat /\ row[c].observed \in Nat /\ spent[c] \in Nat
      BY <1>0 DEF TypeOK, Row
    <2>2. Allowance[c] \in Nat
      BY LedgerConstants
    <2>3. spent[c] <= Charged(c) /\ (wire[c] = "request" => Allowance[c] <= Charged(c))
      BY DEF SpendIsCovered
    <2> QED  BY <2>1, <2>2, <2>3 DEF Charged, MayCost
  <1> SUFFICES ASSUME NEW d \in Days
               PROVE  SumFunctionOnSet(cost, AdmittedOn(d)) <= TokenLimit
    BY DEF DayCostsAtMostItsLimit
  <1> DEFINE A == AdmittedOn(d)
  <1>2. A \subseteq Calls
    BY DEF AdmittedOn
  <1>3. SumFunctionOnSet(charge, A) = window[d].used + window[d].reserved
    BY <1>0, ChargesAreCounted
  <1>4. window[d].used + window[d].reserved <= TokenLimit
    BY <1>0 DEF BudgetHolds
  <1>5. window[d].used \in Int /\ window[d].reserved \in Int
    BY <1>0 DEF TypeOK, Window
  <1> HIDE DEF A, cost, charge
  <1>6. IsFiniteSet(A)
    BY <1>0, <1>2, FS_Subset
  <1>7. SumFunctionOnSet(cost, A) <= SumFunctionOnSet(charge, A)
    BY <1>1, <1>2, <1>6, SumIsMonotone
  <1>8. SumFunctionOnSet(cost, A) \in Int
    BY <1>1, <1>2, <1>6, SumOfInt
  <1>9. SumFunctionOnSet(cost, A) <= TokenLimit
    BY <1>0, <1>3, <1>4, <1>5, <1>7, <1>8
  <1> QED  BY <1>9 DEF A, cost

(* What the calls of a day cost stays within the limit of the day.         *)
THEOREM DayIsWithinItsLimit == Spec => []DayCostsAtMostItsLimit
  <1> QED  BY ChargesBoundCosts, LedgerInvHolds, LedgerBalances,
              NothingSpentIsRefunded, PTL
-----------------------------------------------------------------------------
(* The ledger implements the spending limit.                               *)

(* SpendingLimit counts and sums with its own instances of the library.    *)
LEMMA SameOperators ==
    ASSUME NEW S
    PROVE  /\ Limit!Cardinality(S) = Cardinality(S)
           /\ \A f : Limit!SumFunctionOnSet(f, S) = SumFunctionOnSet(f, S)
  <1>1. Limit!Cardinality(S) = Cardinality(S)
    BY DEF Limit!Cardinality, Cardinality
  <1>2. \A f : Limit!SumFunctionOnSet(f, S) = SumFunctionOnSet(f, S)
    BY DEF Limit!SumFunctionOnSet, Limit!FoldFunctionOnSet, Limit!MapThenFoldSet,
           SumFunctionOnSet, FoldFunctionOnSet, MapThenFoldSet
  <1> QED  BY <1>1, <1>2

(* The calls of a day are the same in both, for the day of no call is 0.   *)
LEMMA SameCalls ==
    ASSUME TypeOK, NEW d \in Days
    PROVE  Limit!CallsOf(d) = AdmittedOn(d)
  <1>1. d # 0
    BY LedgerConstants DEF Days
  <1> QED  BY <1>1 DEF Limit!CallsOf, AdmittedOn, AdmissionDay

(* The account sees nothing of a step that leaves days and charges alone.  *)
LEMMA HiddenStep ==
    ASSUME UNCHANGED spent,
           \A c \in Calls : UNCHANGED <<AdmissionDay(c), Charged(c)>>
    PROVE  [Limit!LimitNext]_(Limit!limitVars)
  <1>1. /\ [c \in Calls |-> AdmissionDay(c)'] = [c \in Calls |-> AdmissionDay(c)]
        /\ [c \in Calls |-> Charged(c)'] = [c \in Calls |-> Charged(c)]
    OBVIOUS
  <1> QED  BY <1>1 DEF Limit!limitVars

(* An admission is one of the limit: what the windows count is what the    *)
(* calls are charged.                                                      *)
LEMMA ReserveIsAdmit ==
    ASSUME LedgerInv, Balanced, NEW c \in Calls, Reserve(c), UNCHANGED spent
    PROVE  [Limit!LimitNext]_(Limit!limitVars)
  <1>0. /\ TypeOK
        /\ today \in Days
        /\ row \in [Calls -> Row]
        /\ row[c].status = "absent"
        /\ Allowance[c] \in Nat \ {0}
    BY LedgerConstants DEF LedgerInv, TypeOK, Reserve
  <1> DEFINE r == [NoRow EXCEPT !.status = "reserved", !.day = today,
                                !.reserved = Allowance[c]]
  <1>1. row' = [row EXCEPT ![c] = r]
    BY DEF Reserve
  <1>2. r.status = "reserved" /\ r.day = today /\ r.reserved = Allowance[c]
    BY DEF NoRow
  <1> HIDE DEF r
  <1>3. /\ row'[c] = r
        /\ \A x \in Calls \ {c} : row'[x] = row[x]
    BY <1>0, <1>1
  <1> DEFINE day == [x \in Calls |-> AdmissionDay(x)]
             charge == [x \in Calls |-> Charged(x)]
  <1>4. day[c] = 0
    BY <1>0 DEF AdmissionDay
  <1>c. Limit!CallsOf(today) = AdmittedOn(today)
    BY <1>0, SameCalls
  <1>5. Limit!Cardinality(Limit!CallsOf(today)) < CallLimit
    <2>1. Cardinality(AdmittedOn(today)) < CallLimit
      BY <1>0 DEF Reserve, WithinLimits, Balanced
    <2> QED  BY <1>c, <2>1, SameOperators
  <1>6. Limit!SumFunctionOnSet(charge, Limit!CallsOf(today)) + Allowance[c] <= TokenLimit
    <2>1. SumFunctionOnSet(charge, AdmittedOn(today)) =
            window[today].used + window[today].reserved
      BY <1>0, ChargesAreCounted
    <2>2. window[today].used + window[today].reserved + Allowance[c] <= TokenLimit
      BY DEF Reserve, WithinLimits
    <2> HIDE DEF charge
    <2> QED  BY <1>c, <2>1, <2>2, SameOperators
  <1>7. day' = [day EXCEPT ![c] = today]
    BY <1>2, <1>3 DEF AdmissionDay
  <1>8. charge' = [charge EXCEPT ![c] = Allowance[c]]
    BY <1>2, <1>3 DEF Charged, Unresolved
  <1>9. Limit!Admit(c, today)
    <2> HIDE DEF day, charge
    <2> QED  BY <1>4, <1>5, <1>6, <1>7, <1>8, Zenon DEF Limit!Admit, day, charge
  <1> QED  BY <1>0, <1>9 DEF Limit!LimitNext

(* Where the receipt of an admitted call becomes r, its charge is lowered  *)
(* or stays.                                                               *)
LEMMA LoweredCharge ==
    ASSUME LedgerInv, NEW c \in Calls, row[c].status # "absent",
           NEW r, Booked(c, r), UNCHANGED spent,
           spent[c] <= Charged(c)', Charged(c)' <= Charged(c)
    PROVE  [Limit!LimitNext]_(Limit!limitVars)
  <1>0. /\ row \in [Calls -> Row]
        /\ row[c] \in Row /\ r \in Row
        /\ spent[c] \in Nat
        /\ 0 \notin Days
    BY LedgerConstants DEF LedgerInv, TypeOK, Booked, Days
  <1>1. /\ row'[c] = r
        /\ \A x \in Calls \ {c} : row'[x] = row[x]
        /\ r.status # "absent" /\ r.day = row[c].day
    BY <1>0 DEF Booked
  <1>2. Charged(c) \in Nat /\ Charged(c)' \in Nat
    BY <1>0, <1>1 DEF Charged, Row
  <1>3. \A x \in Calls : AdmissionDay(x)' = AdmissionDay(x)
    BY <1>1 DEF AdmissionDay
  <1>4. \A x \in Calls \ {c} : Charged(x)' = Charged(x)
    BY <1>1 DEF Charged
  <1>5. CASE Charged(c)' = Charged(c)
    <2>1. \A x \in Calls : UNCHANGED <<AdmissionDay(x), Charged(x)>>
      BY <1>3, <1>4, <1>5
    <2> QED  BY <2>1, HiddenStep
  <1>6. CASE Charged(c)' # Charged(c)
    <2> DEFINE day == [x \in Calls |-> AdmissionDay(x)]
               charge == [x \in Calls |-> Charged(x)]
    <2>1. day[c] # 0
      BY <1>0 DEF AdmissionDay, Row
    <2>2. day' = day
      BY <1>3
    <2>3. charge' = [charge EXCEPT ![c] = Charged(c)']
      BY <1>4
    <2>4. Charged(c)' \in spent[c] .. charge[c] - 1
      BY <1>0, <1>2, <1>6
    <2>5. Limit!Lower(c)
      <3> HIDE DEF day, charge
      <3> QED  BY <2>1, <2>2, <2>3, <2>4 DEF Limit!Lower, day, charge
    <2> QED  BY <2>5 DEF Limit!LimitNext
  <1> QED  BY <1>5, <1>6

(* A settlement lowers the charge or leaves it, and no further than to     *)
(* what was spent.                                                         *)
LEMMA SettlementLowers ==
    ASSUME LedgerInv, NEW c \in Calls, row[c].status # "absent",
           NEW outcome \in {"completed", "rejected", "unknown"},
           NEW tokens \in {spent[c], Unmeasured},
           outcome = "rejected" => spent[c] = 0,
           SettleIdentity(c, outcome, tokens)
    PROVE  spent[c] <= Charged(c)' /\ Charged(c)' <= Charged(c)
  <1>0. /\ row \in [Calls -> Row]
        /\ row[c] \in Row
        /\ spent[c] \in Nat
        /\ spent[c] <= Charged(c)
        /\ row[c].reserved \in Nat /\ row[c].observed \in Nat
    BY CallFacts DEF LedgerInv, TypeOK, CallOK, Row
  <1>1. CASE UNCHANGED row
    BY <1>0, <1>1 DEF Charged
  <1>2. CASE Settleable(c, outcome) /\ outcome = "unknown"
    <2>1. Charged(c) = row[c].reserved
      BY <1>2 DEF Settleable, Charged, Unresolved
    <2>2. ~(tokens > row[c].reserved)
      BY <1>0, <2>1 DEF Unmeasured
    <2>3. PICK seen :
            row' = [row EXCEPT ![c].status = "unknown", ![c].reserved = row[c].reserved,
                               ![c].observed = seen, ![c].revision = @ + 1]
      BY <1>2, <2>2 DEF SettleIdentity, Hold
    <2>4. row'[c].status = "unknown" /\ row'[c].reserved = row[c].reserved
      BY <1>0, <2>3 DEF Row
    <2>5. Charged(c)' = row[c].reserved
      BY <2>4 DEF Charged, Unresolved
    <2> QED  BY <1>0, <2>1, <2>5
  <1>3. CASE Settleable(c, outcome) /\ outcome # "unknown"
    <2>1. Charged(c) = row[c].reserved
      BY <1>3 DEF Settleable, Charged, Unresolved
    <2>2. PICK amount, verdict :
            /\ amount = Amount(c, outcome, tokens)
            /\ verdict = Verdict(outcome, tokens)
            /\ row' = [row EXCEPT ![c].status = verdict, ![c].observed = amount,
                                  ![c].revision = @ + 1, ![c].evidence = FALSE]
      BY <1>3 DEF SettleIdentity, Charge
    <2>3. amount \in spent[c] .. row[c].reserved
      BY <1>0, <2>1, <2>2 DEF Amount, Unmeasured
    <2>4. verdict \notin Unresolved
      BY <2>2 DEF Verdict, Unresolved
    <2>5. row'[c].status = verdict /\ row'[c].observed = amount
      BY <1>0, <2>2 DEF Row
    <2>6. Charged(c)' = amount
      BY <2>4, <2>5 DEF Charged
    <2> QED  BY <1>0, <2>1, <2>3, <2>6
  <1> QED  BY <1>1, <1>2, <1>3 DEF SettleIdentity

(* The end of a call is hidden, or lowers its charge.                      *)
LEMMA FinishLowers ==
    ASSUME LedgerInv, NEW c \in Calls,
           NEW outcome \in {"completed", "rejected", "unknown"},
           NEW tokens \in {spent[c], Unmeasured},
           proc[c] \in {"admitted", "claimed", "sent"},
           outcome = "rejected" => proc[c] = "admitted" \/ wire[c] = "refused",
           Finish(c, outcome, tokens)
    PROVE  [Limit!LimitNext]_(Limit!limitVars)
  <1>1. UNCHANGED spent
    BY DEF Finish
  <1>2. /\ row[c].status # "absent"
        /\ outcome = "rejected" => spent[c] = 0
        /\ TypeOK
        /\ tokens \in Nat \cup {Unmeasured}
    BY CallFacts DEF CallOK
  <1>3. CASE UNCHANGED <<window, row>>
    <2>1. \A x \in Calls : UNCHANGED <<AdmissionDay(x), Charged(x)>>
      BY <1>3 DEF AdmissionDay, Charged
    <2> QED  BY <1>1, <2>1, HiddenStep
  <1>4. CASE SettleIdentity(c, outcome, tokens)
    <2>1. UNCHANGED <<window, row>> \/ \E r : Booked(c, r)
      BY <1>2, <1>4, SettlementIsBooked
    <2>2. spent[c] <= Charged(c)' /\ Charged(c)' <= Charged(c)
      BY <1>2, <1>4, SettlementLowers
    <2> QED  BY <1>1, <1>2, <1>3, <2>1, <2>2, LoweredCharge
  <1> QED  BY <1>3, <1>4 DEF Finish, ledgerVars

(* A correction replaces the charge by what was spent.                     *)
LEMMA ReconcileLowers ==
    ASSUME LedgerInv, NEW o \in Operators, Reconcile(o)
    PROVE  [Limit!LimitNext]_(Limit!limitVars)
  <1>0. PICK c \in Calls, tokens \in Nat :
          /\ c = correction[o].call
          /\ tokens = correction[o].tokens
          /\ row[c].status # "absent"
          /\ tokens = spent[c]
          /\ UNCHANGED spent
    BY DEF LedgerInv, TypeOK, Correction, CorrectionOK, Reconcile
  <1>1. CASE UNCHANGED <<window, row>>
    <2>1. \A x \in Calls : UNCHANGED <<AdmissionDay(x), Charged(x)>>
      BY <1>1 DEF AdmissionDay, Charged
    <2> QED  BY <1>0, <2>1, HiddenStep
  <1>2. CASE ~UNCHANGED <<window, row>>
    <2>1. row' = [row EXCEPT ![c].status = IF tokens = 0 THEN "rejected" ELSE "settled",
                             ![c].observed = tokens, ![c].revision = @ + 1,
                             ![c].evidence = TRUE]
      BY <1>0, <1>2 DEF Reconcile
    <2>2. \E r : Booked(c, r)
      BY <1>0, <1>2, ReconcileIsBooked
    <2> DEFINE status == IF tokens = 0 THEN "rejected" ELSE "settled"
    <2>s. status \notin Unresolved
      BY DEF Unresolved
    <2> HIDE DEF status
    <2>3. row \in [Calls -> Row] /\ row[c] \in Row
      BY <1>0 DEF LedgerInv, TypeOK
    <2>4. row'[c].status = status /\ row'[c].observed = tokens
      BY <1>0, <2>1, <2>3 DEF Row, status
    <2>5. Charged(c)' = spent[c]
      BY <1>0, <2>s, <2>4 DEF Charged
    <2>6. spent[c] <= Charged(c) /\ spent[c] \in Nat
      BY <1>0, CallFacts DEF CallOK
    <2> QED  BY <1>0, <2>2, <2>5, <2>6, LoweredCharge
  <1> QED  BY <1>1, <1>2

(* Every step is one of the limit or hidden.                               *)
LEMMA LedgerStepIsLimitStep ==
    ASSUME LedgerInv, Balanced, [Next]_vars
    PROVE  [Limit!LimitNext]_(Limit!limitVars)
  <1>0. TypeOK /\ row \in [Calls -> Row]
    BY DEF LedgerInv, TypeOK
  <1>1. CASE UNCHANGED <<row, spent>>
    <2>1. \A x \in Calls : UNCHANGED <<AdmissionDay(x), Charged(x)>>
      BY <1>1 DEF AdmissionDay, Charged
    <2> QED  BY <1>1, <2>1, HiddenStep
  <1>2. ASSUME NEW c \in Calls, CallStep(c)
        PROVE  [Limit!LimitNext]_(Limit!limitVars)
    <2>1. CASE StartDispatch(c) \/ Begin(c)
      BY <2>1, ReserveIsAdmit DEF StartDispatch, Begin
    <2>2. CASE ClaimPrimary(c)
      <3>1. row' = [row EXCEPT ![c].claimed = TRUE] /\ UNCHANGED spent
        BY <2>2 DEF ClaimPrimary
      <3>2. ASSUME NEW x \in Calls
            PROVE  /\ row'[x].status = row[x].status
                   /\ row'[x].day = row[x].day
                   /\ row'[x].reserved = row[x].reserved
                   /\ row'[x].observed = row[x].observed
        BY <1>0, <3>1 DEF Row
      <3>3. \A x \in Calls : UNCHANGED <<AdmissionDay(x), Charged(x)>>
        BY <3>2 DEF AdmissionDay, Charged
      <3> QED  BY <3>1, <3>3, HiddenStep
    <2>3. CASE Send(c) \/ ProcessEnds(c)
      BY <1>1, <2>3 DEF Send, ProcessEnds, ledgerVars
    <2>4. CASE Provider(c)
      <3>1. CASE UNCHANGED spent
        BY <1>1, <2>4, <3>1 DEF Provider, ledgerVars
      <3>2. CASE ~UNCHANGED spent
        <4>1. PICK tokens \in 1 .. Allowance[c] : spent' = [spent EXCEPT ![c] = tokens]
          BY <2>4, <3>2 DEF Provider
        <4>2. /\ row[c].status \in Unresolved
              /\ Allowance[c] <= row[c].reserved
              /\ spent[c] = 0
          BY <2>4, CallFacts DEF Provider, CallOK, Quiesced
        <4>3. row[c] \in Row /\ Allowance[c] \in Nat
          BY CallFacts
        <4> DEFINE day == [x \in Calls |-> AdmissionDay(x)]
                   charge == [x \in Calls |-> Charged(x)]
        <4>4. day[c] # 0
          BY <4>2, <4>3, LedgerConstants DEF AdmissionDay, Row, Days, Unresolved
        <4>5. charge[c] = row[c].reserved /\ row[c].reserved \in Nat
          BY <4>2, <4>3 DEF Charged, Row
        <4>6. tokens \in spent[c] + 1 .. charge[c]
          BY <4>2, <4>3, <4>5
        <4>7. UNCHANGED <<day, charge>>
          BY <2>4 DEF Provider, ledgerVars, AdmissionDay, Charged
        <4>8. Limit!Consume(c)
          <5> HIDE DEF day, charge
          <5> QED  BY <4>1, <4>4, <4>6, <4>7 DEF Limit!Consume, day, charge
        <4> QED  BY <4>8 DEF Limit!LimitNext
      <3> QED  BY <3>1, <3>2
    <2>5. CASE \E tokens \in {spent[c], Unmeasured} : Complete(c, tokens)
      BY <2>5, FinishLowers DEF Complete
    <2>6. CASE \E tokens \in {spent[c], Unmeasured} : Unknown(c, tokens)
      BY <2>6, FinishLowers DEF Unknown
    <2>7. CASE Refuse(c)
      BY <2>7, FinishLowers DEF Refuse, KnownRefused
    <2> QED  BY <1>2, <2>1, <2>2, <2>3, <2>4, <2>5, <2>6, <2>7 DEF CallStep
  <1>3. CASE StopTurn \/ Midnight \/ UNCHANGED vars
    BY <1>1, <1>3 DEF StopTurn, Midnight, ledgerVars, vars
  <1>4. CASE EndTurn
    <2>1. ASSUME NEW x \in Calls
          PROVE  UNCHANGED <<AdmissionDay(x), Charged(x)>>
      <3>1. row'[x] = IF x \in Primary /\ dispatch[x] = "running" /\ Settleable(x, "unknown")
                      THEN [row[x] EXCEPT !.status = "unknown",
                                          !.revision = row[x].revision + 1]
                      ELSE row[x]
        BY <1>4 DEF EndTurn
      <3>2. row[x] \in Row
        BY <1>0
      <3> QED  BY <3>1, <3>2 DEF Settleable, Unresolved, Row, AdmissionDay, Charged
    <2>2. UNCHANGED spent
      BY <1>4 DEF EndTurn
    <2> QED  BY <2>1, <2>2, HiddenStep
  <1>5. CASE \E o \in Operators : Reconcile(o)
    BY <1>5, ReconcileLowers
  <1>6. CASE \E o \in Operators, c \in Calls : ReadReceipt(o, c)
    BY <1>1, <1>6 DEF ReadReceipt, ledgerVars
  <1> QED  BY <1>2, <1>3, <1>4, <1>5, <1>6 DEF Next

(* Before the first call nothing is charged.                               *)
LEMMA LedgerStartsLimit ==
    ASSUME Init
    PROVE  Limit!LimitInit
  BY DEF Init, NoRow, AdmissionDay, Charged, Unresolved, Limit!LimitInit

(* The ledger implements the spending limit, for any calls, allowances,    *)
(* limits, days and operators.                                             *)
THEOREM LedgerImplementsLimit == Spec => ImplementsLimit
  <1> QED  BY LedgerStartsLimit, LedgerStepIsLimitStep, LedgerInvHolds, LedgerBalances, PTL
              DEF Spec, ImplementsLimit, Limit!LimitSpec
=============================================================================
