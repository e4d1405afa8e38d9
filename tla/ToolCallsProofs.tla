------------------------- MODULE ToolCallsProofs --------------------------
(* Proofs about tool calls, for any turns, calls, effects, resources and   *)
(* bounds: the rows are typed, and a mutation of unknown outcome keeps     *)
(* its resource.                                                           *)
EXTENDS ToolCalls, TLAPS

(* The type invariant, one set of rows per table.                          *)
TurnRow ==
  [status : Active \cup {"closed", "deleted"}, generation : Generation,
   cancel : BOOLEAN, interrupted : BOOLEAN]
PassRow ==
  [at : {"none", "claimed", "rejecting", "rejected", "live", "barrier",
         "asking", "stopping"},
   resumes : SUBSET Call, about : Call \cup {None}]
CallRow ==
  [status : Closed \cup {"absent", "running", "waiting", "deferred"},
   generation : {0} \cup Generation,
   allowed : BOOLEAN, started : BOOLEAN, recovered : BOOLEAN]
ExecRow ==
  [at : Open \cup Closing \cup {"idle"},
   result : Closed \cup {"none", "waiting"}]
Question ==
  [call : Call,
   kind : {"approval", "connection", "client_readiness", "fact_confirmation"},
   status : {"pending", "resolved", "rejected", "cancelled"},
   client : Client \cup {None}, version : 1 .. MaxTakeovers + 1]
Reply ==
  [index : Nat, client : Client \cup {None}, version : 0 .. MaxTakeovers + 1]

Rows ==
  /\ turn \in [Turn -> TurnRow]
  /\ pass \in [Turn -> [Generation -> PassRow]]
  /\ row \in [Call -> CallRow]
  /\ exec \in [Call -> [Generation -> ExecRow]]
  /\ question \in [Turn -> Seq(Question)]
  /\ reply \in [Turn -> Reply]
  /\ receipt \in [Call -> {"none", "open", "settled", "expired"}]
  /\ script \in SUBSET Call
  /\ losses \in [Turn -> Nat]

(* An execution that repeats a closed call instead of running it.          *)
Replays(c, g) == exec[c][g].at \in {"replayed", "rewriting"}

(* What an execution is about to record is a result, and a repeated call   *)
(* records nothing but a cancellation.                                     *)
ResultsClose ==
  \A c \in Call, g \in Generation :
    /\ exec[c][g].at \in Closing => exec[c][g].result # "none"
    /\ Replays(c, g) => exec[c][g].result \in {"cancelled", "unknown"}

Typed == Rows /\ ResultsClose

-----------------------------------------------------------------------------
(* The sets of rows say what the type invariant says.                      *)
LEMMA RowsAreTyped == TypeOK <=> Rows
BY DEF TypeOK, Rows, TurnRow, PassRow, CallRow, ExecRow, Question, Reply

(* An update of one pass, of one execution, of one question, and a new     *)
(* question, seen pointwise.                                               *)
LEMMA PassMoves ==
  ASSUME NEW t \in Turn, NEW g \in Generation, NEW p, Rows, PassIs(t, g, p)
  PROVE  /\ pass'[t][g] = p
         /\ \A u \in Turn, h \in Generation :
              <<u, h>> # <<t, g>> => pass'[u][h] = pass[u][h]
BY DEF Rows, PassIs

LEMMA ExecMoves ==
  ASSUME NEW c \in Call, NEW g \in Generation, NEW x, Rows, ExecIs(c, g, x)
  PROVE  /\ exec'[c][g] = x
         /\ \A d \in Call, h \in Generation :
              <<d, h>> # <<c, g>> => exec'[d][h] = exec[d][h]
BY DEF Rows, ExecIs

LEMMA QMoves ==
  ASSUME NEW t \in Turn, NEW i \in DOMAIN question[t], NEW q \in Question,
         Rows,
         Revise(t, i, q)
  PROVE  /\ question' \in [Turn -> Seq(Question)]
         /\ DOMAIN question'[t] = DOMAIN question[t]
         /\ Len(question'[t]) = Len(question[t])
         /\ question'[t][i] = q
         /\ \A j \in DOMAIN question[t] :
              j # i => question'[t][j] = question[t][j]
         /\ \A u \in Turn : u # t => question'[u] = question[u]
BY DEF Rows, Revise
LEMMA QAsks ==
  ASSUME NEW c \in Call,
         NEW kind \in {"approval", "connection", "client_readiness",
                "fact_confirmation"}, NEW client \in Client \cup {None}, Rows,
         Ask(c, kind, client)
  PROVE  LET t == Owner[c] IN
         /\ question' \in [Turn -> Seq(Question)]
         /\ Len(question'[t]) = Len(question[t]) + 1
         /\ DOMAIN question'[t] = DOMAIN question[t] \cup {Len(question[t]) + 1}
         /\ question'[t][Len(question[t]) + 1] =
              [call |-> c, kind |-> kind, status |-> "pending",
               client |-> client, version |-> 1]
         /\ \A j \in DOMAIN question[t] : question'[t][j] = question[t][j]
         /\ \A u \in Turn : u # t => question'[u] = question[u]
<1>1. Owner[c] \in Turn BY ConstantsOK
<1>2. [call |-> c, kind |-> kind, status |-> "pending",
      client |-> client, version |-> 1] \in Question
  BY ConstantsOK DEF Question
<1>3. QED BY <1>1, <1>2 DEF Rows, Ask

(* A turn is in one of its dispatch generations.                           *)
LEMMA Numbers ==
  ASSUME Rows
  PROVE  /\ \A t \in Turn : turn[t].generation \in Int
         /\ \A t \in Turn : turn[t].generation \in Generation
BY ConstantsOK DEF Rows, TurnRow, Generation

(* The sets the next-state relation ranges over lie in those the rows are  *)
(* declared on.                                                            *)
LEMMA Bounds ==
  /\ \A c \in Call : Owner[c] \in Turn
  /\ \A t \in Turn : CallsOf(t) \subseteq Call
  /\ \A t \in Turn : \A g \in 1 .. LastGeneration[t] : g \in Generation
BY ConstantsOK DEF Generation, CallsOf, CallsBy

(* Writing a typed pass, or a typed execution with a result to record,     *)
(* keeps the tables typed.                                                 *)
LEMMA PassTyped ==
  ASSUME Rows, NEW t \in Turn, NEW g \in Generation, NEW p \in PassRow,
         PassIs(t, g, p)
  PROVE  pass' \in [Turn -> [Generation -> PassRow]]
BY DEF Rows, PassIs

LEMMA ExecTyped ==
  ASSUME Typed, NEW c \in Call, NEW g \in Generation, NEW x \in ExecRow,
         x.at \in Closing => x.result # "none",
         x.at \in {"replayed", "rewriting"} =>
           x.result \in {"cancelled", "unknown"},
         ExecIs(c, g, x)
  PROVE  exec' \in [Call -> [Generation -> ExecRow]] /\ ResultsClose'
<1>1. exec' \in [Call -> [Generation -> ExecRow]]
  BY DEF Typed, Rows, ExecIs
<1>2. /\ exec'[c][g] = x
      /\ \A d \in Call, h \in Generation :
           <<d, h>> # <<c, g>> => exec'[d][h] = exec[d][h]
  BY ExecMoves DEF Typed
<1>3. QED BY <1>1, <1>2 DEF Typed, ResultsClose, Replays

(* The rows the actions write, built from those they read.                 *)
LEMMA PassRows ==
  ASSUME Rows, NEW t \in Turn, NEW g \in Generation
  PROVE  /\ pass[t][g] \in PassRow
         /\ \A c \in Call : exec[c][g] \in ExecRow
         /\ \A at \in {"none", "claimed", "rejecting", "rejected", "live",
                       "barrier", "asking", "stopping"} :
              /\ [pass[t][g] EXCEPT !.at = at] \in PassRow
              /\ [pass[t][g] EXCEPT !.at = at, !.about = None] \in PassRow
         /\ NoPass \in PassRow /\ NoExec \in ExecRow
<1>1. /\ pass[t][g] \in PassRow
      /\ \A c \in Call : exec[c][g] \in ExecRow
  BY DEF Rows
<1>2. NoPass \in PassRow /\ NoExec \in ExecRow
  BY DEF PassRow, ExecRow, NoPass, NoExec
<1>3. QED BY <1>1, <1>2 DEF PassRow

LEMMA QuestionRows ==
  ASSUME Rows, NEW t \in Turn, NEW i \in DOMAIN question[t]
  PROVE  /\ question[t][i] \in Question
         /\ i \in Nat
         /\ \A s \in {"pending", "resolved", "rejected", "cancelled"} :
              [question[t][i] EXCEPT !.status = s] \in Question
<1>1. question[t] \in Seq(Question) BY DEF Rows
<1>2. question[t][i] \in Question /\ i \in Nat BY <1>1
<1>3. QED BY <1>2 DEF Question

-----------------------------------------------------------------------------
(* The tables stay typed in every step: stuttering, then one lemma for     *)
(* each action.                                                            *)
LEMMA Unchanged ==
  ASSUME Typed, UNCHANGED vars
  PROVE  Typed'
BY DEF Typed, Rows, ResultsClose, Replays, vars

LEMMA InitTyped == Init => Typed
<1>1. SUFFICES ASSUME Init PROVE Typed OBVIOUS
<1>2. 1 \in Generation BY ConstantsOK DEF Generation
<1>3. turn \in [Turn -> TurnRow]
  <2>1. NewTurn \in TurnRow /\ [NewTurn EXCEPT !.status = "closed"] \in TurnRow
    BY <1>2 DEF NewTurn, TurnRow, Active
  <2>2. QED BY <1>1, <2>1 DEF Init
<1>4. pass \in [Turn -> [Generation -> PassRow]]
  <2>1. NoPass \in PassRow BY DEF NoPass, PassRow
  <2>2. QED BY <1>1, <2>1 DEF Init
<1>5. exec \in [Call -> [Generation -> ExecRow]]
  <2>1. NoExec \in ExecRow BY DEF NoExec, ExecRow
  <2>2. QED BY <1>1, <2>1 DEF Init
<1>6. row \in [Call -> CallRow]
  <2>1. NoRow \in CallRow BY DEF NoRow, CallRow
  <2>2. QED BY <1>1, <2>1 DEF Init
<1>7. /\ question \in [Turn -> Seq(Question)]
      /\ script \in SUBSET Call
      /\ receipt \in [Call -> {"none", "open", "settled", "expired"}]
      /\ losses \in [Turn -> Nat]
  BY <1>1, ConstantsOK DEF Init
<1>8. reply \in [Turn -> Reply]
  <2>1. NoReply \in Reply BY ConstantsOK DEF Reply, NoReply
  <2>2. QED BY <1>1, <2>1 DEF Init
<1>9. ResultsClose
  BY <1>1 DEF Init, ResultsClose, Replays, NoExec, Closing
<1>10. QED BY <1>3, <1>4, <1>5, <1>6, <1>7, <1>8, <1>9 DEF Typed, Rows

LEMMA ClaimTyped ==
  ASSUME Typed, NEW t \in Turn, Claim(t)
  PROVE  Typed'
<1>1. UNCHANGED <<script, row, exec, question, reply, receipt, losses>>
  BY DEF Claim
<1>2. turn' \in [Turn -> TurnRow]
  BY DEF Claim, Typed, Rows, TurnRow, Active
<1>3. pass' \in [Turn -> [Generation -> PassRow]]
  BY Numbers, PassRows, PassTyped DEF Claim, PassAt, Typed
<1>4. QED BY <1>1, <1>2, <1>3 DEF Typed, Rows, ResultsClose, Replays

LEMMA LoadTyped ==
  ASSUME Typed, NEW t \in Turn, NEW g \in Generation, Load(t, g)
  PROVE  Typed'
<1>1. UNCHANGED <<script, turn, row, exec, question, reply, receipt, losses>>
  BY DEF Load
<1>2. pass' \in [Turn -> [Generation -> PassRow]]
  <2>1. ASSUME NEW i \in DOMAIN question[t],
               PassIs(t, g, Resumed(t, question[t][i]))
        PROVE  pass' \in [Turn -> [Generation -> PassRow]]
    <3>1. question[t][i].call \in Call
      BY QuestionRows DEF Question, Typed
    <3>2. Resumed(t, question[t][i]) \in PassRow
      BY <3>1, Bounds DEF Resumed, PassRow, Suspended
    <3>3. QED BY <2>1, <3>2, PassTyped DEF Typed
  <2>2. [at |-> "live", about |-> None,
         resumes |-> IF Recovering(t) # {} THEN Suspended(t) ELSE {}]
           \in PassRow
    BY Bounds DEF PassRow, Suspended
  <2>3. QED BY <2>1, <2>2, PassTyped DEF Load, Answered, Typed
<1>3. QED BY <1>1, <1>2 DEF Typed, Rows, ResultsClose, Replays

LEMMA RejectWaitingTyped ==
  ASSUME Typed, NEW t \in Turn, NEW g \in Generation, RejectWaiting(t, g)
  PROVE  Typed'
<1>1. UNCHANGED <<script, turn, exec, question, reply, receipt, losses>>
  BY DEF RejectWaiting
<1>2. row' \in [Call -> CallRow]
  <2>1. row \in [Call -> CallRow] BY DEF Typed, Rows
  <2>2. ASSUME NEW c,
               row' = [row EXCEPT ![c].status = "denied",
                                  ![c].generation = g, ![c].allowed = FALSE]
        PROVE  row' \in [Call -> CallRow]
    <3>1. CASE c \in Call
      <4>1. row[c] \in CallRow BY <2>1, <3>1
      <4>2. row' = [row EXCEPT ![c] =
                      [row[c] EXCEPT !.status = "denied",
                                     !.generation = g, !.allowed = FALSE]]
        BY <2>1, <2>2, <3>1
      <4>3. [row[c] EXCEPT !.status = "denied", !.generation = g,
                           !.allowed = FALSE] \in CallRow
        BY <4>1 DEF CallRow, Closed
      <4>4. QED BY <2>1, <4>2, <4>3
    <3>2. CASE c \notin Call
      BY <2>1, <2>2, <3>2
    <3>3. QED BY <3>1, <3>2
  <2>3. QED BY <2>1, <2>2 DEF RejectWaiting
<1>3. pass' \in [Turn -> [Generation -> PassRow]]
  BY PassRows, PassTyped DEF RejectWaiting, PassAt, Typed
<1>4. QED BY <1>1, <1>2, <1>3 DEF Typed, Rows, ResultsClose, Replays

LEMMA CancelDeferredTyped ==
  ASSUME Typed, NEW t \in Turn, NEW g \in Generation, CancelDeferred(t, g)
  PROVE  Typed'
<1>1. UNCHANGED <<script, turn, exec, question, reply, receipt, losses>>
  BY DEF CancelDeferred
<1>2. row' \in [Call -> CallRow]
  <2>1. row \in [Call -> CallRow] BY DEF Typed, Rows
  <2>2. QED BY <2>1 DEF CancelDeferred, CallRow, Closed
<1>3. pass' \in [Turn -> [Generation -> PassRow]]
  <2>1. [NoPass EXCEPT !.at = "live"] \in PassRow BY DEF NoPass, PassRow
  <2>2. QED BY <2>1, PassTyped DEF CancelDeferred, Typed
<1>4. QED BY <1>1, <1>2, <1>3 DEF Typed, Rows, ResultsClose, Replays

LEMMA DeferTyped ==
  ASSUME Typed, NEW t \in Turn, NEW g \in Generation, NEW c \in Call,
         NEW S \in SUBSET Call, Defer(t, g, c, S)
  PROVE  Typed'
<1>1. UNCHANGED <<script, turn, exec, question, reply, receipt, losses>>
  BY DEF Defer
<1>2. row' \in [Call -> CallRow]
  BY DEF Defer, Typed, Rows, CallRow, NoRow, Generation
<1>3. pass' \in [Turn -> [Generation -> PassRow]]
  <2>1. [at |-> "barrier", about |-> c,
         resumes |-> pass[t][g].resumes \cup S] \in PassRow
    <3>1. pass[t][g] \in PassRow BY PassRows DEF Typed
    <3>2. S \subseteq Call BY Bounds DEF Defer
    <3>3. QED BY <3>1, <3>2 DEF PassRow
  <2>2. QED BY <2>1, PassTyped DEF Defer, Typed
<1>4. QED BY <1>1, <1>2, <1>3 DEF Typed, Rows, ResultsClose, Replays

LEMMA StartTyped ==
  ASSUME Typed, NEW t \in Turn, NEW g \in Generation, NEW c \in Call,
         Start(t, g, c)
  PROVE  Typed'
<1>1. UNCHANGED <<script, turn, pass, question, reply, receipt, losses>>
  BY DEF Start
<1>2. row' \in [Call -> CallRow]
  <2>1. row \in [Call -> CallRow] BY DEF Typed, Rows
  <2>2. QED BY <2>1 DEF Start, Register, CallRow
<1>3. exec' \in [Call -> [Generation -> ExecRow]] /\ ResultsClose'
  <2>1. \A x \in {[at |-> "registered", result |-> "none"],
                   [at |-> "finishing", result |-> "failed"],
                   [at |-> "finishing", result |-> "denied"]} :
          /\ x \in ExecRow
          /\ x.at \in Closing => x.result # "none"
          /\ x.at \notin {"replayed", "rewriting"}
    BY DEF ExecRow, Closing, Open, Closed
  <2>2. QED BY <2>1, ExecTyped DEF Start, Goes
<1>4. QED BY <1>1, <1>2, <1>3 DEF Typed, Rows

LEMMA StartAskingTyped ==
  ASSUME Typed, NEW t \in Turn, NEW g \in Generation, StartAsking(t, g)
  PROVE  Typed'
<1>1. UNCHANGED <<script, turn, question, reply, receipt, losses>>
  BY DEF StartAsking
<1>2. row' \in [Call -> CallRow]
  <2>1. row \in [Call -> CallRow] BY DEF Typed, Rows
  <2>2. QED BY <2>1 DEF StartAsking, Register, CallRow
<1>3. pass' \in [Turn -> [Generation -> PassRow]]
  BY PassRows, PassTyped DEF StartAsking, Typed
<1>4. exec' \in [Call -> [Generation -> ExecRow]] /\ ResultsClose'
  <2>1. [at |-> "finishing", result |-> "waiting"] \in ExecRow
    BY DEF ExecRow, Closing, Open
  <2>2. Admits(t, g, pass[t][g].about) => pass[t][g].about \in Call
    <3>1. pass[t][g] \in PassRow /\ script \subseteq Call
      BY PassRows DEF Typed, Rows
    <3>2. QED BY <3>1, Bounds DEF Admits, Fresh, Suspended
  <2>3. CASE ~Admits(t, g, pass[t][g].about)
    BY <2>3 DEF StartAsking, Typed, Rows, ResultsClose, Replays
  <2>4. CASE Admits(t, g, pass[t][g].about)
    BY <2>1, <2>2, <2>4, ExecTyped DEF StartAsking, Goes
  <2>5. QED BY <2>3, <2>4
<1>5. QED BY <1>1, <1>2, <1>3, <1>4 DEF Typed, Rows

LEMMA ReplayCancelledTyped ==
  ASSUME Typed, NEW t \in Turn, NEW g \in Generation, NEW c \in Call,
         ReplayCancelled(t, g, c)
  PROVE  Typed'
<1>1. UNCHANGED <<script, turn, row, question, reply, receipt, losses>>
  BY DEF ReplayCancelled
<1>2. pass' \in [Turn -> [Generation -> PassRow]]
  BY PassRows, PassTyped DEF ReplayCancelled, PassAt, Typed
<1>3. exec' \in [Call -> [Generation -> ExecRow]] /\ ResultsClose'
  <2>1. [at |-> "replayed", result |-> "cancelled"] \in ExecRow
    BY DEF ExecRow, Closing, Open, Closed
  <2>2. QED BY <2>1, ExecTyped DEF ReplayCancelled, Goes
<1>4. QED BY <1>1, <1>2, <1>3 DEF Typed, Rows

LEMMA MarkHandlerStartedTyped ==
  ASSUME Typed, NEW c \in Call, NEW g \in Generation,
         MarkHandlerStarted(c, g)
  PROVE  Typed'
<1>1. UNCHANGED <<script, turn, pass, question, reply, receipt, losses>>
  BY DEF MarkHandlerStarted
<1>2. row' \in [Call -> CallRow]
  <2>1. row \in [Call -> CallRow] BY DEF Typed, Rows
  <2>2. row' = row \/ row' = [row EXCEPT ![c].started = TRUE]
    BY DEF MarkHandlerStarted
  <2>3. QED BY <2>1, <2>2 DEF CallRow
<1>3. exec' \in [Call -> [Generation -> ExecRow]] /\ ResultsClose'
  <2>1. \A x \in {[at |-> "handling", result |-> "none"], NoExec} :
          x \in ExecRow /\ x.at \notin Closing
    BY DEF ExecRow, Closing, Open, NoExec
  <2>2. QED BY <2>1, ExecTyped DEF MarkHandlerStarted, Goes, Ends, Closing
<1>4. QED BY <1>1, <1>2, <1>3 DEF Typed, Rows

LEMMA CreateClientActionTyped ==
  ASSUME Typed, NEW c \in Call, NEW g \in Generation, NEW client \in Client,
         CreateClientAction(c, g, client)
  PROVE  Typed'
<1>1. UNCHANGED <<script, turn, pass, row, exec, reply, receipt, losses>>
  BY DEF CreateClientAction
<1>2. question' \in [Turn -> Seq(Question)]
  BY QAsks DEF CreateClientAction, Typed
<1>3. QED BY <1>1, <1>2 DEF Typed, Rows, ResultsClose, Replays

LEMMA HandlerReturnsTyped ==
  ASSUME Typed, NEW c \in Call, NEW g \in Generation, HandlerReturns(c, g)
  PROVE  Typed'
<1>1. UNCHANGED <<script, turn, pass, row, question, reply, receipt, losses>>
  BY DEF HandlerReturns
<1>2. exec' \in [Call -> [Generation -> ExecRow]] /\ ResultsClose'
  <2>1. \A r \in Closed \cup {"waiting"} :
          /\ [at |-> "finishing", result |-> r] \in ExecRow
          /\ r # "none"
    BY DEF ExecRow, Open, Closing, Closed
  <2>2. QED BY <2>1, ExecTyped DEF HandlerReturns, Goes, Closed
<1>3. QED BY <1>1, <1>2 DEF Typed, Rows

LEMMA HandlerRaisesTyped ==
  ASSUME Typed, NEW c \in Call, NEW g \in Generation, HandlerRaises(c, g)
  PROVE  Typed'
<1>1. UNCHANGED <<script, turn, pass, row, question, reply, receipt, losses>>
  BY DEF HandlerRaises
<1>2. exec' \in [Call -> [Generation -> ExecRow]] /\ ResultsClose'
  <2>1. \A r \in Closed \cup {"waiting"} :
          /\ [at |-> "finishing", result |-> r] \in ExecRow
          /\ r # "none"
    BY DEF ExecRow, Open, Closing, Closed
  <2>2. QED BY <2>1, ExecTyped DEF HandlerRaises, Goes, Closed, Ambiguous
<1>3. QED BY <1>1, <1>2 DEF Typed, Rows

LEMMA StopPassTyped ==
  ASSUME Typed, NEW t \in Turn, NEW g \in Generation, StopPass(t, g)
  PROVE  Typed'
<1>1. UNCHANGED <<script, turn, row, exec, question, reply, receipt, losses>>
  BY DEF StopPass
<1>2. pass' \in [Turn -> [Generation -> PassRow]]
  BY PassRows, PassTyped DEF StopPass, PassAt, Typed
<1>3. QED BY <1>1, <1>2 DEF Typed, Rows, ResultsClose, Replays

LEMMA CancelExecutionTyped ==
  ASSUME Typed, NEW c \in Call, NEW g \in Generation, CancelExecution(c, g)
  PROVE  Typed'
<1>1. UNCHANGED <<script, turn, pass, row, question, reply, receipt, losses>>
  BY DEF CancelExecution
<1>2. exec' \in [Call -> [Generation -> ExecRow]] /\ ResultsClose'
  <2>1. \A r \in Closed \cup {"waiting"} :
          /\ [at |-> "finishing", result |-> r] \in ExecRow
          /\ r # "none"
    BY DEF ExecRow, Open, Closing, Closed
  <2>2. QED BY <2>1, ExecTyped DEF CancelExecution, Goes, Closed, Ambiguous
<1>3. QED BY <1>1, <1>2 DEF Typed, Rows

LEMMA FinishReadTyped ==
  ASSUME Typed, NEW c \in Call, NEW g \in Generation, FinishRead(c, g)
  PROVE  Typed'
<1>1. UNCHANGED <<script, turn, pass, row, question, reply, receipt, losses>>
  BY DEF FinishRead
<1>2. exec' \in [Call -> [Generation -> ExecRow]] /\ ResultsClose'
  <2> DEFINE r == Reclassified(c, exec[c][g].result)
              replay == exec[c][g].at = "replayed"
  <2>1. exec[c][g] \in ExecRow /\ exec[c][g].result # "none"
    BY DEF FinishRead, Typed, Rows, ResultsClose, Closing
  <2>2. r \in Closed \cup {"waiting"}
    BY <2>1 DEF Reclassified, Ambiguous, Closed, ExecRow
  <2>3. replay => r \in {"cancelled", "unknown"}
    BY DEF Reclassified, Ambiguous, Typed, ResultsClose, Replays
  <2>4. \A at \in {"rewriting", "writing", "late"} :
          /\ [at |-> at, result |-> r] \in ExecRow
          /\ r # "none"
    BY <2>2 DEF ExecRow, Open, Closing, Closed
  <2>5. NoExec \in ExecRow /\ NoExec.at = "idle"
    BY DEF ExecRow, NoExec
  <2> DEFINE x == IF Current(Owner[c], g) /\ row[c].generation = g
                    THEN [at |-> IF replay THEN "rewriting" ELSE "writing",
                          result |-> r]
                    ELSE IF RecordsLate(c, g, r) /\ r # row[c].status
                      THEN [at |-> IF replay THEN "rewriting" ELSE "late",
                            result |-> r]
                      ELSE NoExec
  <2>6. ExecIs(c, g, x)
    BY DEF FinishRead, Goes, Ends
  <2>7. /\ x \in ExecRow
        /\ x.at \in Closing => x.result # "none"
        /\ x.at \in {"replayed", "rewriting"} =>
             x.result \in {"cancelled", "unknown"}
    BY <2>3, <2>4, <2>5 DEF Closing
  <2> HIDE DEF x
  <2>8. QED BY <2>6, <2>7, ExecTyped
<1>3. QED BY <1>1, <1>2 DEF Typed, Rows

LEMMA FinishDeletedTyped ==
  ASSUME Typed, NEW c \in Call, NEW g \in Generation, FinishDeleted(c, g)
  PROVE  Typed'
<1>1. UNCHANGED <<script, turn, pass, row, question, reply, losses>>
  BY DEF FinishDeleted
<1>2. receipt' \in [Call -> {"none", "open", "settled", "expired"}]
  BY DEF FinishDeleted, Typed, Rows
<1>3. exec' \in [Call -> [Generation -> ExecRow]] /\ ResultsClose'
  <2>1. NoExec \in ExecRow /\ NoExec.at \notin Closing
    BY DEF ExecRow, NoExec, Closing
  <2>2. QED BY <2>1, ExecTyped DEF FinishDeleted, Ends, Closing
<1>4. QED BY <1>1, <1>2, <1>3 DEF Typed, Rows

LEMMA FinishWriteTyped ==
  ASSUME Typed, NEW c \in Call, NEW g \in Generation, FinishWrite(c, g)
  PROVE  Typed'
<1>1. UNCHANGED <<script, turn, reply, receipt, losses>>
  BY DEF FinishWrite
<1>2. row' \in [Call -> CallRow]
  <2>1. exec[c][g].result \in Closed \cup {"waiting"}
    BY DEF FinishWrite, Typed, Rows, ExecRow, ResultsClose, Closing
  <2>2. row \in [Call -> CallRow] BY DEF Typed, Rows
  <2>3. QED BY <2>1, <2>2 DEF FinishWrite, CallRow
<1>3. exec' \in [Call -> [Generation -> ExecRow]] /\ ResultsClose'
  <2>1. NoExec \in ExecRow /\ NoExec.at \notin Closing
    BY DEF ExecRow, NoExec, Closing
  <2>2. QED BY <2>1, ExecTyped DEF FinishWrite, Ends, Closing
<1>4. question' \in [Turn -> Seq(Question)]
  <2>1. None \in Client \cup {None}
    OBVIOUS
  <2>2. \A kind \in AskKind(c) :
          kind \in {"approval", "connection", "client_readiness",
                    "fact_confirmation"}
    BY DEF AskKind
  <2>3. CASE UNCHANGED question
    BY <2>3 DEF Typed, Rows
  <2>4. CASE \E kind \in AskKind(c) : Ask(c, kind, None)
    BY <2>1, <2>2, <2>4, QAsks DEF Typed
  <2>5. QED BY <2>3, <2>4 DEF FinishWrite
<1>5. pass' \in [Turn -> [Generation -> PassRow]]
  <2>1. Owner[c] \in Turn BY Bounds
  <2>2. UNCHANGED pass \/ PassAt(Owner[c], g, "asking")
    BY DEF FinishWrite
  <2>3. QED BY <2>1, <2>2, PassRows, PassTyped DEF PassAt, Typed, Rows
<1>6. QED BY <1>1, <1>2, <1>3, <1>4, <1>5 DEF Typed, Rows

LEMMA FinishLateTyped ==
  ASSUME Typed, NEW c \in Call, NEW g \in Generation, FinishLate(c, g)
  PROVE  Typed'
<1>1. UNCHANGED <<script, turn, pass, question, reply, receipt, losses>>
  BY DEF FinishLate
<1>2. row' \in [Call -> CallRow]
  <2>1. exec[c][g].result \in Closed \cup {"waiting"}
    BY DEF FinishLate, Typed, Rows, ExecRow, ResultsClose, Closing
  <2>2. row \in [Call -> CallRow] BY DEF Typed, Rows
  <2>3. QED BY <2>1, <2>2 DEF FinishLate, CallRow
<1>3. exec' \in [Call -> [Generation -> ExecRow]] /\ ResultsClose'
  <2>1. NoExec \in ExecRow /\ NoExec.at \notin Closing
    BY DEF ExecRow, NoExec, Closing
  <2>2. QED BY <2>1, ExecTyped DEF FinishLate, Ends, Closing
<1>4. QED BY <1>1, <1>2, <1>3 DEF Typed, Rows

LEMMA WaitTurnTyped ==
  ASSUME Typed, NEW t \in Turn, NEW g \in Generation, WaitTurn(t, g)
  PROVE  Typed'
<1>1. UNCHANGED <<script, row, exec, question, reply, receipt, losses>>
  BY DEF WaitTurn
<1>2. turn' \in [Turn -> TurnRow]
  <2>1. turn \in [Turn -> TurnRow] BY DEF Typed, Rows
  <2>2. turn' = turn \/ turn' = [turn EXCEPT ![t].status = "waiting"]
    BY DEF WaitTurn
  <2>3. QED BY <2>1, <2>2 DEF TurnRow, Active
<1>3. pass' \in [Turn -> [Generation -> PassRow]]
  BY PassRows, PassTyped DEF WaitTurn, EndPass, Typed
<1>4. QED BY <1>1, <1>2, <1>3 DEF Typed, Rows, ResultsClose, Replays

LEMMA FinishTurnTyped ==
  ASSUME Typed, NEW t \in Turn, NEW g \in Generation, FinishTurn(t, g)
  PROVE  Typed'
<1>1. UNCHANGED <<script, row, exec, question, reply, receipt, losses>>
  BY DEF FinishTurn
<1>2. turn' \in [Turn -> TurnRow]
  <2>1. turn \in [Turn -> TurnRow] BY DEF Typed, Rows
  <2>2. QED BY <2>1 DEF FinishTurn, EndTurn, TurnRow
<1>3. pass' \in [Turn -> [Generation -> PassRow]]
  BY PassRows, PassTyped DEF FinishTurn, EndPass, Typed
<1>4. QED BY <1>1, <1>2, <1>3 DEF Typed, Rows, ResultsClose, Replays

LEMMA CancelTurnTyped ==
  ASSUME Typed, NEW t \in Turn, CancelTurn(t)
  PROVE  Typed'
<1>1. UNCHANGED <<script, pass, row, exec, question, reply, receipt, losses>>
  BY DEF CancelTurn
<1>2. turn' \in [Turn -> TurnRow]
  <2>1. turn \in [Turn -> TurnRow] BY DEF Typed, Rows
  <2>2. QED BY <2>1 DEF CancelTurn, TurnRow
<1>3. QED BY <1>1, <1>2 DEF Typed, Rows, ResultsClose, Replays

LEMMA CloseTurnTyped ==
  ASSUME Typed, NEW t \in Turn, CloseTurn(t)
  PROVE  Typed'
<1>1. UNCHANGED <<script, pass, row, exec, question, reply, receipt, losses>>
  BY DEF CloseTurn
<1>2. turn' \in [Turn -> TurnRow]
  <2>1. turn \in [Turn -> TurnRow] BY DEF Typed, Rows
  <2>2. turn' = [turn EXCEPT ![t].status = "closed",
                            ![t].cancel = FALSE, ![t].interrupted = FALSE]
    BY DEF CloseTurn, EndTurn
  <2>3. ASSUME NEW x \in TurnRow
        PROVE  [x EXCEPT !.status = "closed", !.cancel = FALSE,
                         !.interrupted = FALSE] \in TurnRow
    BY DEF TurnRow
  <2>4. QED BY <2>1, <2>2, <2>3
<1>3. QED BY <1>1, <1>2 DEF Typed, Rows, ResultsClose, Replays

LEMMA InterruptTyped ==
  ASSUME Typed, NEW t \in Turn, Interrupt(t)
  PROVE  Typed'
<1>1. UNCHANGED <<script, pass, exec, question, reply, receipt, losses>>
  BY DEF Interrupt
<1>2. turn' \in [Turn -> TurnRow]
  <2>1. turn[t].generation + 1 \in Generation
    BY ConstantsOK, Numbers DEF Interrupt, Generation, Typed
  <2>2. turn \in [Turn -> TurnRow] BY DEF Typed, Rows
  <2>3. QED BY <2>1, <2>2 DEF Interrupt, TurnRow
<1>3. row' \in [Call -> CallRow]
  <2>1. row \in [Call -> CallRow] BY DEF Typed, Rows
  <2>2. QED BY <2>1 DEF Interrupt, Interrupted, CallRow, Closed
<1>4. QED BY <1>1, <1>2, <1>3 DEF Typed, Rows, ResultsClose, Replays

LEMMA RecoverTurnTyped ==
  ASSUME Typed, NEW c \in Call, RecoverTurn(c)
  PROVE  Typed'
<1>1. UNCHANGED <<script, pass, exec, question, reply, receipt, losses>>
  BY DEF RecoverTurn
<1>2. turn' \in [Turn -> TurnRow]
  <2>1. Owner[c] \in Turn BY Bounds
  <2>2. turn[Owner[c]].status = "running" =>
          turn[Owner[c]].generation + 1 \in Generation
    BY <2>1, ConstantsOK, Numbers DEF RecoverTurn, Generation, Typed
  <2>3. \E s \in {"waiting", "pending"},
           n \in Generation :
             turn' = [turn EXCEPT ![Owner[c]].status = s,
                                  ![Owner[c]].generation = n]
    BY <2>1, <2>2, Numbers DEF RecoverTurn, Typed
  <2>4. turn \in [Turn -> TurnRow] BY DEF Typed, Rows
  <2>5. QED BY <2>1, <2>3, <2>4 DEF TurnRow, Active
<1>3. row' \in [Call -> CallRow]
  <2>1. row \in [Call -> CallRow] BY DEF Typed, Rows
  <2>2. row' = [row EXCEPT ![c].status = "waiting", ![c].recovered = TRUE]
    BY DEF RecoverTurn
  <2>3. QED BY <2>1, <2>2 DEF CallRow
<1>4. QED BY <1>1, <1>2, <1>3 DEF Typed, Rows, ResultsClose, Replays

LEMMA AnswerTyped ==
  ASSUME Typed, NEW t \in Turn, NEW i \in DOMAIN question[t],
         NEW status \in {"resolved", "rejected"},
         Answer(t, i, status)
  PROVE  Typed'
<1>1. UNCHANGED <<script, pass, row, exec, reply, receipt, losses>>
  BY DEF Answer
<1>2. turn' \in [Turn -> TurnRow]
  <2>1. turn[t].generation + 1 \in Generation
    BY ConstantsOK, Numbers DEF Answer, Resume, Generation, Typed
  <2>2. turn \in [Turn -> TurnRow] BY DEF Typed, Rows
  <2>3. turn' = [turn EXCEPT ![t].status = "pending", ![t].cancel = FALSE,
                            ![t].generation = turn[t].generation + 1]
    BY DEF Answer, Resume
  <2>4. ASSUME NEW x \in TurnRow, NEW n \in Generation
        PROVE  [x EXCEPT !.status = "pending", !.cancel = FALSE,
                         !.generation = n] \in TurnRow
    BY DEF TurnRow, Active
  <2>5. QED BY <2>1, <2>2, <2>3, <2>4
<1>3. question' \in [Turn -> Seq(Question)]
  BY QuestionRows, QMoves DEF Answer, Resolve, Typed
<1>4. QED BY <1>1, <1>2, <1>3 DEF Typed, Rows, ResultsClose, Replays

LEMMA AnswerCancelsTyped ==
  ASSUME Typed, NEW t \in Turn, NEW i \in DOMAIN question[t],
         AnswerCancels(t, i)
  PROVE  Typed'
<1>1. UNCHANGED <<script, pass, row, exec, reply, receipt, losses>>
  BY DEF AnswerCancels
<1>2. turn' \in [Turn -> TurnRow]
  <2>1. turn \in [Turn -> TurnRow] BY DEF Typed, Rows
  <2>2. QED BY <2>1 DEF AnswerCancels, TurnRow
<1>3. question' \in [Turn -> Seq(Question)]
  BY QuestionRows, QMoves DEF AnswerCancels, Resolve, Typed
<1>4. QED BY <1>1, <1>2, <1>3 DEF Typed, Rows, ResultsClose, Replays

LEMMA TakeoverTyped ==
  ASSUME Typed, NEW t \in Turn, NEW i \in DOMAIN question[t],
         NEW client \in Client, Takeover(t, i, client)
  PROVE  Typed'
<1>1. UNCHANGED <<script, turn, pass, row, exec, reply, receipt, losses>>
  BY DEF Takeover
<1>2. question' \in [Turn -> Seq(Question)]
  <2>1. question[t][i] \in Question
    BY QuestionRows DEF Typed
  <2>2. [question[t][i] EXCEPT !.client = client,
           !.version = question[t][i].version + 1] \in Question
    <3>1. question[t][i].version + 1 \in 1 .. MaxTakeovers + 1
      BY <2>1, ConstantsOK DEF Takeover, Question
    <3>2. QED BY <2>1, <3>1 DEF Question
  <2>3. QED BY <2>2, QMoves DEF Takeover, Typed
<1>3. QED BY <1>1, <1>2 DEF Typed, Rows, ResultsClose, Replays

LEMMA ReadClientActionTyped ==
  ASSUME Typed, NEW t \in Turn, NEW i \in DOMAIN question[t],
         ReadClientAction(t, i)
  PROVE  Typed'
<1>1. UNCHANGED <<script, turn, pass, row, exec, question, receipt, losses>>
  BY DEF ReadClientAction
<1>2. reply' \in [Turn -> Reply]
  <2>1. question[t][i] \in Question /\ i \in Nat
    BY QuestionRows DEF Typed
  <2>2. [index |-> i, client |-> question[t][i].client,
         version |-> question[t][i].version] \in Reply
    BY <2>1, ConstantsOK DEF Question, Reply
  <2>3. QED BY <2>2 DEF ReadClientAction, Typed, Rows
<1>3. QED BY <1>1, <1>2 DEF Typed, Rows, ResultsClose, Replays

LEMMA ResolveClientActionTyped ==
  ASSUME Typed, NEW t \in Turn, ResolveClientAction(t)
  PROVE  Typed'
<1>1. UNCHANGED <<script, pass, row, exec, receipt, losses>>
  BY DEF ResolveClientAction
<1>2. turn' \in [Turn -> TurnRow]
  <2>1. Resume(t) => turn[t].generation + 1 \in Generation
    BY ConstantsOK, Numbers DEF Resume, Generation, Typed
  <2>2. turn \in [Turn -> TurnRow] BY DEF Typed, Rows
  <2>3. QED BY <2>1, <2>2 DEF ResolveClientAction, Resume, TurnRow, Active
<1>3. question' \in [Turn -> Seq(Question)]
  <2>1. CASE UNCHANGED question
    BY <2>1 DEF Typed, Rows
  <2>2. CASE /\ reply[t].index \in DOMAIN question[t]
             /\ Resolve(t, reply[t].index, "resolved")
    BY <2>2, QuestionRows, QMoves DEF Resolve, Typed
  <2>3. QED BY <2>1, <2>2 DEF ResolveClientAction
<1>4. reply' \in [Turn -> Reply]
  <2>1. NoReply \in Reply BY ConstantsOK DEF NoReply, Reply
  <2>2. QED BY <2>1 DEF ResolveClientAction, Typed, Rows
<1>5. QED BY <1>1, <1>2, <1>3, <1>4 DEF Typed, Rows, ResultsClose, Replays

LEMMA DeleteConversationTyped ==
  ASSUME Typed, NEW t \in Turn, DeleteConversation(t)
  PROVE  Typed'
<1>1. UNCHANGED <<script, pass, exec, reply, losses>>
  BY DEF DeleteConversation
<1>2. turn' \in [Turn -> TurnRow]
  <2>1. 1 \in Generation BY ConstantsOK DEF Generation
  <2>2. QED BY <2>1 DEF DeleteConversation, NewTurn, Typed, Rows, TurnRow
<1>3. row' \in [Call -> CallRow]
  BY DEF DeleteConversation, NoRow, Typed, Rows, CallRow
<1>4. question' \in [Turn -> Seq(Question)]
  BY DEF DeleteConversation, Typed, Rows
<1>5. receipt' \in [Call -> {"none", "open", "settled", "expired"}]
  BY DEF DeleteConversation, Typed, Rows
<1>6. QED BY <1>1, <1>2, <1>3, <1>4, <1>5 DEF Typed, Rows, ResultsClose,
  Replays

LEMMA ExpireReceiptTyped ==
  ASSUME Typed, NEW c \in Call, ExpireReceipt(c)
  PROVE  Typed'
<1>1. UNCHANGED <<script, turn, pass, row, exec, question, reply, losses>>
  BY DEF ExpireReceipt
<1>2. receipt' \in [Call -> {"none", "open", "settled", "expired"}]
  BY DEF ExpireReceipt, Typed, Rows
<1>3. QED BY <1>1, <1>2 DEF Typed, Rows, ResultsClose, Replays

LEMMA CrashTyped ==
  ASSUME Typed, NEW t \in Turn, NEW g \in Generation, Crash(t, g)
  PROVE  Typed'
<1>1. UNCHANGED <<script, turn, row, question, reply, receipt>>
  BY DEF Crash
<1>2. pass' \in [Turn -> [Generation -> PassRow]]
  BY PassRows, PassTyped DEF Crash, EndPass, Typed
<1>3. losses' \in [Turn -> Nat]
  BY DEF Crash, Fault, Typed, Rows
<1>4. exec' \in [Call -> [Generation -> ExecRow]] /\ ResultsClose'
  <2>1. NoExec \in ExecRow /\ NoExec.at \notin Closing
    BY DEF NoExec, ExecRow, Closing
  <2>2. ASSUME NEW d \in Call
        PROVE  /\ exec'[d] \in [Generation -> ExecRow]
               /\ \A h \in Generation : exec'[d][h] \in {exec[d][h], NoExec}
    BY <2>1 DEF Crash, Typed, Rows
  <2>3. exec' \in [Call -> [Generation -> ExecRow]]
    BY <2>2 DEF Crash
  <2>4. QED BY <2>1, <2>2, <2>3 DEF Typed, ResultsClose, Replays, Closing
<1>5. QED BY <1>1, <1>2, <1>3, <1>4 DEF Typed, Rows

LEMMA LoseFinishTyped ==
  ASSUME Typed, NEW c \in Call, NEW g \in Generation, LoseFinish(c, g)
  PROVE  Typed'
<1>1. UNCHANGED <<script, turn, pass, row, question, reply, receipt>>
  BY DEF LoseFinish
<1>2. losses' \in [Turn -> Nat]
  <2>1. Owner[c] \in Turn BY Bounds
  <2>2. QED BY <2>1 DEF LoseFinish, Fault, Typed, Rows
<1>3. exec' \in [Call -> [Generation -> ExecRow]] /\ ResultsClose'
  <2>1. NoExec \in ExecRow /\ NoExec.at \notin Closing
    BY DEF ExecRow, NoExec, Closing
  <2>2. QED BY <2>1, ExecTyped DEF LoseFinish, Ends, Closing
<1>4. QED BY <1>1, <1>2, <1>3 DEF Typed, Rows

(* The actions together.                                                   *)
LEMMA TurnStepTyped ==
  ASSUME Typed, NEW t \in Turn, TurnStep(t)
  PROVE  Typed'
BY ClaimTyped, CancelTurnTyped, CloseTurnTyped, InterruptTyped,
   ResolveClientActionTyped, DeleteConversationTyped DEF TurnStep

LEMMA PassStepTyped ==
  ASSUME Typed, NEW t \in Turn, NEW g \in Generation, PassStep(t, g)
  PROVE  Typed'
<1>1. CallsOf(t) \subseteq Call BY Bounds
<1>2. CASE \E c \in CallsOf(t) :
             \/ \E S \in SUBSET CallsOf(t) : Defer(t, g, c, S)
             \/ Start(t, g, c)
             \/ ReplayCancelled(t, g, c)
  BY <1>1, <1>2, DeferTyped, StartTyped, ReplayCancelledTyped
<1>3. CASE \/ Load(t, g) \/ RejectWaiting(t, g) \/ CancelDeferred(t, g)
           \/ StartAsking(t, g) \/ StopPass(t, g) \/ WaitTurn(t, g)
           \/ FinishTurn(t, g) \/ Crash(t, g)
  BY <1>3, LoadTyped, RejectWaitingTyped, CancelDeferredTyped,
     StartAskingTyped, StopPassTyped, WaitTurnTyped, FinishTurnTyped,
     CrashTyped
<1>4. QED BY <1>2, <1>3 DEF PassStep

LEMMA CallStepTyped ==
  ASSUME Typed, NEW c \in Call, NEW g \in Generation, CallStep(c, g)
  PROVE  Typed'
BY MarkHandlerStartedTyped, CreateClientActionTyped, HandlerReturnsTyped,
   HandlerRaisesTyped, CancelExecutionTyped, FinishReadTyped,
   FinishDeletedTyped, FinishWriteTyped, FinishLateTyped, LoseFinishTyped
   DEF CallStep

LEMMA QuestionStepTyped ==
  ASSUME Typed, NEW t \in Turn, NEW i \in DOMAIN question[t],
         QuestionStep(t, i)
  PROVE  Typed'
BY AnswerTyped, AnswerCancelsTyped, TakeoverTyped, ReadClientActionTyped
   DEF QuestionStep

LEMMA TypedStep ==
  ASSUME Typed, [Next]_vars
  PROVE  Typed'
<1>1. ASSUME NEW t \in Turn, NEW g \in 1 .. LastGeneration[t], PassStep(t, g)
      PROVE  Typed'
  BY <1>1, Bounds, PassStepTyped
<1>2. ASSUME NEW c \in Call, NEW g \in 1 .. LastGeneration[Owner[c]],
             CallStep(c, g)
      PROVE  Typed'
  BY <1>2, Bounds, CallStepTyped
<1>3. QED
  BY <1>1, <1>2, TurnStepTyped, QuestionStepTyped, RecoverTurnTyped,
     ExpireReceiptTyped, Unchanged DEF Next

(* Every reachable state is typed, and every execution that is about to    *)
(* close a call has a result for it.                                       *)
THEOREM TypedHolds == Spec => []Typed
<1>1. Init => Typed BY InitTyped
<1>2. Typed /\ [Next]_vars => Typed' BY TypedStep
<1>3. QED BY <1>1, <1>2, PTL DEF Spec

(* The type invariant: no step takes a row, a pass, an execution, a        *)
(* question or a receipt out of the values the columns and the code know.  *)
THEOREM TypeCorrect == Spec => []TypeOK
<1>1. Typed => TypeOK BY RowsAreTyped DEF Typed
<1>2. QED BY <1>1, TypedHolds, PTL

-----------------------------------------------------------------------------

(* What a step may do to a mutation of the world outside of which nobody   *)
(* knows the outcome.                                                      *)
Keeps(c) ==
  (Effect[c] \in Reconciled /\ Blocking(c) /\ ~Blocking(c)') =>
    \/ receipt'[c] = "expired"
    \/ \E g \in Generation : /\ exec[c][g].at \in Closing
                             /\ exec'[c][g].at = "idle"
KeepsAll == \A c \in Call : Keeps(c)

(* A step that leaves the receipts alone and every pending call pending    *)
(* keeps every resource; so does one that leaves the rows alone.           *)
LEMMA StillPending ==
  ASSUME UNCHANGED receipt,
         \A c \in Call : Effect[c] \in Reconciled /\ Pending(c) => Pending(c)'
  PROVE  KeepsAll
BY DEF KeepsAll, Keeps, Blocking

LEMMA SameRows ==
  ASSUME UNCHANGED <<row, receipt>>
  PROVE  KeepsAll
BY StillPending DEF Pending

(* A step that ends an execution of c may free the resource of c, and      *)
(* that of no other call.                                                  *)
LEMMA OneCloses ==
  ASSUME Typed, NEW c \in Call, NEW g \in Generation, Ends(c, g),
         exec[c][g].at \in Closing,
         \A d \in Call \ {c} : row'[d] = row[d] /\ receipt'[d] = receipt[d]
  PROVE  KeepsAll
<1>1. exec'[c][g].at = "idle"
  BY ExecMoves DEF Typed, Ends, NoExec
<1>2. QED BY <1>1 DEF KeepsAll, Keeps, Blocking, Pending

(* The steps of a turn: an interrupt turns running into unknown, a         *)
(* deletion turns both into an open receipt.                               *)
LEMMA TurnStepKeeps ==
  ASSUME Typed, NEW t \in Turn, TurnStep(t)
  PROVE  KeepsAll
<1>1. CASE Interrupt(t)
  <2>1. ASSUME NEW c \in Call, Effect[c] \in Reconciled, Pending(c)
        PROVE  Pending(c)'
    BY <1>1, <2>1 DEF Interrupt, Interrupted, Pending, Unresolved, Typed,
       Rows,
       CallRow, Reconciled
  <2>2. QED BY <1>1, <2>1, StillPending DEF Interrupt
<1>2. CASE DeleteConversation(t)
  <2>1. ASSUME NEW c \in Call, Effect[c] \in Reconciled, Blocking(c)
        PROVE  Blocking(c)'
    <3>1. CASE Owner[c] = t
      BY <1>2, <2>1, <3>1 DEF DeleteConversation, Blocking, Pending,
         LeavesReceipt
    <3>2. CASE Owner[c] # t
      BY <1>2, <2>1, <3>2 DEF DeleteConversation, Blocking, Pending
    <3>3. QED BY <3>1, <3>2
  <2>2. QED BY <2>1 DEF KeepsAll, Keeps
<1>3. CASE Claim(t) \/ CancelTurn(t) \/ CloseTurn(t) \/ ResolveClientAction(t)
  BY <1>3, SameRows DEF Claim, CancelTurn, CloseTurn, ResolveClientAction
<1>4. QED BY <1>1, <1>2, <1>3 DEF TurnStep

(* The steps of a pass: what they write was not pending.                   *)
LEMMA PassStepKeeps ==
  ASSUME Typed, NEW t \in Turn, NEW g \in Generation, PassStep(t, g)
  PROVE  KeepsAll
<1>1. CallsOf(t) \subseteq Call BY Bounds
<1>2. row \in [Call -> CallRow] BY DEF Typed, Rows
<1>3. CASE RejectWaiting(t, g)
  BY <1>2, <1>3, StillPending DEF RejectWaiting, Pending, Unresolved, CallRow
<1>4. CASE CancelDeferred(t, g)
  BY <1>2, <1>4, StillPending DEF CancelDeferred, Pending, Unresolved,
     CallRow
<1>5. ASSUME NEW c \in CallsOf(t), NEW S \in SUBSET CallsOf(t),
             Defer(t, g, c, S)
      PROVE  KeepsAll
  BY <1>2, <1>5, StillPending DEF Defer, Pending, Unresolved, CallRow
<1>6. ASSUME NEW c, NEW allowed, UNCHANGED receipt, Admits(t, g, c),
             Register(c, g, allowed)
      PROVE  KeepsAll
  <2>1. row[c].status \in {"absent", "waiting", "deferred"}
    BY <1>6 DEF Admits, Fresh, Suspended
  <2>2. \A d \in Call \ {c} : row'[d] = row[d]
    BY <1>2, <1>6 DEF Register
  <2>3. QED BY <1>6, <2>1, <2>2, StillPending DEF Pending, Unresolved
<1>7. ASSUME NEW c \in CallsOf(t), Start(t, g, c)
      PROVE  KeepsAll
  BY <1>6, <1>7 DEF Start
<1>8. CASE StartAsking(t, g)
  BY <1>6, <1>8, SameRows DEF StartAsking
<1>9. ASSUME NEW c \in CallsOf(t), ReplayCancelled(t, g, c)
      PROVE  KeepsAll
  BY <1>9, SameRows DEF ReplayCancelled
<1>10. CASE \/ Load(t, g) \/ StopPass(t, g) \/ WaitTurn(t, g)
            \/ FinishTurn(t, g) \/ Crash(t, g)
  BY <1>10, SameRows DEF Load, StopPass, WaitTurn, FinishTurn, Crash
<1>11. QED
  BY <1>3, <1>4, <1>5, <1>7, <1>8, <1>9, <1>10 DEF PassStep

(* The steps of a call: only its own executions close it.                  *)
LEMMA CallStepKeeps ==
  ASSUME Typed, NEW c \in Call, NEW g \in Generation, CallStep(c, g)
  PROVE  KeepsAll
<1>1. CASE MarkHandlerStarted(c, g)
  <2>1. row \in [Call -> CallRow] /\ UNCHANGED receipt
    BY <1>1 DEF MarkHandlerStarted, Typed, Rows
  <2>2. row' = row \/ row' = [row EXCEPT ![c].started = TRUE]
    BY <1>1 DEF MarkHandlerStarted
  <2>3. ASSUME NEW d \in Call
        PROVE  /\ row'[d].status = row[d].status
               /\ row'[d].allowed = row[d].allowed
    BY <2>1, <2>2 DEF CallRow
  <2>4. QED BY <2>1, <2>3, StillPending DEF Pending
<1>2. CASE FinishDeleted(c, g)
  BY <1>2, OneCloses DEF FinishDeleted, Closing, Typed, Rows
<1>3. CASE FinishWrite(c, g)
  BY <1>3, OneCloses DEF FinishWrite, Closing, Typed, Rows
<1>4. CASE FinishLate(c, g)
  BY <1>4, OneCloses DEF FinishLate, Closing, Typed, Rows
<1>5. CASE \/ \E client \in Client : CreateClientAction(c, g, client)
           \/ HandlerReturns(c, g) \/ HandlerRaises(c, g)
           \/ CancelExecution(c, g) \/ FinishRead(c, g) \/ LoseFinish(c, g)
  BY <1>5, SameRows DEF CreateClientAction, HandlerReturns, HandlerRaises,
     CancelExecution, FinishRead, LoseFinish
<1>6. QED BY <1>1, <1>2, <1>3, <1>4, <1>5 DEF CallStep

LEMMA OtherStepsKeep ==
  ASSUME Typed
  PROVE  /\ \A t \in Turn : \A i \in DOMAIN question[t] :
              QuestionStep(t, i) => KeepsAll
         /\ \A c \in Call : RecoverTurn(c) \/ ExpireReceipt(c) => KeepsAll
<1>1. ASSUME NEW t \in Turn, NEW i \in DOMAIN question[t], QuestionStep(t, i)
      PROVE  KeepsAll
  BY <1>1, SameRows DEF QuestionStep, Answer, AnswerCancels, Takeover,
     ReadClientAction
<1>2. ASSUME NEW c \in Call, RecoverTurn(c)
      PROVE  KeepsAll
  <2>1. Effect[c] \notin Reconciled
    BY <1>2, ConstantsOK DEF RecoverTurn, Reconciled
  <2>2. /\ \A d \in Call \ {c} : row'[d] = row[d]
        /\ UNCHANGED receipt
    BY <1>2 DEF RecoverTurn, Typed, Rows
  <2>3. QED BY <2>1, <2>2, StillPending DEF Pending
<1>3. ASSUME NEW c \in Call, ExpireReceipt(c)
      PROVE  KeepsAll
  BY <1>3 DEF ExpireReceipt, KeepsAll, Keeps, Blocking, Pending, Typed, Rows
<1>4. QED BY <1>1, <1>2, <1>3

(* A mutation of the world outside nobody knows the end of keeps its       *)
(* resource through interrupts, crashes, cancellations, recoveries and     *)
(* deletions, until one of its own executions reports an end or the        *)
(* safety window of its receipt is over.                                   *)
THEOREM UnknownKept == Spec => UnknownKeepsResource
<1>1. ASSUME Typed, [Next]_vars PROVE [KeepsAll]_vars
  <2>1. ASSUME NEW t \in Turn, NEW g \in 1 .. LastGeneration[t],
               PassStep(t, g)
        PROVE  KeepsAll
    BY <1>1, <2>1, Bounds, PassStepKeeps
  <2>2. ASSUME NEW c \in Call, NEW g \in 1 .. LastGeneration[Owner[c]],
               CallStep(c, g)
        PROVE  KeepsAll
    BY <1>1, <2>2, Bounds, CallStepKeeps
  <2>3. QED
    BY <1>1, <2>1, <2>2, TurnStepKeeps, OtherStepsKeep DEF Next
<1>2. QED
  BY <1>1, TypedHolds, PTL DEF Spec, UnknownKeepsResource, KeepsAll, Keeps

-----------------------------------------------------------------------------
(* The life of a turn, as the queue that schedules it sees it.             *)

(* A row is its fields, and its view is the row until its turn is over.    *)
LEMMA LifeViews ==
  ASSUME NEW r \in TurnRow
  PROVE  /\ r = Lives!Row(r.status, r.generation, r.cancel, r.interrupted)
         /\ r.status \in Active => LifeOf(r) = r
         /\ r.status \notin Active => LifeOf(r) = Lives!Over
<1>1. r = Lives!Row(r.status, r.generation, r.cancel, r.interrupted)
  BY DEF TurnRow, Lives!Row
<1> QED  BY <1>1 DEF LifeOf, Lives!Over, Lives!Row

(* One turn moves: what its life becomes decides which step it is.         *)
LEMMA OneLifeMoves ==
  ASSUME Rows, Rows', NEW t \in Turn, turn[t].status \in Active,
         \A s \in Turn \ {t} : turn'[s] = turn[s]
  PROVE  /\ [s \in Turn |-> LifeOf(turn[s])][t] = turn[t]
         /\ turn'[t].status \in Active =>
              Lives!Becomes(t, Lives!Row(turn'[t].status, turn'[t].generation,
                                         turn'[t].cancel, turn'[t].interrupted))
         /\ turn'[t].status \notin Active => Lives!LifeNext
<1> DEFINE view == [s \in Turn |-> LifeOf(turn[s])]
           new == LifeOf(turn'[t])
<1>1. turn[t] \in TurnRow /\ turn'[t] \in TurnRow
  BY DEF Rows
<1>2. view[t] = turn[t]
  BY <1>1, LifeViews
<1>3. view' = [view EXCEPT ![t] = new]
  OBVIOUS
<1>4. Lives!Becomes(t, new)
  BY <1>3 DEF Lives!Becomes
<1>5. turn'[t].status \in Active =>
        new = Lives!Row(turn'[t].status, turn'[t].generation,
                        turn'[t].cancel, turn'[t].interrupted)
  BY <1>1, LifeViews
<1>6. ASSUME turn'[t].status \notin Active
      PROVE  Lives!LifeNext
  <2>1. new = Lives!Over
    BY <1>1, <1>6, LifeViews
  <2>2. Lives!Ending(t)
    BY <1>2, <1>4, <2>1 DEF Lives!Ending, Active
  <2> QED  BY <2>2 DEF Lives!LifeNext, Lives!LifeStep
<1> HIDE DEF new
<1> QED  BY <1>2, <1>4, <1>5, <1>6

(* A claim, a wait and an end of the pass.                                 *)
LEMMA PassLives ==
  ASSUME Rows, Rows', NEW t \in Turn, NEW g \in Generation,
         Claim(t) \/ WaitTurn(t, g) \/ FinishTurn(t, g)
  PROVE  [Lives!LifeNext]_(Lives!lifeVars)
<1>0. turn \in [Turn -> TurnRow]
  BY DEF Rows
<1>1. CASE turn' = turn
  BY <1>1 DEF Lives!lifeVars
<1>2. CASE Claim(t)
  <2>1. /\ turn[t].status = "pending" /\ turn'[t].status = "running"
        /\ turn'[t].generation = turn[t].generation
        /\ turn'[t].cancel = turn[t].cancel /\ turn'[t].interrupted = turn[t].interrupted
        /\ \A s \in Turn \ {t} : turn'[s] = turn[s]
    BY <1>0, <1>2 DEF Claim, TurnRow
  <2>2. Lives!ClaimLife(t)
    BY <2>1, OneLifeMoves DEF Lives!ClaimLife, Active
  <2> QED  BY <2>2 DEF Lives!LifeNext, Lives!LifeStep
<1>3. CASE WaitTurn(t, g) /\ turn[t].status = "running" /\ turn' # turn
  <2>1. /\ turn'[t].status = "waiting"
        /\ turn'[t].generation = turn[t].generation
        /\ turn'[t].cancel = turn[t].cancel /\ turn'[t].interrupted = turn[t].interrupted
        /\ \A s \in Turn \ {t} : turn'[s] = turn[s]
    BY <1>0, <1>3 DEF WaitTurn, TurnRow
  <2>2. Lives!Suspend(t)
    BY <1>3, <2>1, OneLifeMoves DEF Lives!Suspend, Active
  <2> QED  BY <2>2 DEF Lives!LifeNext, Lives!LifeStep
<1>4. CASE turn[t].status = "running" /\ EndTurn(t)
  <2>1. /\ turn'[t].status = "closed"
        /\ \A s \in Turn \ {t} : turn'[s] = turn[s]
    BY <1>0, <1>4 DEF EndTurn, TurnRow
  <2> QED  BY <1>4, <2>1, OneLifeMoves DEF Active
<1> QED  BY <1>1, <1>2, <1>3, <1>4 DEF WaitTurn, FinishTurn

(* What users and the monitor do to a turn.                                *)
LEMMA CommandLives ==
  ASSUME Rows, Rows', NEW t \in Turn,
         CancelTurn(t) \/ CloseTurn(t) \/ Interrupt(t) \/ DeleteConversation(t)
  PROVE  [Lives!LifeNext]_(Lives!lifeVars)
<1>0. turn \in [Turn -> TurnRow]
  BY DEF Rows
<1>1. CASE CancelTurn(t)
  <2>1. /\ turn[t].status \in Active /\ turn'[t].status = turn[t].status
        /\ turn'[t].generation = turn[t].generation
        /\ turn'[t].cancel = TRUE /\ turn'[t].interrupted = turn[t].interrupted
        /\ \A s \in Turn \ {t} : turn'[s] = turn[s]
    BY <1>0, <1>1 DEF CancelTurn, TurnRow
  <2>2. Lives!Becomes(t, Lives!Row(turn[t].status, turn[t].generation, TRUE,
                                   turn[t].interrupted))
    BY <2>1, OneLifeMoves, Zenon
  <2>3. Lives!CancelRequest(t)
    BY <2>1, <2>2, OneLifeMoves DEF Lives!CancelRequest, Active
  <2> QED  BY <2>3 DEF Lives!LifeNext, Lives!LifeStep
<1>2. CASE Interrupt(t)
  <2>1. /\ turn[t].status \in Active /\ turn'[t].status = turn[t].status
        /\ turn'[t].generation = turn[t].generation + 1
        /\ turn'[t].cancel = TRUE /\ turn'[t].interrupted = TRUE
        /\ ~turn[t].interrupted
        /\ \A s \in Turn \ {t} : turn'[s] = turn[s]
    BY <1>0, <1>2 DEF Interrupt, TurnRow
  <2>2. Lives!Becomes(t, Lives!Row(turn[t].status, turn[t].generation + 1, TRUE, TRUE))
    BY <2>1, OneLifeMoves, Zenon
  <2>3. Lives!InterruptRequest(t)
    BY <2>1, <2>2, OneLifeMoves DEF Lives!InterruptRequest, Active
  <2> QED  BY <2>3 DEF Lives!LifeNext, Lives!LifeStep
<1>3. CASE CloseTurn(t)
  <2>1. /\ turn[t].status \in Active /\ turn'[t].status = "closed"
        /\ \A s \in Turn \ {t} : turn'[s] = turn[s]
    BY <1>0, <1>3 DEF CloseTurn, EndTurn, TurnRow, Active
  <2> QED  BY <2>1, OneLifeMoves DEF Active
<1>4. CASE DeleteConversation(t)
  <2>1. /\ turn'[t].status = "deleted"
        /\ \A s \in Turn \ {t} : turn'[s] = turn[s]
    BY <1>0, <1>4 DEF DeleteConversation, NewTurn
  <2>2. CASE turn[t].status \in Active
    BY <2>1, <2>2, OneLifeMoves DEF Active
  <2>3. CASE turn[t].status \notin Active
    <3>1. turn[t] \in TurnRow /\ turn'[t] \in TurnRow
      BY DEF Rows
    <3>2. \A s \in Turn : LifeOf(turn'[s]) = LifeOf(turn[s])
      BY <2>1, <2>3, <3>1, LifeViews DEF Active
    <3> QED  BY <3>2 DEF Lives!lifeVars
  <2> QED  BY <2>2, <2>3
<1> QED  BY <1>1, <1>2, <1>3, <1>4

(* An answer resumes the turn, or cancels it.                              *)
LEMMA ResumeLives ==
  ASSUME Rows, Rows', NEW t \in Turn, Resume(t)
  PROVE  [Lives!LifeNext]_(Lives!lifeVars)
<1>1. /\ turn[t].status = "waiting" /\ turn'[t].status = "pending"
      /\ turn'[t].generation = turn[t].generation + 1
      /\ turn'[t].cancel = FALSE /\ turn'[t].interrupted = turn[t].interrupted
      /\ \A s \in Turn \ {t} : turn'[s] = turn[s]
  BY DEF Rows, Resume, TurnRow
<1>2. Lives!Becomes(t, Lives!Row("pending", turn[t].generation + 1, FALSE,
                                 turn[t].interrupted))
  <2>1. Lives!Becomes(t, Lives!Row(turn'[t].status, turn'[t].generation,
                                   turn'[t].cancel, turn'[t].interrupted))
    BY <1>1, OneLifeMoves DEF Active
  <2> QED  BY <1>1, <2>1, Zenon
<1>3. Lives!Resumption(t)
  BY <1>1, <1>2, OneLifeMoves DEF Lives!Resumption, Active
<1> QED  BY <1>3 DEF Lives!LifeNext, Lives!LifeStep

LEMMA AnswerCancelsLives ==
  ASSUME Rows, Rows', NEW t \in Turn, NEW i, AnswerCancels(t, i)
  PROVE  [Lives!LifeNext]_(Lives!lifeVars)
<1>1. CASE turn[t].status \in Active
  <2>1. /\ turn'[t].status = turn[t].status
        /\ turn'[t].generation = turn[t].generation
        /\ turn'[t].cancel = TRUE /\ turn'[t].interrupted = turn[t].interrupted
        /\ \A s \in Turn \ {t} : turn'[s] = turn[s]
    BY <1>1 DEF Rows, AnswerCancels, TurnRow
  <2>2. Lives!Becomes(t, Lives!Row(turn[t].status, turn[t].generation, TRUE,
                                   turn[t].interrupted))
    BY <1>1, <2>1, OneLifeMoves, Zenon
  <2>3. Lives!CancelRequest(t)
    BY <1>1, <2>1, <2>2, OneLifeMoves DEF Lives!CancelRequest, Active
  <2> QED  BY <2>3 DEF Lives!LifeNext, Lives!LifeStep
<1>2. CASE turn[t].status \notin Active
  <2>1. turn' = turn
    BY <1>2 DEF AnswerCancels
  <2> QED  BY <2>1 DEF Lives!lifeVars
<1> QED  BY <1>1, <1>2

(* The monitor takes a turn back, with its flags.                          *)
LEMMA RecoverLives ==
  ASSUME ConstantsOK, Rows, Rows', NEW c \in Call, RecoverTurn(c)
  PROVE  [Lives!LifeNext]_(Lives!lifeVars)
<1> DEFINE t == Owner[c]
<1>0. turn \in [Turn -> TurnRow] /\ t \in Turn
  BY DEF Rows, ConstantsOK
<1>1. /\ turn[t].status \in {"pending", "running"} /\ ~turn[t].interrupted
      /\ turn'[t].status \in {"pending", "waiting"}
      /\ turn'[t].generation = IF turn[t].status = "running"
                                 THEN turn[t].generation + 1 ELSE turn[t].generation
      /\ turn'[t].cancel = turn[t].cancel
      /\ turn'[t].interrupted = turn[t].interrupted
      /\ \A s \in Turn \ {t} : turn'[s] = turn[s]
  BY <1>0 DEF RecoverTurn, TurnRow
<1> HIDE DEF t
<1>2. turn[t].interrupted = FALSE
  BY <1>0, <1>1 DEF TurnRow
<1>3. Lives!Becomes(t, Lives!Row(turn'[t].status, turn'[t].generation,
                                 turn[t].cancel, FALSE))
  <2>1. turn[t].status \in Active /\ turn'[t].status \in Active
    BY <1>1 DEF Active
  <2> QED  BY <1>0, <1>1, <1>2, <2>1, OneLifeMoves, Zenon
<1>4. [s \in Turn |-> LifeOf(turn[s])][t] = turn[t]
  BY <1>0, <1>1, OneLifeMoves DEF Active
<1>5. PICK u : u = turn'[t].status
  OBVIOUS
<1>6. Lives!Recovery(t)
  BY <1>1, <1>3, <1>4, <1>5 DEF Lives!Recovery
<1> QED  BY <1>0, <1>6 DEF Lives!LifeNext, Lives!LifeStep

(* Every step of the executor is one of the life of one turn, or of none.  *)
LEMMA StepLives ==
  ASSUME Typed, [Next]_vars
  PROVE  [Lives!LifeNext]_(Lives!lifeVars)
<1>0. Rows /\ Rows'
  BY TypedStep DEF Typed
<1>1. CASE turn' = turn
  BY <1>1 DEF Lives!lifeVars
<1>2. ASSUME NEW t \in Turn, TurnStep(t)
      PROVE  [Lives!LifeNext]_(Lives!lifeVars)
  <2>1. CASE ResolveClientAction(t)
    BY <1>0, <1>1, <2>1, ResumeLives DEF ResolveClientAction
  <2>2. CASE Claim(t)
    <3>1. 1 \in Generation
      BY ConstantsOK DEF Generation
    <3> QED  BY <1>0, <2>2, <3>1, PassLives
  <2> QED  BY <1>0, <1>2, <2>1, <2>2, CommandLives DEF TurnStep
<1>3. ASSUME NEW t \in Turn, NEW g \in 1 .. LastGeneration[t], PassStep(t, g)
      PROVE  [Lives!LifeNext]_(Lives!lifeVars)
  <2>1. CASE WaitTurn(t, g) \/ FinishTurn(t, g)
    BY <1>0, <2>1, Bounds, PassLives
  <2>2. CASE ~(WaitTurn(t, g) \/ FinishTurn(t, g))
    <3>1. turn' = turn
      BY <1>3, <2>2 DEF PassStep, Load, RejectWaiting, CancelDeferred, Defer, Start,
         ReplayCancelled, StartAsking, StopPass, Crash
    <3> QED  BY <1>1, <3>1
  <2> QED  BY <2>1, <2>2
<1>4. ASSUME NEW c \in Call, NEW g \in 1 .. LastGeneration[Owner[c]], CallStep(c, g)
      PROVE  turn' = turn
  BY <1>4 DEF CallStep, MarkHandlerStarted, CreateClientAction, HandlerReturns,
     HandlerRaises, CancelExecution, FinishRead, FinishDeleted, FinishWrite,
     FinishLate, LoseFinish
<1>5. ASSUME NEW t \in Turn, NEW i \in DOMAIN question[t], QuestionStep(t, i)
      PROVE  [Lives!LifeNext]_(Lives!lifeVars)
  <2>1. CASE \E status \in {"resolved", "rejected"} : Answer(t, i, status)
    BY <1>0, <2>1, ResumeLives DEF Answer
  <2>2. CASE AnswerCancels(t, i)
    BY <1>0, <2>2, AnswerCancelsLives
  <2> QED  BY <1>1, <1>5, <2>1, <2>2 DEF QuestionStep, Takeover, ReadClientAction
<1>6. ASSUME NEW c \in Call, RecoverTurn(c) \/ ExpireReceipt(c)
      PROVE  [Lives!LifeNext]_(Lives!lifeVars)
  BY <1>0, <1>1, <1>6, ConstantsOK, RecoverLives DEF ExpireReceipt
<1>7. CASE UNCHANGED vars
  BY <1>1, <1>7 DEF vars
<1> QED  BY <1>1, <1>2, <1>3, <1>4, <1>5, <1>6, <1>7 DEF Next

(* The executor, its questions and the deletion do to a turn only what the *)
(* queue expects.                                                          *)
THEOREM CallsImplementLife == Spec => ImplementsLife
<1>1. ASSUME Init
      PROVE  Lives!LifeInit
  <2>1. LifeOf(NewTurn) = Lives!Unclaimed
    BY DEF LifeOf, NewTurn, Active, Lives!Unclaimed, Lives!Row
  <2>2. LifeOf([NewTurn EXCEPT !.status = "closed"]) = Lives!Over
    BY DEF LifeOf, NewTurn, Active, Lives!Over, Lives!Row
  <2>3. \A t \in Turn : \/ turn[t] = NewTurn
                        \/ turn[t] = [NewTurn EXCEPT !.status = "closed"]
    BY <1>1 DEF Init
  <2> QED  BY <2>1, <2>2, <2>3 DEF Lives!LifeInit
<1>2. Typed /\ [Next]_vars => [Lives!LifeNext]_(Lives!lifeVars)
  BY StepLives
<1> QED  BY <1>1, <1>2, TypedHolds, PTL DEF Spec, ImplementsLife, Lives!LifeSpec

(* A life moves on, or ends.                                               *)
LEMMA LifeMovesOn ==
  ASSUME Rows, NEW t \in Turn, Lives!LifeStep(t),
         NEW g \in Nat, Lives!Spent(t, g)
  PROVE  Lives!Spent(t, g)'
<1> DEFINE view == [s \in Turn |-> LifeOf(turn[s])]
<1>1. Lives!Spent(t, g) <=>
        \/ view[t].status = "over" \/ view[t].generation > g
        \/ view[t].generation = g /\ view[t].status # "pending"
  BY DEF Lives!Spent
<1>2. Lives!Spent(t, g)' <=>
        \/ view'[t].status = "over" \/ view'[t].generation > g
        \/ view'[t].generation = g /\ view'[t].status # "pending"
  BY DEF Lives!Spent
<1>3. view[t].generation \in Nat
  <2>1. turn[t] \in TurnRow
    BY DEF Rows
  <2>2. turn[t].generation \in Nat
    BY <2>1, ConstantsOK DEF TurnRow, Generation
  <2> QED  BY <2>1, <2>2, LifeViews DEF Lives!Over, Lives!Row
<1>4. ASSUME NEW s, NEW n, NEW c, NEW i, Lives!Becomes(t, Lives!Row(s, n, c, i))
      PROVE  view'[t].status = s /\ view'[t].generation = n
  <2>1. view' = [view EXCEPT ![t] = Lives!Row(s, n, c, i)]
    BY <1>4 DEF Lives!Becomes
  <2>2. view'[t] = Lives!Row(s, n, c, i)
    BY <2>1
  <2> QED  BY <2>2 DEF Lives!Row
<1>5. /\ Lives!ClaimLife(t) =>
           view[t].status = "pending" /\ view'[t].status = "running"
             /\ view'[t].generation = view[t].generation
      /\ Lives!Suspend(t) =>
           view'[t].status = "waiting" /\ view'[t].generation = view[t].generation
      /\ Lives!Resumption(t) => view'[t].generation = view[t].generation + 1
  BY <1>4 DEF Lives!ClaimLife, Lives!Suspend, Lives!Resumption
<1>6. Lives!Recovery(t) =>
        \/ view'[t].generation = view[t].generation + 1
        \/ view[t].status = "pending" /\ view'[t].generation = view[t].generation
  BY <1>4 DEF Lives!Recovery
<1>7. /\ Lives!CancelRequest(t) =>
           view'[t].status = view[t].status /\ view'[t].generation = view[t].generation
      /\ Lives!InterruptRequest(t) => view'[t].generation = view[t].generation + 1
  BY <1>4 DEF Lives!CancelRequest, Lives!InterruptRequest
<1>8. Lives!Ending(t) => view'[t].status = "over"
  BY <1>4 DEF Lives!Ending, Lives!Over
<1>9. view[t].status = "over" => ~ (\/ Lives!ClaimLife(t) \/ Lives!Suspend(t)
                                    \/ Lives!Resumption(t) \/ Lives!Recovery(t)
                                    \/ Lives!CancelRequest(t)
                                    \/ Lives!InterruptRequest(t))
  BY DEF Lives!ClaimLife, Lives!Suspend, Lives!Resumption, Lives!Recovery,
     Lives!CancelRequest, Lives!InterruptRequest
<1> HIDE DEF view
<1> QED
  BY <1>1, <1>2, <1>3, <1>5, <1>6, <1>7, <1>8, <1>9 DEF Lives!LifeStep

(* The passes of a turn are told apart by their generations: one that was  *)
(* claimed, fenced off or closed is never claimed again.                   *)
THEOREM CallsSpendGenerations == Spec => Lives!GenerationsAreSpent
<1>1. ASSUME Typed, [Next]_vars
      PROVE  \A t \in Turn, g \in Nat : Lives!Spent(t, g) => Lives!Spent(t, g)'
  <2> SUFFICES ASSUME NEW t \in Turn, NEW g \in Nat, Lives!Spent(t, g)
               PROVE  Lives!Spent(t, g)'
    OBVIOUS
  <2>1. CASE UNCHANGED Lives!lifeVars
    <3>1. [r \in Turn |-> LifeOf(turn'[r])] = [r \in Turn |-> LifeOf(turn[r])]
      BY <2>1 DEF Lives!lifeVars
    <3> QED  BY <3>1 DEF Lives!Spent
  <2>2. ASSUME NEW s \in Turn, s # t, Lives!LifeStep(s)
        PROVE  Lives!Spent(t, g)'
    <3> DEFINE view == [r \in Turn |-> LifeOf(turn[r])]
    <3>1. PICK life : view' = [view EXCEPT ![s] = life]
      BY <2>2 DEF Lives!LifeStep, Lives!ClaimLife, Lives!Suspend, Lives!Resumption,
         Lives!Recovery, Lives!CancelRequest, Lives!InterruptRequest, Lives!Ending,
         Lives!Becomes
    <3>2. view'[t] = view[t]
      BY <2>2, <3>1
    <3> QED  BY <3>2 DEF Lives!Spent
  <2> QED
    BY <1>1, <2>1, <2>2, StepLives, LifeMovesOn DEF Lives!LifeNext, Typed
<1> QED  BY <1>1, TypedHolds, PTL DEF Spec, Lives!GenerationsAreSpent
=============================================================================
