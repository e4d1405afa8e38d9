---------------------- MODULE ToolCallsFenceProofs ------------------------
(* Proofs about tool calls: the invariant of the dispatch fences, that     *)
(* handlers of conflicting mutations never run side by side, and that what *)
(* a handler reported is recorded however late.                            *)
EXTENDS ToolCallsProofs

(* Calls that touch the world outside, whose receipts outlive them.        *)
Outside == {c \in Call : Effect[c] \in Reconciled}

(* An execution of c by the pass of generation g that has not ended; one   *)
(* whose handler runs or may still start.                                  *)
Busy(c, g) ==
  exec[c][g].at \in {"registered", "handling", "finishing", "writing", "late"}
Live(c, g) ==
  \/ exec[c][g].at = "handling"
  \/ /\ exec[c][g].at = "registered"
     /\ row[c].status = "running" /\ row[c].generation = g

(* The Conversation of the turn was deleted.                               *)
Gone(t) == turn[t].status = "deleted"

(* A pass belongs to the present generation of its turn or to an earlier   *)
(* one; to the present one only once the turn was claimed.                 *)
PassesPast(t) ==
  \A g \in Generation : pass[t][g].at # "none" /\ ~Gone(t) =>
    \/ g < turn[t].generation
    \/ g = turn[t].generation /\ turn[t].status \in {"running", "closed"}

(* What a deletion leaves, and does not leave, of a call.                  *)
RowGone(c) == Gone(Owner[c]) => row[c].status = "absent"
ReceiptGone(c) == receipt[c] = "open" => Gone(Owner[c])

(* An execution has a row unless its Conversation went.                    *)
HasRow(c) ==
  \A g \in Generation :
    exec[c][g].at # "idle" /\ row[c].status = "absent" => Gone(Owner[c])

(* While the pass of the present generation is there, no earlier one has   *)
(* an execution left: a turn that goes on waits for its passes.            *)
OnePassActs(c) == LET t == Owner[c] IN
    ~Gone(t) /\ pass[t][turn[t].generation].at # "none" =>
      \A h \in Generation : Busy(c, h) => h = turn[t].generation

(* An execution of a turn that is not over belongs to a running turn in    *)
(* its own generation, with its row running, unless the turn was           *)
(* interrupted.                                                            *)
BusyIsRunning(c) ==
  \A g \in Generation : LET t == Owner[c] IN
    Busy(c, g) /\ turn[t].status \in Active =>
      /\ turn[t].status = "running"
      /\ \/ turn[t].interrupted
         \/ /\ turn[t].generation = g
            /\ row[c].status = "running" /\ row[c].generation = g

(* A closed call is repeated while no execution of it is left.             *)
ReplayAlone(c) ==
  \A g \in Generation : Replays(c, g) =>
    /\ row[c].status \in Closed \cup {"absent"}
    /\ \A h \in Generation : ~Busy(c, h)

(* A call has at most one execution that has not ended.                    *)
OneBusy(c) ==
  \A g, h \in Generation : Busy(c, g) /\ Busy(c, h) => g = h

(* A handler that runs or may still start blocks the resources of its      *)
(* call.                                                                   *)
LiveBlocks(c) == \A g \in Generation : Live(c, g) => Blocking(c)

(* No two calls with a common resource are in that state together.         *)
LiveExclude ==
  \A c, d \in Outside, g, h \in Generation :
    c # d /\ Touches[c] \cap Touches[d] # {} => ~(Live(c, g) /\ Live(d, h))

CallInv(c) ==
  /\ HasRow(c)
  /\ OnePassActs(c)
  /\ BusyIsRunning(c)
  /\ ReplayAlone(c)
  /\ OneBusy(c)
  /\ LiveBlocks(c)
Fence ==
  /\ \A t \in Turn : PassesPast(t)
  /\ \A c \in Call : RowGone(c) /\ ReceiptGone(c)
  /\ \A c \in Outside : CallInv(c)
  /\ LiveExclude

(* A step that brings no handler closer to running.                        *)
LEMMA NoNewLive ==
  ASSUME LiveExclude,
         \A c \in Outside, g \in Generation : Live(c, g)' => Live(c, g)
  PROVE  LiveExclude'
BY DEF LiveExclude

-----------------------------------------------------------------------------

(* Each of the following lemmas shows that one kind of step keeps the      *)
(* invariant: a turn resumed by an answer.                                 *)
LEMMA ResumedFence ==
  ASSUME Rows, ResultsClose, Fence,
         NEW t \in Turn, Resume(t), UNCHANGED <<pass, row, exec, receipt>>
  PROVE  Fence'
<1>1. /\ UNCHANGED <<pass, row, exec, receipt>>
      /\ \A u \in Turn : u # t => turn'[u] = turn[u]
      /\ turn[t].status = "waiting" /\ turn'[t].status = "pending"
      /\ turn'[t].generation = turn[t].generation + 1
  BY DEF Rows, TurnRow, Resume
<1>2. ASSUME NEW u \in Turn PROVE PassesPast(u)'
  <2>1. PassesPast(u) /\ turn[u].generation \in Int BY Numbers DEF Fence
  <2>2. QED BY <1>1, <2>1 DEF PassesPast, Gone, Generation
<1>3. ASSUME NEW d \in Call PROVE RowGone(d)' /\ ReceiptGone(d)'
  <2>1. RowGone(d) /\ ReceiptGone(d) /\ Owner[d] \in Turn
    BY ConstantsOK DEF Fence
  <2>2. QED BY <1>1, <2>1 DEF RowGone, ReceiptGone, Gone, Active
<1>4. ASSUME NEW d \in Outside PROVE CallInv(d)'
  <2>1. /\ d \in Call /\ Owner[d] \in Turn /\ CallInv(d) /\ RowGone(d)
        /\ ReceiptGone(d) /\ PassesPast(Owner[d])
        /\ turn[Owner[d]].generation \in Generation
        /\ turn[Owner[d]].generation \in Int
    BY ConstantsOK, Numbers DEF Fence, Outside
  <2>2. QED
    BY <1>1, <2>1, SMTT(30)
    DEF HasRow, OnePassActs, BusyIsRunning, ReplayAlone,
       OneBusy, LiveBlocks, Live, Blocking, Pending, Unresolved, Busy,
       Replays, Gone, Active, Closed, Outside, Reconciled, CallInv,
       PassesPast, RowGone, ReceiptGone
<1>5. LiveExclude'
  <2>1. ASSUME NEW c \in Outside, NEW h \in Generation, Live(c, h)'
        PROVE  Live(c, h)
    BY <1>1, <2>1 DEF Live, Outside
  <2>2. QED BY <2>1, NoNewLive DEF Fence
<1>6. QED BY <1>2, <1>3, <1>4, <1>5 DEF Fence

(* An execution that goes on or ends while its row stays as it is.         *)
LEMMA ExecMoveFence ==
  ASSUME Rows, ResultsClose, Fence,
         NEW e \in Call, NEW g \in Generation,
         UNCHANGED <<turn, pass, row, receipt>>,
         \A d \in Call, h \in Generation :
           <<d, h>> # <<e, g>> => exec'[d][h] = exec[d][h],
         \/ exec'[e][g].at = "idle"
         \/ Busy(e, g) /\ exec'[e][g].at \in {"finishing", "writing", "late"}
         \/ Replays(e, g) /\ exec'[e][g].at = "rewriting"
  PROVE  Fence'
<1>1. UNCHANGED <<turn, pass, row, receipt>>
  OBVIOUS
<1>2. ASSUME NEW u \in Turn PROVE PassesPast(u)'
  <2>1. PassesPast(u) /\ turn[u].generation \in Int BY Numbers DEF Fence
  <2>2. QED BY <1>1, <2>1 DEF PassesPast, Gone, Generation
<1>3. ASSUME NEW d \in Call PROVE RowGone(d)' /\ ReceiptGone(d)'
  <2>1. RowGone(d) /\ ReceiptGone(d) /\ Owner[d] \in Turn
    BY ConstantsOK DEF Fence
  <2>2. QED BY <1>1, <2>1 DEF RowGone, ReceiptGone, Gone, Active
<1>4. ASSUME NEW d \in Outside PROVE CallInv(d)'
  <2>1. /\ d \in Call /\ Owner[d] \in Turn /\ CallInv(d) /\ RowGone(d)
        /\ ReceiptGone(d) /\ PassesPast(Owner[d])
        /\ turn[Owner[d]].generation \in Generation
        /\ turn[Owner[d]].generation \in Int
    BY ConstantsOK, Numbers DEF Fence, Outside
  <2>2. QED
    BY <1>1, <2>1, SMTT(30)
    DEF HasRow, OnePassActs, BusyIsRunning, ReplayAlone,
       OneBusy, LiveBlocks, Live, Blocking, Pending, Unresolved, Busy,
       Replays, Gone, Active, Closed, Outside, Reconciled, CallInv,
       PassesPast, RowGone, ReceiptGone
<1>5. LiveExclude'
  <2>1. ASSUME NEW c \in Outside, NEW h \in Generation, Live(c, h)'
        PROVE  Live(c, h)
    BY <1>1, <2>1 DEF Live, Outside
  <2>2. QED BY <2>1, NoNewLive DEF Fence
<1>6. QED BY <1>2, <1>3, <1>4, <1>5 DEF Fence

(* The handler of an admitted call starts.                                 *)
LEMMA MarkedFence ==
  ASSUME Rows, ResultsClose, Fence,
         NEW e \in Call, NEW g \in Generation, MarkHandlerStarted(e, g),
         Admitted(e, g)
  PROVE  Fence'
<1>1. /\ UNCHANGED <<turn, pass, receipt>>
      /\ \A d \in Call, h \in Generation :
           <<d, h>> # <<e, g>> => exec'[d][h] = exec[d][h]
      /\ exec[e][g].at = "registered" /\ exec'[e][g].at = "handling"
      /\ row[e].status = "running" /\ row[e].generation = g
      /\ \A d \in Call : /\ row'[d].status = row[d].status
                        /\ row'[d].generation = row[d].generation
                        /\ row'[d].allowed = row[d].allowed
  <2>1. /\ ExecIs(e, g, [at |-> "handling", result |-> "none"])
        /\ row' = [row EXCEPT ![e].started = TRUE]
        /\ exec[e][g].at = "registered" /\ UNCHANGED <<turn, pass, receipt>>
        /\ row[e].status = "running" /\ row[e].generation = g
    BY DEF MarkHandlerStarted, Goes, Admitted
  <2>2. \A d \in Call : /\ row'[d].status = row[d].status
                        /\ row'[d].generation = row[d].generation
                        /\ row'[d].allowed = row[d].allowed
    BY <2>1 DEF Rows, CallRow
  <2>3. /\ exec'[e][g].at = "handling"
        /\ \A d \in Call, h \in Generation :
             <<d, h>> # <<e, g>> => exec'[d][h] = exec[d][h]
    BY <2>1, ExecMoves
  <2>4. QED BY <2>1, <2>2, <2>3
<1>2. ASSUME NEW u \in Turn PROVE PassesPast(u)'
  <2>1. PassesPast(u) /\ turn[u].generation \in Int BY Numbers DEF Fence
  <2>2. QED BY <1>1, <2>1 DEF PassesPast, Gone, Generation
<1>3. ASSUME NEW d \in Call PROVE RowGone(d)' /\ ReceiptGone(d)'
  <2>1. RowGone(d) /\ ReceiptGone(d) /\ Owner[d] \in Turn
    BY ConstantsOK DEF Fence
  <2>2. QED BY <1>1, <2>1 DEF RowGone, ReceiptGone, Gone, Active
<1>4. ASSUME NEW d \in Outside PROVE CallInv(d)'
  <2>1. /\ d \in Call /\ Owner[d] \in Turn /\ CallInv(d) /\ RowGone(d)
        /\ ReceiptGone(d) /\ PassesPast(Owner[d])
        /\ turn[Owner[d]].generation \in Generation
        /\ turn[Owner[d]].generation \in Int
    BY ConstantsOK, Numbers DEF Fence, Outside
  <2>2. QED
    BY <1>1, <2>1, SMTT(30)
    DEF HasRow, OnePassActs, BusyIsRunning, ReplayAlone,
       OneBusy, LiveBlocks, Live, Blocking, Pending, Unresolved, Busy,
       Replays, Gone, Active, Closed, Outside, Reconciled, CallInv,
       PassesPast, RowGone, ReceiptGone
<1>5. LiveExclude'
  <2>1. ASSUME NEW c \in Outside, NEW h \in Generation, Live(c, h)'
        PROVE  Live(c, h)
    BY <1>1, <2>1 DEF Live, Outside
  <2>2. QED BY <2>1, NoNewLive DEF Fence
<1>6. QED BY <1>2, <1>3, <1>4, <1>5 DEF Fence

(* An execution ends after its Conversation was deleted.                   *)
LEMMA SettledFence ==
  ASSUME Rows, ResultsClose, Fence,
         NEW e \in Call, NEW g \in Generation, FinishDeleted(e, g)
  PROVE  Fence'
<1>1. /\ UNCHANGED <<turn, pass, row>>
      /\ \A d \in Call, h \in Generation :
           <<d, h>> # <<e, g>> => exec'[d][h] = exec[d][h]
      /\ exec[e][g].at \in {"finishing", "replayed"} /\ exec'[e][g].at = "idle"
      /\ \A d \in Call : d # e => receipt'[d] = receipt[d]
      /\ receipt'[e] \in {receipt[e], "settled"}
  <2>1. /\ ExecIs(e, g, NoExec) /\ UNCHANGED <<turn, pass, row>>
        /\ exec[e][g].at \in {"finishing", "replayed"}
        /\ \/ receipt' = receipt
           \/ receipt' = [receipt EXCEPT ![e] = "settled"]
    BY DEF FinishDeleted, Ends
  <2>2. /\ exec'[e][g].at = "idle"
        /\ \A d \in Call, h \in Generation :
             <<d, h>> # <<e, g>> => exec'[d][h] = exec[d][h]
    BY <2>1, ExecMoves DEF NoExec
  <2>3. /\ \A d \in Call : d # e => receipt'[d] = receipt[d]
        /\ receipt'[e] \in {receipt[e], "settled"}
    BY <2>1 DEF Rows
  <2>4. QED BY <2>1, <2>2, <2>3
<1>2. ASSUME NEW u \in Turn PROVE PassesPast(u)'
  <2>1. PassesPast(u) /\ turn[u].generation \in Int BY Numbers DEF Fence
  <2>2. QED BY <1>1, <2>1 DEF PassesPast, Gone, Generation
<1>3. ASSUME NEW d \in Call PROVE RowGone(d)' /\ ReceiptGone(d)'
  <2>1. RowGone(d) /\ ReceiptGone(d) /\ Owner[d] \in Turn
    BY ConstantsOK DEF Fence
  <2>2. QED BY <1>1, <2>1 DEF RowGone, ReceiptGone, Gone, Active
<1>4. ASSUME NEW d \in Outside PROVE CallInv(d)'
  <2>1. /\ d \in Call /\ Owner[d] \in Turn /\ CallInv(d) /\ RowGone(d)
        /\ ReceiptGone(d) /\ PassesPast(Owner[d])
        /\ turn[Owner[d]].generation \in Generation
        /\ turn[Owner[d]].generation \in Int
    BY ConstantsOK, Numbers DEF Fence, Outside
  <2>2. QED
    BY <1>1, <2>1, SMTT(30)
    DEF HasRow, OnePassActs, BusyIsRunning, ReplayAlone,
       OneBusy, LiveBlocks, Live, Blocking, Pending, Unresolved, Busy,
       Replays, Gone, Active, Closed, Outside, Reconciled, CallInv,
       PassesPast, RowGone, ReceiptGone
<1>5. LiveExclude'
  <2>1. ASSUME NEW c \in Outside, NEW h \in Generation, Live(c, h)'
        PROVE  Live(c, h)
    BY <1>1, <2>1 DEF Live, Outside
  <2>2. QED BY <2>1, NoNewLive DEF Fence
<1>6. QED BY <1>2, <1>3, <1>4, <1>5 DEF Fence

(* A pass that was there moves on.                                         *)
LEMMA PassMoveFence ==
  ASSUME Rows, ResultsClose, Fence,
         NEW t \in Turn, NEW g \in Generation,
         UNCHANGED <<turn, row, exec, receipt>>,
         pass[t][g].at # "none",
         \A u \in Turn, h \in Generation :
           <<u, h>> # <<t, g>> => pass'[u][h] = pass[u][h]
  PROVE  Fence'
<1>1. UNCHANGED <<turn, row, exec, receipt>>
  OBVIOUS
<1>2. ASSUME NEW u \in Turn PROVE PassesPast(u)'
  <2>1. PassesPast(u) /\ turn[u].generation \in Int BY Numbers DEF Fence
  <2>2. QED BY <1>1, <2>1 DEF PassesPast, Gone, Generation
<1>3. ASSUME NEW d \in Call PROVE RowGone(d)' /\ ReceiptGone(d)'
  <2>1. RowGone(d) /\ ReceiptGone(d) /\ Owner[d] \in Turn
    BY ConstantsOK DEF Fence
  <2>2. QED BY <1>1, <2>1 DEF RowGone, ReceiptGone, Gone, Active
<1>4. ASSUME NEW d \in Outside PROVE CallInv(d)'
  <2>1. /\ d \in Call /\ Owner[d] \in Turn /\ CallInv(d) /\ RowGone(d)
        /\ ReceiptGone(d) /\ PassesPast(Owner[d])
        /\ turn[Owner[d]].generation \in Generation
        /\ turn[Owner[d]].generation \in Int
    BY ConstantsOK, Numbers DEF Fence, Outside
  <2>2. QED
    BY <1>1, <2>1, SMTT(30)
    DEF HasRow, OnePassActs, BusyIsRunning, ReplayAlone,
       OneBusy, LiveBlocks, Live, Blocking, Pending, Unresolved, Busy,
       Replays, Gone, Active, Closed, Outside, Reconciled, CallInv,
       PassesPast, RowGone, ReceiptGone
<1>5. LiveExclude'
  <2>1. ASSUME NEW c \in Outside, NEW h \in Generation, Live(c, h)'
        PROVE  Live(c, h)
    BY <1>1, <2>1 DEF Live, Outside
  <2>2. QED BY <2>1, NoNewLive DEF Fence
<1>6. QED BY <1>2, <1>3, <1>4, <1>5 DEF Fence

(* The end of a pass: its turn waits, ends, or its worker dies.            *)
LEMMA WaitTurnFence ==
  ASSUME Rows, ResultsClose, Fence,
         NEW t \in Turn, NEW g \in Generation, WaitTurn(t, g)
  PROVE  Fence'
<1>1. /\ UNCHANGED <<row, exec, receipt>>
      /\ pass[t][g].at # "none" /\ pass'[t][g].at = "none"
      /\ \A u \in Turn, h \in Generation :
           <<u, h>> # <<t, g>> => pass'[u][h] = pass[u][h]
      /\ \A u \in Turn : u # t => turn'[u] = turn[u]
      /\ \/ turn'[t] = turn[t]
         \/ /\ turn[t].status = "running" /\ turn'[t].status = "waiting"
            /\ turn[t].generation = g /\ turn'[t].generation = g
            /\ turn'[t].interrupted = turn[t].interrupted
      /\ \A d \in Outside : Owner[d] = t => ~Busy(d, g)
  <2>1. /\ PassIs(t, g, NoPass) /\ UNCHANGED <<row, exec, receipt>>
        /\ pass[t][g].at = "asking"
    BY DEF WaitTurn, EndPass
  <2>2. \A d \in Outside : Owner[d] = t => ~Busy(d, g)
    BY <2>1 DEF WaitTurn, PassOver, Idle, CallsOf, CallsBy, Open, Closing,
       Busy, Outside
  <2>3. /\ \A u \in Turn : u # t => turn'[u] = turn[u]
        /\ \/ turn'[t] = turn[t]
           \/ /\ turn[t].status = "running" /\ turn'[t].status = "waiting"
              /\ turn[t].generation = g /\ turn'[t].generation = g
              /\ turn'[t].interrupted = turn[t].interrupted
    BY DEF WaitTurn, Rows, TurnRow
  <2>4. /\ pass'[t][g].at = "none"
        /\ \A u \in Turn, h \in Generation :
             <<u, h>> # <<t, g>> => pass'[u][h] = pass[u][h]
    BY <2>1, PassMoves DEF NoPass
  <2>5. QED BY <2>1, <2>2, <2>3, <2>4
<1>2. ASSUME NEW u \in Turn PROVE PassesPast(u)'
  <2>1. PassesPast(u) /\ turn[u].generation \in Int BY Numbers DEF Fence
  <2>2. QED BY <1>1, <2>1 DEF PassesPast, Gone, Generation
<1>3. ASSUME NEW d \in Call PROVE RowGone(d)' /\ ReceiptGone(d)'
  <2>1. RowGone(d) /\ ReceiptGone(d) /\ Owner[d] \in Turn
    BY ConstantsOK DEF Fence
  <2>2. QED BY <1>1, <2>1 DEF RowGone, ReceiptGone, Gone, Active
<1>4. ASSUME NEW d \in Outside PROVE CallInv(d)'
  <2>1. /\ d \in Call /\ Owner[d] \in Turn /\ CallInv(d) /\ RowGone(d)
        /\ ReceiptGone(d) /\ PassesPast(Owner[d])
        /\ turn[Owner[d]].generation \in Generation
        /\ turn[Owner[d]].generation \in Int
    BY ConstantsOK, Numbers DEF Fence, Outside
  <2>2. QED
    BY <1>1, <2>1, SMTT(30)
    DEF HasRow, OnePassActs, BusyIsRunning, ReplayAlone,
       OneBusy, LiveBlocks, Live, Blocking, Pending, Unresolved, Busy,
       Replays, Gone, Active, Closed, Outside, Reconciled, CallInv,
       PassesPast, RowGone, ReceiptGone
<1>5. LiveExclude'
  <2>1. ASSUME NEW c \in Outside, NEW h \in Generation, Live(c, h)'
        PROVE  Live(c, h)
    BY <1>1, <2>1 DEF Live, Outside
  <2>2. QED BY <2>1, NoNewLive DEF Fence
<1>6. QED BY <1>2, <1>3, <1>4, <1>5 DEF Fence

LEMMA FinishTurnFence ==
  ASSUME Rows, ResultsClose, Fence,
         NEW t \in Turn, NEW g \in Generation, FinishTurn(t, g)
  PROVE  Fence'
<1>1. /\ UNCHANGED <<row, exec, receipt>>
      /\ pass[t][g].at # "none" /\ pass'[t][g].at = "none"
      /\ \A u \in Turn, h \in Generation :
           <<u, h>> # <<t, g>> => pass'[u][h] = pass[u][h]
      /\ \A u \in Turn : u # t => turn'[u] = turn[u]
      /\ \/ turn'[t] = turn[t]
         \/ /\ turn[t].status = "running" /\ turn'[t].status = "closed"
            /\ turn'[t].generation = turn[t].generation
  <2>1. /\ PassIs(t, g, NoPass) /\ UNCHANGED <<row, exec, receipt>>
        /\ pass[t][g].at # "none"
    BY DEF FinishTurn, EndPass
  <2>2. /\ \A u \in Turn : u # t => turn'[u] = turn[u]
        /\ \/ turn'[t] = turn[t]
           \/ /\ turn[t].status = "running" /\ turn'[t].status = "closed"
              /\ turn'[t].generation = turn[t].generation
    BY DEF FinishTurn, EndTurn, Rows, TurnRow
  <2>3. /\ pass'[t][g].at = "none"
        /\ \A u \in Turn, h \in Generation :
             <<u, h>> # <<t, g>> => pass'[u][h] = pass[u][h]
    BY <2>1, PassMoves DEF NoPass
  <2>4. QED BY <2>1, <2>2, <2>3
<1>2. ASSUME NEW u \in Turn PROVE PassesPast(u)'
  <2>1. PassesPast(u) /\ turn[u].generation \in Int BY Numbers DEF Fence
  <2>2. QED BY <1>1, <2>1 DEF PassesPast, Gone, Generation
<1>3. ASSUME NEW d \in Call PROVE RowGone(d)' /\ ReceiptGone(d)'
  <2>1. RowGone(d) /\ ReceiptGone(d) /\ Owner[d] \in Turn
    BY ConstantsOK DEF Fence
  <2>2. QED BY <1>1, <2>1 DEF RowGone, ReceiptGone, Gone, Active
<1>4. ASSUME NEW d \in Outside PROVE CallInv(d)'
  <2>1. /\ d \in Call /\ Owner[d] \in Turn /\ CallInv(d) /\ RowGone(d)
        /\ ReceiptGone(d) /\ PassesPast(Owner[d])
        /\ turn[Owner[d]].generation \in Generation
        /\ turn[Owner[d]].generation \in Int
    BY ConstantsOK, Numbers DEF Fence, Outside
  <2>2. /\ \A h \in Generation : Busy(d, h)' <=> Busy(d, h)
        /\ turn'[Owner[d]].generation = turn[Owner[d]].generation
        /\ Gone(Owner[d])' <=> Gone(Owner[d])
        /\ \A h \in Generation : pass[Owner[d]][h].at = "none" =>
             pass'[Owner[d]][h].at = "none"
    BY <1>1, <2>1 DEF Busy, Gone
  <2>3. OnePassActs(d)'
    BY <2>1, <2>2 DEF CallInv, OnePassActs
  <2>4. HasRow(d)' /\ ReplayAlone(d)' /\ OneBusy(d)'
    BY <1>1, <2>1, <2>2 DEF CallInv, HasRow, ReplayAlone, OneBusy, Replays
  <2>5. BusyIsRunning(d)'
    BY <1>1, <2>1, <2>2 DEF CallInv, BusyIsRunning, Active
  <2>6. LiveBlocks(d)'
    BY <1>1, <2>1 DEF CallInv, LiveBlocks, Live, Blocking, Pending
  <2>7. QED BY <2>3, <2>4, <2>5, <2>6 DEF CallInv
<1>5. LiveExclude'
  <2>1. ASSUME NEW c \in Outside, NEW h \in Generation, Live(c, h)'
        PROVE  Live(c, h)
    BY <1>1, <2>1 DEF Live, Outside
  <2>2. QED BY <2>1, NoNewLive DEF Fence
<1>6. QED BY <1>2, <1>3, <1>4, <1>5 DEF Fence

LEMMA CrashFence ==
  ASSUME Rows, ResultsClose, Fence,
         NEW t \in Turn, NEW g \in Generation, Crash(t, g)
  PROVE  Fence'
<1>1. /\ UNCHANGED <<turn, row, receipt>>
      /\ pass[t][g].at # "none" /\ pass'[t][g].at = "none"
      /\ \A u \in Turn, h \in Generation :
           <<u, h>> # <<t, g>> => pass'[u][h] = pass[u][h]
      /\ \A d \in Call, h \in Generation :
           exec'[d][h].at \in {exec[d][h].at, "idle"}
  <2>1. /\ PassIs(t, g, NoPass) /\ UNCHANGED <<turn, row, receipt>>
        /\ pass[t][g].at # "none"
    BY DEF Crash, EndPass
  <2>2. \A d \in Call, h \in Generation :
          exec'[d][h].at \in {exec[d][h].at, "idle"}
    BY DEF Crash, NoExec, Rows
  <2>3. /\ pass'[t][g].at = "none"
        /\ \A u \in Turn, h \in Generation :
             <<u, h>> # <<t, g>> => pass'[u][h] = pass[u][h]
    BY <2>1, PassMoves DEF NoPass
  <2>4. QED BY <2>1, <2>2, <2>3
<1>2. ASSUME NEW u \in Turn PROVE PassesPast(u)'
  <2>1. PassesPast(u) /\ turn[u].generation \in Int BY Numbers DEF Fence
  <2>2. QED BY <1>1, <2>1 DEF PassesPast, Gone, Generation
<1>3. ASSUME NEW d \in Call PROVE RowGone(d)' /\ ReceiptGone(d)'
  <2>1. RowGone(d) /\ ReceiptGone(d) /\ Owner[d] \in Turn
    BY ConstantsOK DEF Fence
  <2>2. QED BY <1>1, <2>1 DEF RowGone, ReceiptGone, Gone, Active
<1>4. ASSUME NEW d \in Outside PROVE CallInv(d)'
  <2>1. /\ d \in Call /\ Owner[d] \in Turn /\ CallInv(d) /\ RowGone(d)
        /\ ReceiptGone(d) /\ PassesPast(Owner[d])
        /\ turn[Owner[d]].generation \in Generation
        /\ turn[Owner[d]].generation \in Int
    BY ConstantsOK, Numbers DEF Fence, Outside
  <2>2. QED
    BY <1>1, <2>1, SMTT(30)
    DEF HasRow, OnePassActs, BusyIsRunning, ReplayAlone,
       OneBusy, LiveBlocks, Live, Blocking, Pending, Unresolved, Busy,
       Replays, Gone, Active, Closed, Outside, Reconciled, CallInv,
       PassesPast, RowGone, ReceiptGone
<1>5. LiveExclude'
  <2>1. ASSUME NEW c \in Outside, NEW h \in Generation, Live(c, h)'
        PROVE  Live(c, h)
    BY <1>1, <2>1 DEF Live, Outside
  <2>2. QED BY <2>1, NoNewLive DEF Fence
<1>6. QED BY <1>2, <1>3, <1>4, <1>5 DEF Fence

(* An execution ends and its result is written.                            *)
LEMMA WrittenFence ==
  ASSUME Rows, ResultsClose, Fence,
         NEW e \in Call, NEW g \in Generation,
         NEW r \in Closed \cup {"waiting"},
         UNCHANGED <<turn, receipt>>, Ends(e, g),
         Busy(e, g) \/ Replays(e, g), Replays(e, g) => r # "waiting",
         row[e].status # "absent", row' = [row EXCEPT ![e].status = r],
         \A u \in Turn, h \in Generation :
           pass[u][h].at = "none" => pass'[u][h].at = "none"
  PROVE  Fence'
<1>1. /\ UNCHANGED <<turn, receipt>>
      /\ \A d \in Call, h \in Generation :
           <<d, h>> # <<e, g>> => exec'[d][h] = exec[d][h]
      /\ exec'[e][g].at = "idle"
      /\ \A d \in Call : d # e => row'[d] = row[d]
      /\ row'[e].status = r /\ row'[e].generation = row[e].generation
      /\ row'[e].allowed = row[e].allowed
  <2>1. /\ exec'[e][g].at = "idle"
        /\ \A d \in Call, h \in Generation :
             <<d, h>> # <<e, g>> => exec'[d][h] = exec[d][h]
    BY ExecMoves DEF Ends, NoExec
  <2>2. /\ \A d \in Call : d # e => row'[d] = row[d]
        /\ row'[e].status = r /\ row'[e].generation = row[e].generation
        /\ row'[e].allowed = row[e].allowed
    BY DEF Rows, CallRow
  <2>3. QED BY <2>1, <2>2
<1>2. ASSUME NEW u \in Turn PROVE PassesPast(u)'
  <2>1. PassesPast(u) /\ turn[u].generation \in Int BY Numbers DEF Fence
  <2>2. QED BY <1>1, <2>1 DEF PassesPast, Gone, Generation
<1>3. ASSUME NEW d \in Call PROVE RowGone(d)' /\ ReceiptGone(d)'
  <2>1. RowGone(d) /\ ReceiptGone(d) /\ Owner[d] \in Turn
    BY ConstantsOK DEF Fence
  <2>2. QED BY <1>1, <2>1 DEF RowGone, ReceiptGone, Gone, Active
<1>4. ASSUME NEW d \in Outside PROVE CallInv(d)'
  <2>1. /\ d \in Call /\ Owner[d] \in Turn /\ CallInv(d) /\ RowGone(d)
        /\ ReceiptGone(d) /\ PassesPast(Owner[d])
        /\ turn[Owner[d]].generation \in Generation
        /\ turn[Owner[d]].generation \in Int
    BY ConstantsOK, Numbers DEF Fence, Outside
  <2>2. QED
    BY <1>1, <2>1, SMTT(30)
    DEF HasRow, OnePassActs, BusyIsRunning, ReplayAlone,
       OneBusy, LiveBlocks, Live, Blocking, Pending, Unresolved, Busy,
       Replays, Gone, Active, Closed, Outside, Reconciled, CallInv,
       PassesPast, RowGone, ReceiptGone
<1>5. LiveExclude'
  <2>1. ASSUME NEW c \in Outside, NEW h \in Generation, Live(c, h)'
        PROVE  Live(c, h)
    BY <1>1, <2>1 DEF Live, Outside, Closed
  <2>2. QED BY <2>1, NoNewLive DEF Fence
<1>6. QED BY <1>2, <1>3, <1>4, <1>5 DEF Fence

(* A worker claims a turn.                                                 *)
LEMMA ClaimFence ==
  ASSUME Rows, ResultsClose, Fence,
         NEW t \in Turn, Claim(t)
  PROVE  Fence'
<1>1. /\ UNCHANGED <<row, exec, receipt>>
      /\ \A u \in Turn : u # t => turn'[u] = turn[u]
      /\ turn[t].status = "pending" /\ turn'[t].status = "running"
      /\ turn'[t].generation = turn[t].generation
      /\ turn'[t].interrupted = turn[t].interrupted
      /\ \A u \in Turn, h \in Generation :
           <<u, h>> # <<t, turn[t].generation>> => pass'[u][h] = pass[u][h]
  <2>1. turn[t].generation \in Generation BY Numbers
  <2>2. \A u \in Turn, h \in Generation :
          <<u, h>> # <<t, turn[t].generation>> => pass'[u][h] = pass[u][h]
    BY <2>1, PassMoves DEF Claim, PassAt
  <2>3. QED BY <2>2 DEF Claim, Rows, TurnRow
<1>2. ASSUME NEW u \in Turn PROVE PassesPast(u)'
  <2>1. PassesPast(u) /\ turn[u].generation \in Int BY Numbers DEF Fence
  <2>2. QED BY <1>1, <2>1 DEF PassesPast, Gone, Generation
<1>3. ASSUME NEW d \in Call PROVE RowGone(d)' /\ ReceiptGone(d)'
  <2>1. RowGone(d) /\ ReceiptGone(d) /\ Owner[d] \in Turn
    BY ConstantsOK DEF Fence
  <2>2. QED BY <1>1, <2>1 DEF RowGone, ReceiptGone, Gone, Active
<1>4. ASSUME NEW d \in Outside PROVE CallInv(d)'
  <2>1. /\ d \in Call /\ Owner[d] \in Turn /\ CallInv(d) /\ RowGone(d)
        /\ ReceiptGone(d) /\ PassesPast(Owner[d])
        /\ turn[Owner[d]].generation \in Generation
        /\ turn[Owner[d]].generation \in Int
    BY ConstantsOK, Numbers DEF Fence, Outside
  <2>2. QED
    BY <1>1, <2>1, SMTT(30)
    DEF HasRow, OnePassActs, BusyIsRunning, ReplayAlone,
       OneBusy, LiveBlocks, Live, Blocking, Pending, Unresolved, Busy,
       Replays, Gone, Active, Closed, Outside, Reconciled, CallInv,
       PassesPast, RowGone, ReceiptGone
<1>5. LiveExclude'
  <2>1. ASSUME NEW c \in Outside, NEW h \in Generation, Live(c, h)'
        PROVE  Live(c, h)
    BY <1>1, <2>1 DEF Live, Outside
  <2>2. QED BY <2>1, NoNewLive DEF Fence
<1>6. QED BY <1>2, <1>3, <1>4, <1>5 DEF Fence

(* A turn is asked to stop, is closed, is interrupted.                     *)
LEMMA CancelTurnFence ==
  ASSUME Rows, ResultsClose, Fence,
         NEW t \in Turn, UNCHANGED <<pass, row, exec, receipt>>,
         turn' = [turn EXCEPT ![t].cancel = TRUE]
  PROVE  Fence'
<1>1. /\ UNCHANGED <<pass, row, exec, receipt>>
      /\ \A u \in Turn : /\ turn'[u].status = turn[u].status
                         /\ turn'[u].generation = turn[u].generation
                         /\ turn'[u].interrupted = turn[u].interrupted
  BY DEF Rows, TurnRow
<1>2. ASSUME NEW u \in Turn PROVE PassesPast(u)'
  <2>1. PassesPast(u) /\ turn[u].generation \in Int BY Numbers DEF Fence
  <2>2. QED BY <1>1, <2>1 DEF PassesPast, Gone, Generation
<1>3. ASSUME NEW d \in Call PROVE RowGone(d)' /\ ReceiptGone(d)'
  <2>1. RowGone(d) /\ ReceiptGone(d) /\ Owner[d] \in Turn
    BY ConstantsOK DEF Fence
  <2>2. QED BY <1>1, <2>1 DEF RowGone, ReceiptGone, Gone, Active
<1>4. ASSUME NEW d \in Outside PROVE CallInv(d)'
  <2>1. /\ d \in Call /\ Owner[d] \in Turn /\ CallInv(d) /\ RowGone(d)
        /\ ReceiptGone(d) /\ PassesPast(Owner[d])
        /\ turn[Owner[d]].generation \in Generation
        /\ turn[Owner[d]].generation \in Int
    BY ConstantsOK, Numbers DEF Fence, Outside
  <2>2. QED
    BY <1>1, <2>1, SMTT(30)
    DEF HasRow, OnePassActs, BusyIsRunning, ReplayAlone,
       OneBusy, LiveBlocks, Live, Blocking, Pending, Unresolved, Busy,
       Replays, Gone, Active, Closed, Outside, Reconciled, CallInv,
       PassesPast, RowGone, ReceiptGone
<1>5. LiveExclude'
  <2>1. ASSUME NEW c \in Outside, NEW h \in Generation, Live(c, h)'
        PROVE  Live(c, h)
    BY <1>1, <2>1 DEF Live, Outside
  <2>2. QED BY <2>1, NoNewLive DEF Fence
<1>6. QED BY <1>2, <1>3, <1>4, <1>5 DEF Fence

LEMMA CloseTurnFence ==
  ASSUME Rows, ResultsClose, Fence,
         NEW t \in Turn, CloseTurn(t)
  PROVE  Fence'
<1>1. /\ UNCHANGED <<pass, row, exec, receipt>>
      /\ \A u \in Turn : u # t => turn'[u] = turn[u]
      /\ turn[t].status \in Active /\ turn'[t].status = "closed"
      /\ turn'[t].generation = turn[t].generation
  BY DEF CloseTurn, EndTurn, Active, Rows, TurnRow
<1>2. ASSUME NEW u \in Turn PROVE PassesPast(u)'
  <2>1. PassesPast(u) /\ turn[u].generation \in Int BY Numbers DEF Fence
  <2>2. QED BY <1>1, <2>1 DEF PassesPast, Gone, Active, Generation
<1>3. ASSUME NEW d \in Call PROVE RowGone(d)' /\ ReceiptGone(d)'
  <2>1. RowGone(d) /\ ReceiptGone(d) /\ Owner[d] \in Turn
    BY ConstantsOK DEF Fence
  <2>2. QED BY <1>1, <2>1 DEF RowGone, ReceiptGone, Gone, Active
<1>4. ASSUME NEW d \in Outside PROVE CallInv(d)'
  <2>1. /\ d \in Call /\ Owner[d] \in Turn /\ CallInv(d) /\ RowGone(d)
        /\ ReceiptGone(d) /\ PassesPast(Owner[d])
        /\ turn[Owner[d]].generation \in Generation
        /\ turn[Owner[d]].generation \in Int
    BY ConstantsOK, Numbers DEF Fence, Outside
  <2>2. QED
    BY <1>1, <2>1, SMTT(30)
    DEF HasRow, OnePassActs, BusyIsRunning, ReplayAlone,
       OneBusy, LiveBlocks, Live, Blocking, Pending, Unresolved, Busy,
       Replays, Gone, Active, Closed, Outside, Reconciled, CallInv,
       PassesPast, RowGone, ReceiptGone
<1>5. LiveExclude'
  <2>1. ASSUME NEW c \in Outside, NEW h \in Generation, Live(c, h)'
        PROVE  Live(c, h)
    BY <1>1, <2>1 DEF Live, Outside
  <2>2. QED BY <2>1, NoNewLive DEF Fence
<1>6. QED BY <1>2, <1>3, <1>4, <1>5 DEF Fence

LEMMA InterruptFence ==
  ASSUME Rows, ResultsClose, Fence,
         NEW t \in Turn, Interrupt(t)
  PROVE  Fence'
<1>1. /\ UNCHANGED <<pass, exec, receipt>>
      /\ \A u \in Turn : u # t => turn'[u] = turn[u]
      /\ turn[t].status \in Active /\ turn'[t].status = turn[t].status
      /\ turn'[t].generation = turn[t].generation + 1
      /\ turn'[t].interrupted /\ turn'[t].generation \in Generation
      /\ \A d \in Call :
           \/ row'[d] = row[d]
           \/ /\ Owner[d] = t /\ row'[d].allowed = row[d].allowed
              /\ row'[d].generation = row[d].generation
              /\ row[d].status \in {"running", "waiting", "deferred"}
              /\ row'[d].status =
                   IF row[d].status = "running" /\ Effect[d] # "read"
                     THEN "unknown" ELSE "cancelled"
  <2>1. /\ \A u \in Turn : u # t => turn'[u] = turn[u]
        /\ turn[t].status \in Active /\ turn'[t].status = turn[t].status
        /\ turn'[t].generation = turn[t].generation + 1
        /\ turn'[t].interrupted
    BY DEF Interrupt, Rows, TurnRow
  <2>2. ASSUME NEW d \in Call
        PROVE  \/ row'[d] = row[d]
               \/ /\ Owner[d] = t /\ row'[d].allowed = row[d].allowed
                  /\ row'[d].generation = row[d].generation
                  /\ row[d].status \in {"running", "waiting", "deferred"}
                  /\ row'[d].status =
                       IF row[d].status = "running" /\ Effect[d] # "read"
                         THEN "unknown" ELSE "cancelled"
    BY DEF Interrupt, Interrupted, Rows, CallRow
  <2>3. turn[t].generation + 1 \in Generation
    BY ConstantsOK, Numbers DEF Interrupt, Generation
  <2>4. QED BY <2>1, <2>2, <2>3 DEF Interrupt
<1>2. ASSUME NEW u \in Turn PROVE PassesPast(u)'
  <2>1. PassesPast(u) /\ turn[u].generation \in Int BY Numbers DEF Fence
  <2>2. QED BY <1>1, <2>1 DEF PassesPast, Gone, Generation
<1>3. ASSUME NEW d \in Call PROVE RowGone(d)' /\ ReceiptGone(d)'
  <2>1. RowGone(d) /\ ReceiptGone(d) /\ Owner[d] \in Turn
    BY ConstantsOK DEF Fence
  <2>2. QED BY <1>1, <2>1 DEF RowGone, ReceiptGone, Gone, Active
<1>4. ASSUME NEW d \in Outside PROVE CallInv(d)'
  <2>1. /\ d \in Call /\ Owner[d] \in Turn /\ CallInv(d) /\ RowGone(d)
        /\ ReceiptGone(d) /\ PassesPast(Owner[d])
        /\ turn[Owner[d]].generation \in Generation
        /\ turn[Owner[d]].generation \in Int
    BY ConstantsOK, Numbers DEF Fence, Outside
  <2>2. UNCHANGED <<pass, exec>> /\ receipt'[d] = receipt[d]
    BY <1>1
  <2>3. HasRow(d)' /\ ReplayAlone(d)' /\ OneBusy(d)'
    BY <1>1, <2>1, <2>2 DEF CallInv, HasRow, ReplayAlone, OneBusy, Busy,
      Replays, Gone, Closed
  <2>4. OnePassActs(d)'
    BY <1>1, <2>1, <2>2 DEF CallInv, OnePassActs, PassesPast, Busy, Gone,
      Active, Generation
  <2>5. BusyIsRunning(d)'
    BY <1>1, <2>1, <2>2 DEF CallInv, BusyIsRunning, Busy, Active
  <2>6. LiveBlocks(d)'
    BY <1>1, <2>1, <2>2 DEF CallInv, LiveBlocks, Live, Blocking, Pending,
      Unresolved, Outside, Reconciled
  <2>7. QED BY <2>3, <2>4, <2>5, <2>6 DEF CallInv
<1>5. LiveExclude'
  <2>1. ASSUME NEW c \in Outside, NEW h \in Generation, Live(c, h)'
        PROVE  Live(c, h)
    BY <1>1, <2>1 DEF Live, Outside
  <2>2. QED BY <2>1, NoNewLive DEF Fence
<1>6. QED BY <1>2, <1>3, <1>4, <1>5 DEF Fence

(* A Conversation is deleted; a receipt expires.                           *)
LEMMA DeleteFence ==
  ASSUME Rows, ResultsClose, Fence,
         NEW t \in Turn, DeleteConversation(t)
  PROVE  Fence'
<1>1. /\ UNCHANGED <<pass, exec>>
      /\ \A u \in Turn : u # t => turn'[u] = turn[u]
      /\ turn[t].status # "deleted" /\ turn'[t].status = "deleted"
      /\ \A d \in Call : IF Owner[d] = t
           THEN /\ row'[d].status = "absent"
                /\ receipt'[d] = IF LeavesReceipt(d) THEN "open" ELSE receipt[d]
           ELSE row'[d] = row[d] /\ receipt'[d] = receipt[d]
  <2>1. /\ \A u \in Turn : u # t => turn'[u] = turn[u]
        /\ turn[t].status # "deleted" /\ turn'[t].status = "deleted"
    BY DEF DeleteConversation, NewTurn, Rows, TurnRow
  <2>2. QED BY <2>1 DEF DeleteConversation, NoRow
<1>2. ASSUME NEW u \in Turn PROVE PassesPast(u)'
  <2>1. PassesPast(u) /\ turn[u].generation \in Int BY Numbers DEF Fence
  <2>2. QED BY <1>1, <2>1 DEF PassesPast, Gone, Generation
<1>3. ASSUME NEW d \in Call PROVE RowGone(d)' /\ ReceiptGone(d)'
  <2>1. RowGone(d) /\ ReceiptGone(d) /\ Owner[d] \in Turn
    BY ConstantsOK DEF Fence
  <2>2. QED BY <1>1, <2>1 DEF RowGone, ReceiptGone, Gone, Active
<1>4. ASSUME NEW d \in Outside PROVE CallInv(d)'
  <2>1. /\ d \in Call /\ Owner[d] \in Turn /\ CallInv(d) /\ RowGone(d)
        /\ ReceiptGone(d) /\ PassesPast(Owner[d])
        /\ turn[Owner[d]].generation \in Generation
        /\ turn[Owner[d]].generation \in Int
    BY ConstantsOK, Numbers DEF Fence, Outside
  <2>2. QED
    BY <1>1, <2>1, SMTT(30)
    DEF HasRow, OnePassActs, BusyIsRunning, ReplayAlone,
       OneBusy, LiveBlocks, Live, Blocking, Pending, Unresolved, Busy,
       Replays, Gone, Active, Closed, Outside, Reconciled, CallInv,
       PassesPast, RowGone, ReceiptGone, LeavesReceipt
<1>5. LiveExclude'
  <2>1. ASSUME NEW c \in Outside, NEW h \in Generation, Live(c, h)'
        PROVE  Live(c, h)
    BY <1>1, <2>1 DEF Live, Outside
  <2>2. QED BY <2>1, NoNewLive DEF Fence
<1>6. QED BY <1>2, <1>3, <1>4, <1>5 DEF Fence

LEMMA ExpireFence ==
  ASSUME Rows, ResultsClose, Fence,
         NEW e \in Call, ExpireReceipt(e)
  PROVE  Fence'
<1>1. /\ UNCHANGED <<turn, pass, row, exec>>
      /\ \A d \in Call : d # e => receipt'[d] = receipt[d]
      /\ receipt'[e] = "expired"
      /\ \A g \in Generation : ~Busy(e, g)
  BY DEF ExpireReceipt, Busy, Open, Closing, Rows
<1>2. ASSUME NEW u \in Turn PROVE PassesPast(u)'
  <2>1. PassesPast(u) /\ turn[u].generation \in Int BY Numbers DEF Fence
  <2>2. QED BY <1>1, <2>1 DEF PassesPast, Gone, Generation
<1>3. ASSUME NEW d \in Call PROVE RowGone(d)' /\ ReceiptGone(d)'
  <2>1. RowGone(d) /\ ReceiptGone(d) /\ Owner[d] \in Turn
    BY ConstantsOK DEF Fence
  <2>2. QED BY <1>1, <2>1 DEF RowGone, ReceiptGone, Gone, Active
<1>4. ASSUME NEW d \in Outside PROVE CallInv(d)'
  <2>1. /\ d \in Call /\ Owner[d] \in Turn /\ CallInv(d) /\ RowGone(d)
        /\ ReceiptGone(d) /\ PassesPast(Owner[d])
        /\ turn[Owner[d]].generation \in Generation
        /\ turn[Owner[d]].generation \in Int
    BY ConstantsOK, Numbers DEF Fence, Outside
  <2>2. QED
    BY <1>1, <2>1, SMTT(30)
    DEF HasRow, OnePassActs, BusyIsRunning, ReplayAlone,
       OneBusy, LiveBlocks, Live, Blocking, Pending, Unresolved, Busy,
       Replays, Gone, Active, Closed, Outside, Reconciled, CallInv,
       PassesPast, RowGone, ReceiptGone
<1>5. LiveExclude'
  <2>1. ASSUME NEW c \in Outside, NEW h \in Generation, Live(c, h)'
        PROVE  Live(c, h)
    BY <1>1, <2>1 DEF Live, Outside
  <2>2. QED BY <2>1, NoNewLive DEF Fence
<1>6. QED BY <1>2, <1>3, <1>4, <1>5 DEF Fence

(* A pass denies a waiting call, closes or reserves deferred ones.         *)
LEMMA RowMoveFence ==
  ASSUME Rows, ResultsClose, Fence,
         NEW t \in Turn, NEW g \in Generation,
         UNCHANGED <<turn, exec, receipt>>, ~Gone(t),
         pass[t][g].at # "none",
         \A u \in Turn, h \in Generation :
           <<u, h>> # <<t, g>> => pass'[u][h] = pass[u][h],
         \A d \in Call :
           \/ row'[d] = row[d]
           \/ row[d].status = "waiting" /\ row'[d].status = "denied"
           \/ row[d].status = "deferred" /\ row'[d].status = "cancelled"
           \/ /\ Owner[d] = t
              /\ row[d].status = "absent" /\ row'[d].status = "deferred"
  PROVE  Fence'
<1>1. UNCHANGED <<turn, exec, receipt>>
  OBVIOUS
<1>2. ASSUME NEW u \in Turn PROVE PassesPast(u)'
  <2>1. PassesPast(u) /\ turn[u].generation \in Int BY Numbers DEF Fence
  <2>2. QED BY <1>1, <2>1 DEF PassesPast, Gone, Generation
<1>3. ASSUME NEW d \in Call PROVE RowGone(d)' /\ ReceiptGone(d)'
  <2>1. RowGone(d) /\ ReceiptGone(d) /\ Owner[d] \in Turn
    BY ConstantsOK DEF Fence
  <2>2. QED BY <1>1, <2>1 DEF RowGone, ReceiptGone, Gone, Active
<1>4. ASSUME NEW d \in Outside PROVE CallInv(d)'
  <2>1. /\ d \in Call /\ Owner[d] \in Turn /\ CallInv(d) /\ RowGone(d)
        /\ ReceiptGone(d) /\ PassesPast(Owner[d])
        /\ turn[Owner[d]].generation \in Generation
        /\ turn[Owner[d]].generation \in Int
    BY ConstantsOK, Numbers DEF Fence, Outside
  <2>2. QED
    BY <1>1, <2>1, SMTT(30)
    DEF HasRow, OnePassActs, BusyIsRunning, ReplayAlone,
       OneBusy, LiveBlocks, Live, Blocking, Pending, Unresolved, Busy,
       Replays, Gone, Active, Closed, Outside, Reconciled, CallInv,
       PassesPast, RowGone, ReceiptGone
<1>5. LiveExclude'
  <2>1. ASSUME NEW c \in Outside, NEW h \in Generation, Live(c, h)'
        PROVE  Live(c, h)
    BY <1>1, <2>1 DEF Live, Outside
  <2>2. QED BY <2>1, NoNewLive DEF Fence
<1>6. QED BY <1>2, <1>3, <1>4, <1>5 DEF Fence

(* A repeat of a closed call is cancelled.                                 *)
LEMMA ReplayFence ==
  ASSUME Rows, ResultsClose, Fence,
         NEW t \in Turn, NEW g \in Generation, NEW e \in Call,
         ReplayCancelled(t, g, e)
  PROVE  Fence'
<1>1. /\ UNCHANGED <<turn, row, receipt>>
      /\ pass[t][g].at # "none"
      /\ \A u \in Turn, h \in Generation :
           <<u, h>> # <<t, g>> => pass'[u][h] = pass[u][h]
      /\ \A d \in Call, h \in Generation :
           <<d, h>> # <<e, g>> => exec'[d][h] = exec[d][h]
      /\ exec'[e][g].at = "replayed" /\ row[e].status \in Closed
      /\ Owner[e] = t /\ turn[t].generation = g /\ ~Gone(t)
      /\ ~Busy(e, g)
  <2>1. /\ UNCHANGED <<turn, row, receipt>> /\ pass[t][g].at = "live"
        /\ PassIs(t, g, [pass[t][g] EXCEPT !.at = "stopping"])
        /\ ExecIs(e, g, [at |-> "replayed", result |-> "cancelled"])
        /\ row[e].status \in Closed /\ Owner[e] = t
        /\ turn[t].generation = g /\ turn[t].status \in Active /\ Idle(t, g)
    BY DEF ReplayCancelled, PassAt, Goes, Current
  <2>2. \A u \in Turn, h \in Generation :
          <<u, h>> # <<t, g>> => pass'[u][h] = pass[u][h]
    BY <2>1, PassMoves
  <2>3. /\ exec'[e][g].at = "replayed"
        /\ \A d \in Call, h \in Generation :
             <<d, h>> # <<e, g>> => exec'[d][h] = exec[d][h]
    BY <2>1, ExecMoves
  <2>4. ~Busy(e, g)
    BY <2>1 DEF Idle, Busy, Open, Closing, CallsOf, CallsBy
  <2>5. QED BY <2>1, <2>2, <2>3, <2>4 DEF Gone, Active
<1>2. ASSUME NEW u \in Turn PROVE PassesPast(u)'
  <2>1. PassesPast(u) /\ turn[u].generation \in Int BY Numbers DEF Fence
  <2>2. QED BY <1>1, <2>1 DEF PassesPast, Gone, Generation
<1>3. ASSUME NEW d \in Call PROVE RowGone(d)' /\ ReceiptGone(d)'
  <2>1. RowGone(d) /\ ReceiptGone(d) /\ Owner[d] \in Turn
    BY ConstantsOK DEF Fence
  <2>2. QED BY <1>1, <2>1 DEF RowGone, ReceiptGone, Gone, Active
<1>4. ASSUME NEW d \in Outside PROVE CallInv(d)'
  <2>1. /\ d \in Call /\ Owner[d] \in Turn /\ CallInv(d) /\ RowGone(d)
        /\ ReceiptGone(d) /\ PassesPast(Owner[d])
        /\ turn[Owner[d]].generation \in Generation
        /\ turn[Owner[d]].generation \in Int
    BY ConstantsOK, Numbers DEF Fence, Outside
  <2>2. QED
    BY <1>1, <2>1, SMTT(30)
    DEF HasRow, OnePassActs, BusyIsRunning, ReplayAlone,
       OneBusy, LiveBlocks, Live, Blocking, Pending, Unresolved, Busy,
       Replays, Gone, Active, Closed, Outside, Reconciled, CallInv,
       PassesPast, RowGone, ReceiptGone
<1>5. LiveExclude'
  <2>1. ASSUME NEW c \in Outside, NEW h \in Generation, Live(c, h)'
        PROVE  Live(c, h)
    BY <1>1, <2>1 DEF Live, Outside
  <2>2. QED BY <2>1, NoNewLive DEF Fence
<1>6. QED BY <1>2, <1>3, <1>4, <1>5 DEF Fence

(* A turn with one local call in doubt is recovered: no execution of a     *)
(* call of that turn that touches the world outside is left.               *)
LEMMA RecoverFence ==
  ASSUME Rows, ResultsClose, Fence,
         NEW e \in Call, RecoverTurn(e)
  PROVE  Fence'
<1>1. /\ UNCHANGED <<pass, exec, receipt>>
      /\ \A u \in Turn : u # Owner[e] => turn'[u] = turn[u]
      /\ \A d \in Outside : row'[d] = row[d]
      /\ \A d \in Call : d # e => row'[d] = row[d]
      /\ row'[e].status # "absent"
      /\ turn[Owner[e]].status \in {"pending", "running"}
      /\ turn'[Owner[e]].status \in {"pending", "waiting"}
      /\ turn'[Owner[e]].generation = IF turn[Owner[e]].status = "running"
           THEN turn[Owner[e]].generation + 1 ELSE turn[Owner[e]].generation
      /\ \A d \in Outside, h \in Generation : Owner[d] = Owner[e] => ~Busy(d, h)
  <2>1. /\ Owner[e] \in Turn /\ e \in LocalCall /\ e \notin Outside
        /\ UNCHANGED <<pass, exec, receipt>>
        /\ turn[Owner[e]].status \in {"pending", "running"}
        /\ ~turn[Owner[e]].interrupted
    BY ConstantsOK DEF RecoverTurn, Outside, Reconciled
  <2>2. /\ \A d \in Call : d # e => row'[d] = row[d]
        /\ row'[e].status # "absent"
    BY DEF RecoverTurn, Rows, CallRow
  <2>3. \E s \in {"pending", "waiting"} :
        turn' = [turn EXCEPT ![Owner[e]].status = s,
          ![Owner[e]].generation = IF turn[Owner[e]].status = "running"
                                     THEN turn[Owner[e]].generation + 1
                                     ELSE turn[Owner[e]].generation]
    BY DEF RecoverTurn
  <2>4. /\ \A u \in Turn : u # Owner[e] => turn'[u] = turn[u]
        /\ turn'[Owner[e]].status \in {"pending", "waiting"}
        /\ turn'[Owner[e]].generation = IF turn[Owner[e]].status = "running"
             THEN turn[Owner[e]].generation + 1 ELSE turn[Owner[e]].generation
    BY <2>1, <2>3 DEF Rows, TurnRow
  <2>5. ASSUME NEW d \in Outside, NEW h \in Generation, Owner[d] = Owner[e],
               Busy(d, h)
        PROVE  FALSE
    <3>1. d \in Call /\ BusyIsRunning(d) /\ d # e
      BY <2>1 DEF Outside, Fence, CallInv
    <3>2. row[d].status = "running"
      BY <2>1, <2>5, <3>1 DEF BusyIsRunning, Active
    <3>3. \A b \in Call \ {e} :
            Owner[b] = Owner[e] /\ row[b].status # "absent" =>
              row[b].status \in Closed
      BY <2>1 DEF RecoverTurn, CallsOf, CallsBy
    <3>4. QED BY <2>5, <3>1, <3>2, <3>3 DEF Closed
  <2>6. QED BY <2>1, <2>2, <2>4, <2>5 DEF Outside
<1>2. ASSUME NEW u \in Turn PROVE PassesPast(u)'
  <2>1. PassesPast(u) /\ turn[u].generation \in Int BY Numbers DEF Fence
  <2>2. QED BY <1>1, <2>1 DEF PassesPast, Gone, Generation
<1>3. ASSUME NEW d \in Call PROVE RowGone(d)' /\ ReceiptGone(d)'
  <2>1. RowGone(d) /\ ReceiptGone(d) /\ Owner[d] \in Turn
    BY ConstantsOK DEF Fence
  <2>2. QED BY <1>1, <2>1 DEF RowGone, ReceiptGone, Gone, Active
<1>4. ASSUME NEW d \in Outside PROVE CallInv(d)'
  <2>1. /\ d \in Call /\ Owner[d] \in Turn /\ CallInv(d) /\ RowGone(d)
        /\ ReceiptGone(d) /\ PassesPast(Owner[d])
        /\ turn[Owner[d]].generation \in Generation
        /\ turn[Owner[d]].generation \in Int
    BY ConstantsOK, Numbers DEF Fence, Outside
  <2>2. QED
    BY <1>1, <2>1, SMTT(30)
    DEF HasRow, OnePassActs, BusyIsRunning, ReplayAlone,
       OneBusy, LiveBlocks, Live, Blocking, Pending, Unresolved, Busy,
       Replays, Gone, Active, Closed, Outside, Reconciled, CallInv,
       PassesPast, RowGone, ReceiptGone
<1>5. LiveExclude'
  <2>1. ASSUME NEW c \in Outside, NEW h \in Generation, Live(c, h)'
        PROVE  Live(c, h)
    BY <1>1, <2>1 DEF Live, Outside
  <2>2. QED BY <2>1, NoNewLive DEF Fence
<1>6. QED BY <1>2, <1>3, <1>4, <1>5 DEF Fence

(* A call is registered: the locks of the user and of the turn make the    *)
(* check for conflicts and the new row one step.                           *)
LEMMA RegisteredFence ==
  ASSUME Rows, ResultsClose, Fence,
         NEW t \in Turn, NEW g \in Generation, NEW e \in Call,
         NEW allowed \in BOOLEAN,
         NEW at \in {"registered", "finishing"}, NEW result,
         at = "registered" => allowed,
         UNCHANGED <<turn, receipt>>,
         Admits(t, g, e), Register(e, g, allowed), Goes(e, g, at, result),
         pass[t][g].at # "none",
         \A u \in Turn, h \in Generation :
           <<u, h>> # <<t, g>> => pass'[u][h] = pass[u][h]
  PROVE  Fence'
<1>1. /\ UNCHANGED <<turn, receipt>>
      /\ \A d \in Call, h \in Generation :
           <<d, h>> # <<e, g>> => exec'[d][h] = exec[d][h]
      /\ exec'[e][g].at = at
      /\ \A d \in Call : d # e => row'[d] = row[d]
      /\ row'[e].status = "running" /\ row'[e].generation = g
      /\ row'[e].allowed = allowed
      /\ Owner[e] = t /\ turn[t].generation = g /\ turn[t].status = "running"
      /\ row[e].status \in {"absent", "waiting", "deferred"}
  <2>1. /\ Owner[e] = t /\ turn[t].generation = g /\ turn[t].status \in Active
        /\ row[e].status \in {"absent", "waiting", "deferred"}
    BY DEF Admits, Current, Fresh, Suspended
  <2>2. turn[t].status = "running"
    BY <2>1, Numbers DEF Fence, PassesPast, Gone, Active
  <2>3. /\ exec'[e][g].at = at
        /\ \A d \in Call, h \in Generation :
             <<d, h>> # <<e, g>> => exec'[d][h] = exec[d][h]
    BY ExecMoves DEF Goes
  <2>4. /\ \A d \in Call : d # e => row'[d] = row[d]
        /\ row'[e].status = "running" /\ row'[e].generation = g
        /\ row'[e].allowed = allowed
    BY DEF Register, Rows, CallRow
  <2>5. QED BY <2>1, <2>2, <2>3, <2>4
<1>2. ASSUME NEW u \in Turn PROVE PassesPast(u)'
  <2>1. PassesPast(u) /\ turn[u].generation \in Int BY Numbers DEF Fence
  <2>2. QED BY <1>1, <2>1 DEF PassesPast, Gone, Generation
<1>3. ASSUME NEW d \in Call PROVE RowGone(d)' /\ ReceiptGone(d)'
  <2>1. RowGone(d) /\ ReceiptGone(d) /\ Owner[d] \in Turn
    BY ConstantsOK DEF Fence
  <2>2. QED BY <1>1, <2>1 DEF RowGone, ReceiptGone, Gone, Active
<1>4. ASSUME NEW d \in Outside PROVE CallInv(d)'
  <2>1. /\ d \in Call /\ Owner[d] \in Turn /\ CallInv(d) /\ RowGone(d)
        /\ ReceiptGone(d) /\ PassesPast(Owner[d])
        /\ turn[Owner[d]].generation \in Generation
        /\ turn[Owner[d]].generation \in Int
    BY ConstantsOK, Numbers DEF Fence, Outside
  <2>2. QED
    BY <1>1, <2>1, SMTT(30)
    DEF HasRow, OnePassActs, BusyIsRunning, ReplayAlone,
       OneBusy, LiveBlocks, Live, Blocking, Pending, Unresolved, Busy,
       Replays, Gone, Active, Closed, Outside, Reconciled, CallInv,
       PassesPast, RowGone, ReceiptGone
<1>5. LiveExclude'
  <2>1. ASSUME NEW c \in Outside, NEW h \in Generation, Live(c, h)',
               c # e \/ h # g
        PROVE  Live(c, h)
    BY <1>1, <2>1 DEF Live, Outside
  <2>2. ASSUME NEW c \in Outside, NEW h \in Generation, Live(c, h),
               e \in Outside, c # e, Touches[c] \cap Touches[e] # {}
        PROVE  FALSE
    <3>1. c \in Call \ {e} /\ Effect[e] # "read" /\ Blocking(c)
      BY <2>2 DEF Fence, CallInv, LiveBlocks, Outside, Reconciled
    <3>2. QED BY <2>2, <3>1 DEF Admits, Conflict
  <2>3. QED BY <2>1, <2>2 DEF LiveExclude, Fence
<1>6. QED BY <1>2, <1>3, <1>4, <1>5 DEF Fence

-----------------------------------------------------------------------------

(* A step that leaves what the fences read alone.                          *)
LEMMA SameFence ==
  ASSUME Fence, UNCHANGED <<turn, pass, row, exec, receipt>>
  PROVE  Fence'
BY DEF Fence, PassesPast, RowGone, ReceiptGone, Gone, CallInv, HasRow,
   OnePassActs, BusyIsRunning, ReplayAlone, OneBusy, LiveBlocks, LiveExclude,
   Busy, Replays, Live, Blocking, Pending

LEMMA FenceInit == Init => Fence
<1>1. SUFFICES ASSUME Init PROVE Fence OBVIOUS
<1>2. /\ \A t \in Turn, g \in Generation : pass[t][g].at = "none"
      /\ \A c \in Call, g \in Generation : exec[c][g].at = "idle"
      /\ \A c \in Call : row[c].status = "absent" /\ receipt[c] = "none"
  BY <1>1 DEF Init, NoPass, NoExec, NoRow
<1>3. /\ \A t \in Turn : PassesPast(t)
      /\ \A c \in Call : RowGone(c) /\ ReceiptGone(c)
  BY <1>2 DEF PassesPast, RowGone, ReceiptGone
<1>4. \A c \in Outside : CallInv(c)
  BY <1>2 DEF Outside, CallInv, HasRow, OnePassActs, BusyIsRunning,
     ReplayAlone, OneBusy, LiveBlocks, Busy, Replays, Live
<1>5. LiveExclude
  BY <1>2 DEF LiveExclude, Live, Outside
<1>6. QED BY <1>3, <1>4, <1>5 DEF Fence

(* Steps that move one pass or one execution and nothing else.             *)
LEMMA PassOnlyFence ==
  ASSUME Typed, Fence, NEW t \in Turn, NEW g \in Generation, NEW p,
         UNCHANGED <<turn, row, exec, receipt>>, pass[t][g].at # "none",
         PassIs(t, g, p)
  PROVE  Fence'
BY PassMoves, PassMoveFence DEF Typed

LEMMA ExecOnlyFence ==
  ASSUME Typed, Fence, NEW c \in Call, NEW g \in Generation, NEW x,
         UNCHANGED <<turn, pass, row, receipt>>, ExecIs(c, g, x),
         \/ x.at = "idle"
         \/ Busy(c, g) /\ x.at \in {"finishing", "writing", "late"}
         \/ Replays(c, g) /\ x.at = "rewriting"
  PROVE  Fence'
BY ExecMoves, ExecMoveFence DEF Typed

(* The actions together.                                                   *)
LEMMA TurnStepFence ==
  ASSUME Typed, Fence, NEW t \in Turn, TurnStep(t)
  PROVE  Fence'
<1>1. Rows /\ ResultsClose BY DEF Typed
<1>2. CASE CancelTurn(t)
  BY <1>1, <1>2, CancelTurnFence DEF CancelTurn
<1>3. CASE ResolveClientAction(t)
  BY <1>1, <1>3, SameFence, ResumedFence DEF ResolveClientAction
<1>4. QED
  BY <1>1, <1>2, <1>3, ClaimFence, CloseTurnFence, InterruptFence,
     DeleteFence
  DEF TurnStep

LEMMA PassStepFence ==
  ASSUME Typed, Fence, NEW t \in Turn, NEW g \in Generation, PassStep(t, g)
  PROVE  Fence'
<1>1. Rows /\ ResultsClose /\ CallsOf(t) \subseteq Call BY Bounds DEF Typed
<1>2. CASE Load(t, g)
  BY <1>2, PassOnlyFence DEF Load
<1>3. CASE RejectWaiting(t, g)
  <2>1. /\ UNCHANGED <<turn, exec, receipt>> /\ pass[t][g].at # "none"
        /\ PassIs(t, g, [pass[t][g] EXCEPT !.at = "rejected"])
    BY <1>3 DEF RejectWaiting, PassAt
  <2>2. CASE UNCHANGED row
    BY <2>1, <2>2, PassOnlyFence
  <2>3. CASE ~UNCHANGED row
    <3>1. ~Gone(t)
      BY <1>3, <2>3 DEF RejectWaiting, Gone
    <3>2. \A d \in Call :
            \/ row'[d] = row[d]
            \/ row[d].status = "waiting" /\ row'[d].status = "denied"
      BY <1>1, <1>3 DEF RejectWaiting, Rows, CallRow
    <3>3. QED BY <1>1, <2>1, <3>1, <3>2, PassMoves, RowMoveFence
  <2>4. QED BY <2>2, <2>3
<1>4. CASE CancelDeferred(t, g)
  <2>1. /\ UNCHANGED <<turn, exec, receipt>> /\ pass[t][g].at # "none"
        /\ PassIs(t, g, [NoPass EXCEPT !.at = "live"])
    BY <1>4 DEF CancelDeferred
  <2>2. CASE Gone(t)
    <3>1. row' = row
      BY <1>1, <1>4, <2>2 DEF CancelDeferred, Gone, Rows
    <3>2. QED BY <2>1, <3>1, PassOnlyFence
  <2>3. CASE ~Gone(t)
    <3>1. \A d \in Call :
            \/ row'[d] = row[d]
            \/ row[d].status = "deferred" /\ row'[d].status = "cancelled"
      BY <1>1, <1>4 DEF CancelDeferred, Rows, CallRow
    <3>2. QED BY <1>1, <2>1, <2>3, <3>1, PassMoves, RowMoveFence
  <2>4. QED BY <2>2, <2>3
<1>5. ASSUME NEW c \in CallsOf(t), NEW S \in SUBSET CallsOf(t),
             Defer(t, g, c, S)
      PROVE  Fence'
  <2>1. /\ UNCHANGED <<turn, exec, receipt>> /\ pass[t][g].at # "none"
        /\ ~Gone(t)
    BY <1>5 DEF Defer, Current, Active, Gone
  <2>2. \A u \in Turn, h \in Generation :
          <<u, h>> # <<t, g>> => pass'[u][h] = pass[u][h]
    BY <1>1, <1>5, PassMoves DEF Defer
  <2>3. \A d \in Call :
          \/ row'[d] = row[d]
          \/ /\ Owner[d] = t
             /\ row[d].status = "absent" /\ row'[d].status = "deferred"
    BY <1>5 DEF Defer, NoRow, CallsOf, CallsBy
  <2>4. QED BY <1>1, <2>1, <2>2, <2>3, RowMoveFence
<1>6. ASSUME NEW c \in CallsOf(t), Start(t, g, c)
      PROVE  Fence'
  <2>1. /\ UNCHANGED <<turn, pass, receipt>> /\ Admits(t, g, c)
        /\ pass[t][g].at # "none" /\ c \in Call
    BY <1>1, <1>6 DEF Start
  <2>2. \A u \in Turn, h \in Generation :
          <<u, h>> # <<t, g>> => pass'[u][h] = pass[u][h]
    BY <2>1
  <2>3. \/ /\ Register(c, g, TRUE)
           /\ Goes(c, g, "registered", "none")
        \/ /\ Register(c, g, TRUE)
           /\ Goes(c, g, "finishing", "failed")
        \/ /\ Register(c, g, FALSE)
           /\ Goes(c, g, "finishing", "denied")
    BY <1>6 DEF Start
  <2>4. CASE /\ Register(c, g, TRUE)
             /\ Goes(c, g, "registered", "none")
    BY <1>1, <2>1, <2>2, <2>4, RegisteredFence
  <2>5. CASE /\ Register(c, g, TRUE)
             /\ Goes(c, g, "finishing", "failed")
    BY <1>1, <2>1, <2>2, <2>5, RegisteredFence
  <2>6. CASE /\ Register(c, g, FALSE)
             /\ Goes(c, g, "finishing", "denied")
    BY <1>1, <2>1, <2>2, <2>6, RegisteredFence
  <2>7. QED BY <2>3, <2>4, <2>5, <2>6
<1>7. CASE StartAsking(t, g)
  <2> DEFINE c == pass[t][g].about
  <2>1. /\ UNCHANGED <<turn, receipt>> /\ pass[t][g].at # "none"
        /\ PassIs(t, g, [pass[t][g] EXCEPT !.at = "live", !.about = None])
    BY <1>7 DEF StartAsking
  <2>2. CASE Admits(t, g, c)
    <3>1. c \in Call
      BY <1>1, <2>2 DEF Admits, Fresh, Suspended, Rows
    <3>2. /\ Register(c, g, FALSE)
          /\ Goes(c, g, "finishing", "waiting")
      BY <1>7, <2>2 DEF StartAsking
    <3>3. \A u \in Turn, h \in Generation :
            <<u, h>> # <<t, g>> => pass'[u][h] = pass[u][h]
      BY <1>1, <2>1, PassMoves
    <3> HIDE DEF c
    <3>4. QED BY <1>1, <2>1, <2>2, <3>1, <3>2, <3>3, RegisteredFence
  <2>3. CASE ~Admits(t, g, c)
    BY <1>7, <2>1, <2>3, PassOnlyFence DEF StartAsking
  <2>4. QED BY <2>2, <2>3
<1>8. ASSUME NEW c \in CallsOf(t), ReplayCancelled(t, g, c)
      PROVE  Fence'
  BY <1>1, <1>8, ReplayFence
<1>9. CASE StopPass(t, g)
  BY <1>9, PassOnlyFence DEF StopPass, PassAt
<1>10. CASE WaitTurn(t, g) \/ FinishTurn(t, g) \/ Crash(t, g)
  BY <1>1, <1>10, WaitTurnFence, FinishTurnFence, CrashFence
<1>11. QED
  BY <1>2, <1>3, <1>4, <1>5, <1>6, <1>7, <1>8, <1>9, <1>10 DEF PassStep

LEMMA CallStepFence ==
  ASSUME Typed, Fence, NEW c \in Call, NEW g \in Generation, CallStep(c, g)
  PROVE  Fence'
<1>1. Rows /\ ResultsClose BY DEF Typed
<1>2. CASE MarkHandlerStarted(c, g)
  <2>1. CASE Admitted(c, g)
    BY <1>1, <1>2, <2>1, MarkedFence
  <2>2. CASE ~Admitted(c, g)
    BY <1>2, <2>2, ExecOnlyFence DEF MarkHandlerStarted, Ends, NoExec
  <2>3. QED BY <2>1, <2>2
<1>3. CASE \E client \in Client : CreateClientAction(c, g, client)
  BY <1>3, SameFence DEF CreateClientAction
<1>4. CASE HandlerReturns(c, g) \/ HandlerRaises(c, g)
  BY <1>4, ExecOnlyFence DEF HandlerReturns, HandlerRaises, Goes, Busy
<1>5. CASE CancelExecution(c, g)
  BY <1>5, ExecOnlyFence DEF CancelExecution, Goes, Busy
<1>6. CASE FinishRead(c, g)
  <2>1. /\ UNCHANGED <<turn, pass, row, receipt>>
        /\ Busy(c, g) \/ Replays(c, g)
        /\ \/ Ends(c, g)
           \/ \E at \in {"rewriting", "writing", "late"} :
                /\ at = "rewriting" => Replays(c, g)
                /\ at # "rewriting" => Busy(c, g)
                /\ Goes(c, g, at, Reclassified(c, exec[c][g].result))
    BY <1>6 DEF FinishRead, Busy, Replays
  <2>2. QED BY <2>1, ExecOnlyFence DEF Ends, NoExec, Goes
<1>7. CASE FinishDeleted(c, g)
  BY <1>1, <1>7, SettledFence
<1>8. CASE FinishWrite(c, g)
  <2>1. /\ UNCHANGED <<turn, receipt>> /\ Ends(c, g)
        /\ Busy(c, g) \/ Replays(c, g)
    BY <1>8 DEF FinishWrite, Busy, Replays
  <2>2. CASE row[c].status = "absent"
    BY <1>8, <2>1, <2>2, ExecOnlyFence DEF FinishWrite, Ends, NoExec
  <2>3. CASE row[c].status # "absent"
    <3>1. /\ exec[c][g].result \in Closed \cup {"waiting"}
          /\ Replays(c, g) => exec[c][g].result # "waiting"
      <4>1. exec[c][g] \in ExecRow /\ exec[c][g].result # "none"
        BY <1>1, <1>8 DEF FinishWrite, Rows, ResultsClose, Closing
      <4>2. Replays(c, g) => exec[c][g].result \in {"cancelled", "unknown"}
        BY <1>1 DEF ResultsClose
      <4>3. QED BY <4>1, <4>2 DEF ExecRow
    <3>2. /\ row' = [row EXCEPT ![c].status = exec[c][g].result]
          /\ \/ pass' = pass
             \/ /\ pass[Owner[c]][g].at = "live"
                /\ PassIs(Owner[c], g,
                          [pass[Owner[c]][g] EXCEPT !.at = "asking"])
      BY <1>8, <2>3 DEF FinishWrite, PassAt
    <3>3. \A u \in Turn, h \in Generation :
            pass[u][h].at = "none" => pass'[u][h].at = "none"
      <4>1. Owner[c] \in Turn BY Bounds
      <4>2. QED BY <1>1, <3>2, <4>1, PassMoves
    <3>4. QED BY <1>1, <2>1, <2>3, <3>1, <3>2, <3>3, WrittenFence
  <2>4. QED BY <2>2, <2>3
<1>9. CASE FinishLate(c, g)
  <2>1. /\ UNCHANGED <<turn, pass, receipt>> /\ Ends(c, g)
        /\ Busy(c, g) /\ ~Replays(c, g)
    BY <1>9 DEF FinishLate, Busy, Replays
  <2>2. CASE row[c].status = "absent"
    BY <1>9, <2>1, <2>2, ExecOnlyFence DEF FinishLate, Ends, NoExec
  <2>3. CASE row[c].status # "absent"
    <3>1. exec[c][g].result \in Closed \cup {"waiting"}
      BY <1>1, <1>9 DEF FinishLate, Rows, ExecRow, ResultsClose, Closing
    <3>2. row' = [row EXCEPT ![c].status = exec[c][g].result]
      BY <1>9, <2>3 DEF FinishLate
    <3>3. QED BY <1>1, <2>1, <2>3, <3>1, <3>2, WrittenFence
  <2>4. QED BY <2>2, <2>3
<1>10. CASE LoseFinish(c, g)
  BY <1>10, ExecOnlyFence DEF LoseFinish, Ends, NoExec
<1>11. QED
  BY <1>2, <1>3, <1>4, <1>5, <1>6, <1>7, <1>8, <1>9, <1>10 DEF CallStep

LEMMA QuestionStepFence ==
  ASSUME Typed, Fence, NEW t \in Turn, NEW i \in DOMAIN question[t],
         QuestionStep(t, i)
  PROVE  Fence'
<1>1. Rows /\ ResultsClose BY DEF Typed
<1>2. CASE \E status \in {"resolved", "rejected"} : Answer(t, i, status)
  BY <1>1, <1>2, ResumedFence DEF Answer
<1>3. CASE AnswerCancels(t, i)
  BY <1>1, <1>3, SameFence, CancelTurnFence DEF AnswerCancels
<1>4. CASE \/ \E client \in Client : Takeover(t, i, client)
           \/ ReadClientAction(t, i)
  BY <1>4, SameFence DEF Takeover, ReadClientAction
<1>5. QED BY <1>2, <1>3, <1>4 DEF QuestionStep

LEMMA FenceStep ==
  ASSUME Typed, Fence, [Next]_vars
  PROVE  Fence'
<1>1. ASSUME NEW t \in Turn, NEW g \in 1 .. LastGeneration[t], PassStep(t, g)
      PROVE  Fence'
  BY <1>1, Bounds, PassStepFence
<1>2. ASSUME NEW c \in Call, NEW g \in 1 .. LastGeneration[Owner[c]],
             CallStep(c, g)
      PROVE  Fence'
  BY <1>2, Bounds, CallStepFence
<1>3. ASSUME NEW c \in Call, RecoverTurn(c) \/ ExpireReceipt(c)
      PROVE  Fence'
  BY <1>3, RecoverFence, ExpireFence DEF Typed
<1>4. CASE UNCHANGED vars
  BY <1>4, SameFence DEF vars
<1>5. QED
  BY <1>1, <1>2, <1>3, <1>4, TurnStepFence, QuestionStepFence DEF Next

(* The invariant of the dispatch fences holds in every reachable state.    *)
THEOREM FenceHolds == Spec => [](Typed /\ Fence)
<1>1. Init => Typed /\ Fence BY InitTyped, FenceInit
<1>2. Typed /\ Fence /\ [Next]_vars => (Typed /\ Fence)'
  BY TypedStep, FenceStep
<1>3. QED BY <1>1, <1>2, PTL DEF Spec

(* Two mutations of one resource never run side by side, and no call runs  *)
(* twice, for any number of Conversations, passes and generations.         *)
THEOREM Exclusion == Spec => []HandlersExclude
<1>1. ASSUME Fence PROVE HandlersExclude
  <2>1. ASSUME NEW c \in Call, NEW d \in Call,
               NEW g \in Generation, NEW h \in Generation,
               exec[c][g].at = "handling", exec[d][h].at = "handling",
               Effect[c] \in Reconciled, Effect[d] \in Reconciled,
               c = d \/ Touches[c] \cap Touches[d] # {}
        PROVE  c = d /\ g = h
    <3>1. c \in Outside /\ d \in Outside /\ Live(c, g) /\ Live(d, h)
      BY <2>1 DEF Outside, Live
    <3>2. c = d
      BY <1>1, <2>1, <3>1 DEF Fence, LiveExclude
    <3>3. OneBusy(c) /\ Busy(c, g) /\ Busy(d, h)
      BY <1>1, <2>1, <3>1 DEF Fence, CallInv, Busy
    <3>4. QED BY <3>2, <3>3 DEF OneBusy
  <2>2. QED BY <2>1 DEF HandlersExclude
<1>2. QED BY <1>1, FenceHolds, PTL

-----------------------------------------------------------------------------
(* What the executions of a call may still write.  While one of generation *)
(* h has not ended the row is of h, and nothing but an interrupt closed    *)
(* it; a repeat of a closed call writes a closed row of its own            *)
(* generation.  Either may have lost its Conversation.                     *)
Follows(c, h) ==
  Busy(c, h) => \/ Gone(Owner[c])
                \/ /\ row[c].generation = h
                   /\ row[c].status \in {"running", "unknown", "cancelled"}
Rewrites(c, h) ==
  exec[c][h].at = "rewriting" => \/ Gone(Owner[c])
                                 \/ /\ row[c].generation = h
                                    /\ row[c].status \in Closed
Repeats(c, h) ==
  exec[c][h].at = "replayed" => \/ Gone(Owner[c])
                                \/ row[c].generation = h =>
                                     row[c].status \in Closed
History(c) ==
  /\ row[c].status = "absent" => ~row[c].started
  /\ \A h \in Generation : Follows(c, h) /\ Rewrites(c, h) /\ Repeats(c, h)

Remote == Call \ LocalCall

(* What the property says of one call.                                     *)
Recorded(c) ==
  \A g \in Generation :
    /\ (/\ exec[c][g].at \in {"finishing", "writing", "late"}
        /\ exec[c][g].result \in {"completed", "failed"}
        /\ exec'[c][g].at = "idle" /\ losses' = losses
        /\ row[c].started /\ row[c].generation = g
        /\ row[c].status # "completed")
       => row'[c].status = exec[c][g].result
    /\ row[c].status = "completed" =>
         \/ row'[c].status \in {"completed", "absent"}
         \/ exec[c][g].at = "rewriting"
         \/ row[c].generation # g

(* What a step owes a call: the invariant and the property.                *)
Kept(c) == History(c)' /\ Recorded(c)

(* A deleted Conversation stays deleted.                                   *)
StaysGone == \A t \in Turn : Gone(t) => Gone(t)'

LEMMA GoneStays ==
  ASSUME Rows, NEW t \in Turn, NEW s, NEW n,
         ~Gone(t), \A u \in Turn : u # t => turn'[u] = turn[u]
  PROVE  StaysGone
BY DEF StaysGone, Gone

LEMMA SameTurns ==
  ASSUME UNCHANGED turn
  PROVE  StaysGone
BY DEF StaysGone, Gone

(* A step that touches neither the row of a call nor its executions.       *)
LEMMA UntouchedKept ==
  ASSUME NEW c \in Remote, History(c), StaysGone,
         row'[c] = row[c],
         \A h \in Generation : exec'[c][h] = exec[c][h]
  PROVE  Kept(c)
<1>1. Owner[c] \in Turn BY ConstantsOK DEF Remote
<1>2. History(c)'
  BY <1>1 DEF History, Follows, Rewrites, Repeats, Busy, StaysGone
<1>3. Recorded(c) BY DEF Recorded
<1>4. QED BY <1>2, <1>3 DEF Kept

(* A step that moves one execution of a call, which goes on to record what *)
(* its handler returned, or repeats a closed row.                          *)
LEMMA MovedKept ==
  ASSUME Typed, NEW c \in Remote, NEW g \in Generation, History(c),
         UNCHANGED <<turn, row>>,
         \A h \in Generation : h # g => exec'[c][h] = exec[c][h],
         \/ Busy(c, g) /\ exec'[c][g].at \in
              {"handling", "finishing", "writing", "late"}
         \/ /\ exec[c][g].at = "replayed" /\ exec'[c][g].at = "rewriting"
            /\ row[c].generation = g
  PROVE  Kept(c)
<1>1. Owner[c] \in Turn BY ConstantsOK DEF Remote
<1>2. History(c)'
  BY <1>1 DEF History, Follows, Rewrites, Repeats, Busy, Gone
<1>3. Recorded(c) BY DEF Recorded
<1>4. QED BY <1>2, <1>3 DEF Kept

(* A step that ends one without writing, when it had nothing to record.    *)
LEMMA EndedKept ==
  ASSUME Typed, NEW c \in Remote, NEW g \in Generation, History(c),
         StaysGone, UNCHANGED row,
         \A h \in Generation : h # g => exec'[c][h] = exec[c][h],
         exec'[c][g].at = "idle",
         \/ exec[c][g].at \notin {"finishing", "writing", "late"}
         \/ losses' # losses \/ ~row[c].started
         \/ /\ exec[c][g].result \in {"completed", "failed"}
            /\ row[c].generation = g /\ row[c].status # "completed"
            => row[c].status = exec[c][g].result
  PROVE  Kept(c)
<1>1. Owner[c] \in Turn BY ConstantsOK DEF Remote
<1>2. History(c)'
  BY <1>1 DEF History, Follows, Rewrites, Repeats, Busy, StaysGone
<1>3. Recorded(c) BY DEF Recorded
<1>4. QED BY <1>2, <1>3 DEF Kept

(* The step that writes a result: the execution is the one of the row.     *)
LEMMA WrittenKept ==
  ASSUME Typed, NEW c \in Remote, NEW g \in Generation, History(c),
         RowGone(c), UNCHANGED turn, row[c].status # "absent",
         row' = [row EXCEPT ![c].status = exec[c][g].result],
         \A h \in Generation : h # g => exec'[c][h] = exec[c][h],
         exec'[c][g].at = "idle",
         exec[c][g].at \in {"writing", "late", "rewriting"}
  PROVE  Kept(c)
<1>1. /\ Owner[c] \in Turn /\ c \in Call
      /\ ~Gone(Owner[c])
  BY ConstantsOK DEF Remote, RowGone
<1>2. /\ row[c].generation = g
      /\ exec[c][g].at # "rewriting" => row[c].status # "completed"
      /\ exec[c][g].at = "rewriting" =>
           exec[c][g].result \in {"cancelled", "unknown"}
  BY <1>1 DEF History, Follows, Rewrites, Busy, Typed, ResultsClose, Replays
<1>3. \A h \in Generation : ~Busy(c, h)' /\ exec'[c][h].at # "rewriting"
  BY <1>1, <1>2 DEF History, Follows, Rewrites, Busy
<1>4. /\ row'[c].status = exec[c][g].result
      /\ row'[c].generation = g
  BY <1>1, <1>2 DEF Typed, Rows, CallRow
<1>5. row'[c].status # "absent"
  BY <1>1, <1>4 DEF Typed, Rows, ExecRow, Closed
<1>6. History(c)'
  BY <1>3, <1>4, <1>5 DEF History, Follows, Rewrites, Repeats
<1>7. Recorded(c)
  BY <1>2, <1>4 DEF Recorded
<1>8. QED BY <1>6, <1>7 DEF Kept

(* A call that starts in generation g, or whose asking begins.             *)
LEMMA RegisteredKept ==
  ASSUME Typed, NEW c \in Remote, NEW g \in Generation, History(c),
         NEW t \in Turn, NEW allowed \in BOOLEAN, NEW result,
         NEW at \in {"registered", "finishing"},
         UNCHANGED turn, Admits(t, g, c),
         Register(c, g, allowed), Goes(c, g, at, result)
  PROVE  Kept(c)
<1>1. /\ c \in Call /\ Owner[c] = t /\ ~Gone(t)
      /\ row[c].status \in {"absent", "waiting", "deferred"}
  BY DEF Remote, Admits, Current, Active, Gone, Fresh, Suspended
<1>2. /\ row'[c].status = "running" /\ row'[c].generation = g
      /\ exec'[c][g].at = at
      /\ \A h \in Generation : h # g => exec'[c][h] = exec[c][h]
  <2>1. row'[c].status = "running" /\ row'[c].generation = g
    BY <1>1 DEF Register, Typed, Rows, CallRow
  <2>2. QED BY <1>1, <2>1, ExecMoves DEF Goes, Typed
<1>3. \A h \in Generation : ~Busy(c, h) /\ exec[c][h].at # "rewriting"
  BY <1>1 DEF History, Follows, Rewrites, Closed
<1>4. History(c)'
  BY <1>1, <1>2, <1>3 DEF History, Follows, Rewrites, Repeats, Busy
<1>5. Recorded(c)
  BY <1>1, <1>2 DEF Recorded
<1>6. QED BY <1>4, <1>5 DEF Kept

(* A step that closes a waiting or deferred call, or defers an absent one  *)
(* its pass has not begun.                                                 *)
LEMMA SetAsideKept ==
  ASSUME Typed, NEW c \in Remote, NEW g \in Generation, History(c),
         UNCHANGED <<turn, exec>>, ~Gone(Owner[c]),
         row'[c].generation = g, row'[c].status # "absent",
         \/ /\ row[c].status \in {"waiting", "deferred"}
            /\ row'[c].status \in Closed
         \/ row[c].status = "absent" /\ exec[c][g].at # "replayed"
  PROVE  Kept(c)
<1>1. \A h \in Generation : ~Busy(c, h) /\ exec[c][h].at # "rewriting"
  BY DEF History, Follows, Rewrites, Closed
<1>2. History(c)'
  BY <1>1 DEF History, Follows, Rewrites, Repeats, Busy
<1>3. Recorded(c) BY DEF Recorded
<1>4. QED BY <1>2, <1>3 DEF Kept

(* A row whose generation and status stay, and one an interrupt closes.    *)
LEMMA ClosedKept ==
  ASSUME Typed, NEW c \in Remote, History(c), StaysGone,
         row'[c].generation = row[c].generation,
         \/ /\ row[c].status \in {"running", "waiting", "deferred"}
            /\ row'[c].status \in {"unknown", "cancelled"}
         \/ row[c].status = "running" /\ row'[c].status = "running",
         \A h \in Generation : \/ exec'[c][h].at = exec[c][h].at
                               \/ Busy(c, h) /\ exec'[c][h].at = "handling"
  PROVE  Kept(c)
<1>1. Owner[c] \in Turn BY ConstantsOK DEF Remote
<1>2. \A h \in Generation : Busy(c, h)' => Busy(c, h)
  BY DEF Busy
<1>3. History(c)'
  BY <1>1, <1>2 DEF History, Follows, Rewrites, Repeats, StaysGone, Closed
<1>4. Recorded(c) BY DEF Recorded
<1>5. QED BY <1>3, <1>4 DEF Kept

-----------------------------------------------------------------------------
(* Each of the following lemmas shows that one kind of step keeps every    *)
(* result: the steps of a turn.                                            *)
LEMMA TurnStepRecords ==
  ASSUME Typed, NEW c \in Remote, History(c), NEW t \in Turn, TurnStep(t)
  PROVE  Kept(c)
<1>1. /\ turn \in [Turn -> TurnRow] /\ row \in [Call -> CallRow]
      /\ c \in Call /\ Owner[c] \in Turn
  BY ConstantsOK DEF Typed, Rows, Remote
<1>2. CASE Interrupt(t)
  <2>1. /\ UNCHANGED exec
        /\ row'[c] = IF /\ Owner[c] = t
                        /\ row[c].status \in {"running", "waiting", "deferred"}
                       THEN [row[c] EXCEPT !.status = Interrupted(c)]
                       ELSE row[c]
    BY <1>1, <1>2 DEF Interrupt
  <2>2. StaysGone
    BY <1>1, <1>2, GoneStays DEF Interrupt, Gone, Active, Typed
  <2>3. CASE row'[c] = row[c]
    BY <2>1, <2>2, <2>3, UntouchedKept
  <2>4. CASE /\ row[c].status \in {"running", "waiting", "deferred"}
             /\ row'[c] = [row[c] EXCEPT !.status = Interrupted(c)]
    <3>1. /\ row'[c].generation = row[c].generation
          /\ row'[c].status \in {"unknown", "cancelled"}
      BY <1>1, <2>4 DEF Interrupted, CallRow
    <3>2. QED BY <2>1, <2>2, <2>4, <3>1, ClosedKept
  <2>5. QED BY <2>1, <2>3, <2>4
<1>3. CASE DeleteConversation(t)
  <2>1. /\ UNCHANGED exec
        /\ row'[c] = IF Owner[c] = t THEN NoRow ELSE row[c]
        /\ Gone(t)'
        /\ \A u \in Turn : u # t => turn'[u] = turn[u]
    BY <1>1, <1>3 DEF DeleteConversation, Gone
  <2>2. StaysGone BY <2>1 DEF StaysGone, Gone
  <2>3. CASE Owner[c] = t
    <3>1. History(c)'
      BY <2>1, <2>3 DEF History, Follows, Rewrites, Repeats, NoRow
    <3>2. Recorded(c)
      BY <2>1, <2>3 DEF Recorded, NoRow
    <3>3. QED BY <3>1, <3>2 DEF Kept
  <2>4. QED BY <2>1, <2>2, <2>3, UntouchedKept
<1>4. CASE Claim(t) \/ CancelTurn(t) \/ CloseTurn(t) \/ ResolveClientAction(t)
  <2>1. UNCHANGED <<row, exec>>
    BY <1>4 DEF Claim, CancelTurn, CloseTurn, ResolveClientAction
  <2>2. CASE UNCHANGED turn
    BY <2>1, <2>2, SameTurns, UntouchedKept
  <2>3. CASE turn' # turn
    <3>1. turn[t].status \in Active
      BY <1>4, <2>3 DEF Claim, CancelTurn, CloseTurn, ResolveClientAction,
         Resume, Active
    <3>2. \A u \in Turn : u # t => turn'[u] = turn[u]
      BY <1>1, <1>4 DEF Claim, CancelTurn, CloseTurn, EndTurn,
         ResolveClientAction, Resume
    <3>3. StaysGone
      BY <3>1, <3>2 DEF StaysGone, Gone, Active
    <3>4. QED BY <2>1, <3>3, UntouchedKept
  <2>4. QED BY <2>2, <2>3
<1>5. QED BY <1>2, <1>3, <1>4 DEF TurnStep

(* The steps of a pass: it registers, defers, rejects and repeats.         *)
LEMMA PassStepRecords ==
  ASSUME Typed, NEW c \in Remote, History(c), RowGone(c),
         NEW t \in Turn, NEW g \in Generation, PassStep(t, g)
  PROVE  Kept(c)
<1>1. /\ turn \in [Turn -> TurnRow] /\ row \in [Call -> CallRow]
      /\ c \in Call /\ Owner[c] \in Turn /\ CallsOf(t) \subseteq Call
  BY Bounds DEF Typed, Rows, Remote
<1>2. CASE RejectWaiting(t, g)
  <2>1. UNCHANGED <<turn, exec>> BY <1>2 DEF RejectWaiting
  <2>2. CASE row'[c] = row[c]
    BY <2>1, <2>2, SameTurns, UntouchedKept
  <2>3. CASE row'[c] # row[c]
    <3> DEFINE e == pass[t][g].about
               fits == /\ turn[t].status # "deleted"
                       /\ turn[t].generation = g
                       /\ row[e].status = "waiting"
    <3>1. row' = IF fits
                   THEN [row EXCEPT ![e].status = "denied",
                                    ![e].generation = g, ![e].allowed = FALSE]
                   ELSE row
      BY <1>2 DEF RejectWaiting
    <3>2. fits /\ e = c
      <4>1. fits BY <2>3, <3>1
      <4>2. row' = [row EXCEPT ![e].status = "denied",
                               ![e].generation = g, ![e].allowed = FALSE]
        BY <3>1, <4>1
      <4> HIDE DEF e, fits
      <4>3. e # c => row'[c] = row[c]
        BY <1>1, <4>2
      <4>4. QED BY <2>3, <4>1, <4>3
    <3>3. row[c].status = "waiting"
      BY <3>2
    <3>4. row'[c].status = "denied" /\ row'[c].generation = g
      BY <1>1, <3>1, <3>2 DEF CallRow
    <3>5. row'[c].status \in Closed /\ row'[c].status # "absent"
      BY <3>4 DEF Closed
    <3>6. ~Gone(Owner[c])
      BY <3>3 DEF RowGone
    <3> HIDE DEF e, fits
    <3>7. QED BY <2>1, <3>3, <3>4, <3>5, <3>6, SetAsideKept
  <2>4. QED BY <2>2, <2>3
<1>3. CASE CancelDeferred(t, g)
  <2>1. UNCHANGED <<turn, exec>> BY <1>3 DEF CancelDeferred
  <2>2. CASE row'[c] = row[c]
    BY <2>1, <2>2, SameTurns, UntouchedKept
  <2>3. CASE row'[c] # row[c]
    <3>1. /\ Owner[c] = t /\ row[c].status = "deferred"
          /\ row'[c] = [row[c] EXCEPT !.status = "cancelled"]
      BY <1>1, <1>3, <2>3 DEF CancelDeferred
    <3>2. /\ row'[c].status = "cancelled"
          /\ row'[c].generation = row[c].generation
      BY <1>1, <3>1 DEF CallRow
    <3>3. QED BY <2>1, <3>1, <3>2, SameTurns, ClosedKept
  <2>4. QED BY <2>2, <2>3
<1>4. ASSUME NEW e \in CallsOf(t), NEW S \in SUBSET CallsOf(t),
             Defer(t, g, e, S)
      PROVE  Kept(c)
  <2>1. UNCHANGED <<turn, exec>> BY <1>4 DEF Defer
  <2>2. CASE row'[c] = row[c]
    BY <2>1, <2>2, SameTurns, UntouchedKept
  <2>3. CASE row'[c] # row[c]
    <3>1. /\ c \in S /\ row[c].status = "absent"
          /\ row'[c] = [NoRow EXCEPT !.status = "deferred", !.generation = g]
      BY <1>1, <1>4, <2>3 DEF Defer
    <3>2. row'[c].status = "deferred" /\ row'[c].generation = g
      BY <3>1 DEF NoRow
    <3>3. Owner[c] = t /\ ~Gone(Owner[c])
      BY <1>1, <1>4, <3>1 DEF Defer, Current, Active, Gone, CallsOf, CallsBy
    <3>4. exec[c][g].at # "replayed"
      BY <1>4, <3>1 DEF Defer, Idle, Closing
    <3>5. QED BY <2>1, <3>1, <3>2, <3>3, <3>4, SetAsideKept
  <2>4. QED BY <2>2, <2>3
<1>5. ASSUME NEW e \in Call, e # c, Typed, UNCHANGED turn,
             NEW allowed, NEW at, NEW result,
             Register(e, g, allowed), Goes(e, g, at, result)
      PROVE  Kept(c)
  <2>1. /\ row'[c] = row[c]
        /\ \A h \in Generation : exec'[c][h] = exec[c][h]
    BY <1>1, <1>5, ExecMoves DEF Register, Goes, Typed
  <2>2. QED BY <1>5, <2>1, SameTurns, UntouchedKept
<1>6. ASSUME NEW e \in CallsOf(t), Start(t, g, e)
      PROVE  Kept(c)
  <2>1. UNCHANGED turn /\ Admits(t, g, e) /\ e \in Call
    BY <1>1, <1>6 DEF Start
  <2>2. PICK allowed \in BOOLEAN, at \in {"registered", "finishing"},
             result \in {"none", "failed", "denied"} :
               Register(e, g, allowed) /\ Goes(e, g, at, result)
    BY <1>6 DEF Start
  <2>3. CASE e = c
    BY <2>1, <2>2, <2>3, RegisteredKept
  <2>4. CASE e # c
    BY <1>5, <2>1, <2>2, <2>4
  <2>5. QED BY <2>3, <2>4
<1>7. CASE StartAsking(t, g)
  <2> DEFINE e == pass[t][g].about
  <2>1. UNCHANGED turn BY <1>7 DEF StartAsking
  <2>2. CASE Admits(t, g, e)
    <3>1. e \in Call
      BY <1>1, <2>2 DEF Admits, Fresh, Suspended, Typed, Rows
    <3>2. Register(e, g, FALSE) /\ Goes(e, g, "finishing", "waiting")
      BY <1>7, <2>2 DEF StartAsking
    <3> HIDE DEF e
    <3>3. CASE e = c
      BY <2>1, <2>2, <3>2, <3>3, RegisteredKept
    <3>4. CASE e # c
      BY <1>5, <2>1, <3>1, <3>2, <3>4
    <3>5. QED BY <3>3, <3>4
  <2>3. CASE ~Admits(t, g, e)
    <3>1. UNCHANGED <<row, exec>> BY <1>7, <2>3 DEF StartAsking
    <3>2. QED BY <2>1, <3>1, SameTurns, UntouchedKept
  <2>4. QED BY <2>2, <2>3
<1>8. ASSUME NEW e \in CallsOf(t), ReplayCancelled(t, g, e)
      PROVE  Kept(c)
  <2>1. /\ UNCHANGED <<turn, row>> /\ row[e].status \in Closed
        /\ Owner[e] = t /\ e \in Call
        /\ exec'[e][g].at = "replayed"
        /\ \A d \in Call, h \in Generation :
             <<d, h>> # <<e, g>> => exec'[d][h] = exec[d][h]
    <3>1. /\ UNCHANGED <<turn, row>> /\ row[e].status \in Closed
          /\ Owner[e] = t /\ e \in Call
          /\ ExecIs(e, g, [at |-> "replayed", result |-> "cancelled"])
      BY <1>1, <1>8 DEF ReplayCancelled, Goes
    <3>2. QED BY <3>1, ExecMoves DEF Typed
  <2>2. CASE e # c
    BY <1>1, <2>1, <2>2, SameTurns, UntouchedKept
  <2>3. CASE e = c
    <3>1. exec[c][g].at \notin Open \cup Closing
      BY <1>8, <2>3 DEF ReplayCancelled, Idle
    <3>2. History(c)'
      BY <1>1, <2>1, <2>3, <3>1 DEF History, Follows, Rewrites, Repeats, Busy,
         Gone
    <3>3. Recorded(c)
      BY <2>1, <2>3 DEF Recorded
    <3>4. QED BY <3>2, <3>3 DEF Kept
  <2>4. QED BY <2>2, <2>3
<1>9. CASE Crash(t, g)
  <2>1. /\ UNCHANGED <<turn, row>>
        /\ exec'[c] = IF Owner[c] = t THEN [exec[c] EXCEPT ![g] = NoExec]
                                      ELSE exec[c]
    BY <1>1, <1>9 DEF Crash
  <2>2. losses' # losses
    BY <1>9 DEF Crash, Fault, Typed, Rows
  <2>3. CASE Owner[c] = t
    <3>1. /\ exec'[c][g].at = "idle"
          /\ \A h \in Generation : h # g => exec'[c][h] = exec[c][h]
      BY <1>1, <2>1, <2>3 DEF Typed, Rows, NoExec
    <3>2. QED BY <2>1, <2>2, <3>1, SameTurns, EndedKept
  <2>4. CASE Owner[c] # t
    BY <2>1, <2>4, SameTurns, UntouchedKept
  <2>5. QED BY <2>3, <2>4
<1>10. CASE Load(t, g) \/ StopPass(t, g) \/ WaitTurn(t, g) \/ FinishTurn(t, g)
  <2>1. UNCHANGED <<row, exec>>
    BY <1>10 DEF Load, StopPass, WaitTurn, FinishTurn
  <2>2. StaysGone
    BY <1>1, <1>10 DEF Load, StopPass, WaitTurn, FinishTurn, EndTurn,
       StaysGone, Gone
  <2>3. QED BY <2>1, <2>2, UntouchedKept
<1>11. QED
  BY <1>2, <1>3, <1>4, <1>6, <1>7, <1>8, <1>9, <1>10 DEF PassStep

(* The steps of a call: what another call does leaves this one alone.      *)
LEMMA CallStepRecords ==
  ASSUME Typed, NEW c \in Remote, History(c), RowGone(c),
         NEW g \in Generation, CallStep(c, g)
  PROVE  Kept(c)
<1>1. /\ row \in [Call -> CallRow] /\ c \in Call /\ Owner[c] \in Turn
  BY Bounds DEF Typed, Rows, Remote
<1>2. ASSUME NEW x, ExecIs(c, g, x)
      PROVE  /\ exec'[c][g] = x
             /\ \A h \in Generation : h # g => exec'[c][h] = exec[c][h]
  BY <1>1, <1>2, ExecMoves DEF Typed
<1>3. ASSUME Ends(c, g)
      PROVE  /\ exec'[c][g].at = "idle"
             /\ \A h \in Generation : h # g => exec'[c][h] = exec[c][h]
  BY <1>2, <1>3 DEF Ends, NoExec
<1>4. ASSUME NEW at, NEW result, Goes(c, g, at, result)
      PROVE  /\ exec'[c][g].at = at
             /\ \A h \in Generation : h # g => exec'[c][h] = exec[c][h]
  BY <1>2, <1>4 DEF Goes
<1>5. CASE MarkHandlerStarted(c, g)
  <2>1. exec[c][g].at = "registered" /\ UNCHANGED turn
    BY <1>5 DEF MarkHandlerStarted
  <2>2. CASE Admitted(c, g)
    <3>1. /\ row[c].status = "running"
          /\ row' = [row EXCEPT ![c].started = TRUE]
          /\ Goes(c, g, "handling", "none")
      BY <1>5, <2>2 DEF MarkHandlerStarted, Admitted
    <3>2. row'[c].status = "running" /\ row'[c].generation = row[c].generation
      BY <1>1, <3>1 DEF CallRow
    <3>3. \A h \in Generation : \/ exec'[c][h].at = exec[c][h].at
                                \/ Busy(c, h) /\ exec'[c][h].at = "handling"
      BY <1>4, <2>1, <3>1 DEF Busy
    <3>4. QED BY <2>1, <3>1, <3>2, <3>3, SameTurns, ClosedKept
  <2>3. CASE ~Admitted(c, g)
    <3>1. UNCHANGED row /\ Ends(c, g)
      BY <1>5, <2>3 DEF MarkHandlerStarted
    <3>2. QED BY <1>3, <2>1, <3>1, SameTurns, EndedKept
  <2>4. QED BY <2>2, <2>3
<1>6. CASE \E client \in Client : CreateClientAction(c, g, client)
  BY <1>6, SameTurns, UntouchedKept DEF CreateClientAction
<1>7. CASE \/ HandlerReturns(c, g) \/ HandlerRaises(c, g)
           \/ CancelExecution(c, g)
  <2>1. /\ UNCHANGED <<turn, row>> /\ Busy(c, g)
        /\ \E result : Goes(c, g, "finishing", result)
    BY <1>7 DEF HandlerReturns, HandlerRaises, CancelExecution, Busy
  <2>2. QED BY <1>4, <2>1, MovedKept
<1>8. CASE FinishRead(c, g)
  <2> DEFINE result == Reclassified(c, exec[c][g].result)
             replay == exec[c][g].at = "replayed"
  <2>1. /\ UNCHANGED <<turn, row>>
        /\ exec[c][g].at \in {"finishing", "replayed"}
    BY <1>8 DEF FinishRead
  <2>2. CASE \/ Current(Owner[c], g) /\ row[c].generation = g
             \/ RecordsLate(c, g, result) /\ result # row[c].status
    <3>1. /\ row[c].generation = g
          /\ \E at \in {"writing", "late", "rewriting"} :
               /\ Goes(c, g, at, result)
               /\ IF replay THEN at = "rewriting" ELSE at # "rewriting"
      BY <1>8, <2>2 DEF FinishRead, RecordsLate
    <3>2. exec[c][g].at = "finishing" => Busy(c, g)
      BY DEF Busy
    <3> HIDE DEF result
    <3>3. QED BY <1>4, <2>1, <3>1, <3>2, MovedKept
  <2>3. CASE /\ ~(Current(Owner[c], g) /\ row[c].generation = g)
             /\ ~(RecordsLate(c, g, result) /\ result # row[c].status)
    <3>1. Ends(c, g)
      BY <1>8, <2>3 DEF FinishRead
    <3>2. /\ row[c].started
          /\ exec[c][g].result \in {"completed", "failed"}
          /\ row[c].generation = g /\ row[c].status # "completed"
          => row[c].status = exec[c][g].result
      BY <2>3 DEF RecordsLate, Reclassified
    <3>3. QED BY <1>3, <2>1, <3>1, <3>2, SameTurns, EndedKept
  <2>4. QED BY <2>2, <2>3
<1>9. CASE FinishDeleted(c, g)
  <2>1. /\ UNCHANGED <<turn, row>> /\ Ends(c, g) /\ row[c].status = "absent"
    BY <1>9 DEF FinishDeleted
  <2>2. ~row[c].started BY <2>1 DEF History
  <2>3. QED BY <1>3, <2>1, <2>2, SameTurns, EndedKept
<1>10. CASE FinishWrite(c, g) \/ FinishLate(c, g)
  <2>1. /\ UNCHANGED turn /\ Ends(c, g)
        /\ exec[c][g].at \in {"writing", "late", "rewriting"}
    BY <1>10 DEF FinishWrite, FinishLate
  <2>2. CASE row[c].status = "absent"
    <3>1. UNCHANGED row /\ ~row[c].started
      BY <1>10, <2>2 DEF FinishWrite, FinishLate, History
    <3>2. QED BY <1>3, <2>1, <3>1, SameTurns, EndedKept
  <2>3. CASE row[c].status # "absent"
    <3>1. row' = [row EXCEPT ![c].status = exec[c][g].result]
      BY <1>10, <2>3 DEF FinishWrite, FinishLate
    <3>2. QED BY <1>3, <2>1, <2>3, <3>1, WrittenKept
  <2>4. QED BY <2>2, <2>3
<1>11. CASE LoseFinish(c, g)
  <2>1. UNCHANGED <<turn, row>> /\ Ends(c, g)
    BY <1>11 DEF LoseFinish
  <2>2. losses' # losses
    BY <1>1, <1>11 DEF LoseFinish, Fault, Typed, Rows
  <2>3. QED BY <1>3, <2>1, <2>2, SameTurns, EndedKept
<1>12. QED
  BY <1>5, <1>6, <1>7, <1>8, <1>9, <1>10, <1>11 DEF CallStep

(* The steps of the other calls, of the questions and of the recovery.     *)
LEMMA OtherStepsRecord ==
  ASSUME Typed, NEW c \in Remote, History(c)
  PROVE  /\ \A d \in Call \ {c} : \A g \in Generation :
              CallStep(d, g) => Kept(c)
         /\ \A t \in Turn : \A i \in DOMAIN question[t] :
              QuestionStep(t, i) => Kept(c)
         /\ \A d \in Call : RecoverTurn(d) \/ ExpireReceipt(d) => Kept(c)
         /\ UNCHANGED vars => Kept(c)
<1>1. /\ turn \in [Turn -> TurnRow] /\ row \in [Call -> CallRow]
      /\ c \in Call
  BY DEF Typed, Rows, Remote
<1>2. ASSUME NEW d \in Call \ {c}, NEW g \in Generation, CallStep(d, g)
      PROVE  Kept(c)
  <2>1. UNCHANGED turn
    BY <1>2 DEF CallStep, MarkHandlerStarted, CreateClientAction,
       HandlerReturns, HandlerRaises, CancelExecution, FinishRead,
       FinishDeleted, FinishWrite, FinishLate, LoseFinish
  <2>2. UNCHANGED exec \/ \E x : ExecIs(d, g, x)
    BY <1>2 DEF CallStep, MarkHandlerStarted, CreateClientAction,
       HandlerReturns, HandlerRaises, CancelExecution, FinishRead,
       FinishDeleted, FinishWrite, FinishLate, LoseFinish, Goes, Ends
  <2>3. \A h \in Generation : exec'[c][h] = exec[c][h]
    BY <1>1, <2>2, ExecMoves DEF Typed
  <2>4. \/ UNCHANGED row
        \/ row' = [row EXCEPT ![d].started = TRUE]
        \/ row' = [row EXCEPT ![d].status = exec[d][g].result]
    BY <1>2 DEF CallStep, MarkHandlerStarted, CreateClientAction,
       HandlerReturns, HandlerRaises, CancelExecution, FinishRead,
       FinishDeleted, FinishWrite, FinishLate, LoseFinish
  <2>5. row'[c] = row[c]
    BY <1>1, <2>4
  <2>6. QED BY <2>1, <2>3, <2>5, SameTurns, UntouchedKept
<1>3. ASSUME NEW t \in Turn, NEW i \in DOMAIN question[t], QuestionStep(t, i)
      PROVE  Kept(c)
  <2>1. ASSUME NEW status, Answer(t, i, status)
        PROVE  Kept(c)
    <3>1. UNCHANGED <<row, exec>> /\ Resume(t)
      BY <2>1 DEF Answer
    <3>2. ~Gone(t) /\ \A u \in Turn : u # t => turn'[u] = turn[u]
      BY <1>1, <3>1 DEF Resume, Gone
    <3>3. StaysGone BY <3>2 DEF StaysGone, Gone
    <3>4. QED BY <3>1, <3>3, UntouchedKept
  <2>2. CASE AnswerCancels(t, i)
    <3>1. /\ UNCHANGED <<row, exec>> /\ ~Gone(t)
          /\ turn' = turn \/ turn' = [turn EXCEPT ![t].cancel = TRUE]
      BY <2>2 DEF AnswerCancels, Gone
    <3>2. \A u \in Turn : u # t => turn'[u] = turn[u]
      BY <1>1, <3>1
    <3>3. StaysGone BY <3>1, <3>2 DEF StaysGone, Gone
    <3>4. QED BY <3>1, <3>3, UntouchedKept
  <2>3. CASE \/ \E client \in Client : Takeover(t, i, client)
             \/ ReadClientAction(t, i)
    <3>1. UNCHANGED <<turn, row, exec>>
      BY <2>3, Zenon DEF Takeover, ReadClientAction
    <3>2. QED BY <3>1, SameTurns, UntouchedKept
  <2>4. QED BY <1>3, <2>1, <2>2, <2>3 DEF QuestionStep
<1>4. ASSUME NEW d \in Call, RecoverTurn(d)
      PROVE  Kept(c)
  <2>1. d # c /\ UNCHANGED exec
    BY <1>4 DEF RecoverTurn, Remote
  <2>2. row'[c] = row[c]
    <3>1. row' = [row EXCEPT ![d].status = "waiting", ![d].recovered = TRUE]
      BY <1>4 DEF RecoverTurn
    <3>2. QED BY <1>1, <2>1, <3>1
  <2>3. StaysGone
    <3>1. Owner[d] \in Turn /\ ~Gone(Owner[d])
      BY <1>4, Bounds DEF RecoverTurn, Gone
    <3>2. \E s, n : turn' = [turn EXCEPT ![Owner[d]].status = s,
                                         ![Owner[d]].generation = n]
      BY <1>4 DEF RecoverTurn
    <3>3. \A u \in Turn : u # Owner[d] => turn'[u] = turn[u]
      BY <1>1, <3>1, <3>2
    <3>4. QED BY <3>1, <3>3 DEF StaysGone, Gone
  <2>4. QED BY <2>1, <2>2, <2>3, UntouchedKept
<1>5. ASSUME NEW d \in Call, ExpireReceipt(d)
      PROVE  Kept(c)
  BY <1>5, SameTurns, UntouchedKept DEF ExpireReceipt
<1>6. ASSUME UNCHANGED vars PROVE Kept(c)
  BY <1>6, SameTurns, UntouchedKept DEF vars
<1>7. QED BY <1>2, <1>3, <1>4, <1>5, <1>6

(* The steps together.                                                     *)
LEMMA StepRecords ==
  ASSUME Typed, Fence, NEW c \in Remote, History(c), [Next]_vars
  PROVE  Kept(c)
<1>1. c \in Call /\ RowGone(c)
  BY DEF Fence, Remote
<1>2. ASSUME NEW t \in Turn, NEW g \in 1 .. LastGeneration[t], PassStep(t, g)
      PROVE  Kept(c)
  BY <1>1, <1>2, Bounds, PassStepRecords
<1>3. ASSUME NEW d \in Call, NEW g \in 1 .. LastGeneration[Owner[d]],
             CallStep(d, g)
      PROVE  Kept(c)
  <2>1. g \in Generation BY Bounds
  <2>2. CASE d = c BY <1>1, <1>3, <2>1, <2>2, CallStepRecords
  <2>3. CASE d # c BY <1>3, <2>1, <2>3, OtherStepsRecord
  <2>4. QED BY <2>2, <2>3
<1>4. QED
  BY <1>2, <1>3, TurnStepRecords, OtherStepsRecord DEF Next

(* What a handler reported is what its call says, however late: an         *)
(* interrupt or the end of its turn may close the call first but does not  *)
(* keep the result out, and no later step replaces a completed outcome     *)
(* unless its Conversation goes or a repeat of its id is cancelled, for    *)
(* any number of Conversations, passes and generations.                    *)
THEOREM LateResultsKept == Spec => LateResultRecorded
<1> DEFINE Past == \A c \in Remote : History(c)
           Records == \A c \in Remote : Recorded(c)
<1>1. Init => Past
  BY DEF Init, NoRow, NoExec, Remote, History, Follows, Rewrites, Repeats,
     Busy
<1>2. Typed /\ Fence /\ Past /\ [Next]_vars => Past' /\ Records
  BY StepRecords DEF Kept
<1>3. Records =>
        \A c \in Call \ LocalCall, g \in Generation :
          /\ (/\ exec[c][g].at \in {"finishing", "writing", "late"}
              /\ exec[c][g].result \in {"completed", "failed"}
              /\ exec'[c][g].at = "idle" /\ losses' = losses
              /\ row[c].started /\ row[c].generation = g
              /\ row[c].status # "completed")
             => row'[c].status = exec[c][g].result
          /\ row[c].status = "completed" =>
               \/ row'[c].status \in {"completed", "absent"}
               \/ exec[c][g].at = "rewriting"
               \/ row[c].generation # g
  BY DEF Recorded, Remote
<1> HIDE DEF Past, Records
<1>4. QED
  BY <1>1, <1>2, <1>3, FenceHolds, PTL DEF Spec, LateResultRecorded
=============================================================================
