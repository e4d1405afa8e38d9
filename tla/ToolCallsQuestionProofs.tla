--------------------- MODULE ToolCallsQuestionProofs ----------------------
(* Proofs about tool calls: questions and the turns that wait for them,    *)
(* answers, and the approval of calls of unknown effect.                   *)
EXTENDS ToolCallsFenceProofs

(* A client's result that passed its check names a question of its turn,   *)
(* at the version it read or an earlier one, and the tab that version was  *)
(* bound to.                                                               *)
ReplyFits(t) ==
  LET r == reply[t] IN
  r # NoReply /\ ~Gone(t) =>
    /\ r.index \in DOMAIN question[t]
    /\ r.version <= question[t][r.index].version
    /\ r.version = question[t][r.index].version =>
         r.client = question[t][r.index].client

(* A pass that ends by asking has asked; a waiting turn has asked.         *)
AskingAsks(t) ==
  /\ turn[t].status = "running" /\ ~turn[t].cancel
  /\ pass[t][turn[t].generation].at = "asking"
  => Asked(t) # {}

Waits(t) == turn[t].status = "waiting" /\ ~turn[t].cancel => Asked(t) # {}

Talk(t) == ReplyFits(t) /\ AskingAsks(t) /\ Waits(t)

(* A step keeps the answered questions of a turn, and never brings back a  *)
(* deleted one.                                                            *)
AnswersStay(t) ==
  /\ Gone(t) => Gone(t)'
  /\ ~Gone(t)' => \A i \in DOMAIN question[t] \ Asked(t) :
       i \in DOMAIN question'[t] /\ question'[t][i] = question[t][i]

(* A step resumes a waiting turn by an answer to its question.             *)
Resumes(t) ==
  turn[t].status = "waiting" /\ turn'[t].status = "pending" =>
    \E i \in Asked(t) :
      /\ question'[t] # question[t]
      /\ question'[t][i].status \in {"resolved", "rejected"}
      /\ question[t][i].kind = "client_readiness" =>
           reply[t].client = question[t][i].client

Talks == \A t \in Turn : Talk(t)
TalksOn == \A t \in Turn : Talk(t)' /\ AnswersStay(t) /\ Resumes(t)

(* Steps that leave the turn and its questions alone.                      *)
LEMMA OtherTurn ==
  ASSUME NEW t \in Turn, Talk(t), Typed,
         turn'[t] = turn[t], question'[t] = question[t], reply'[t] = reply[t],
         \A h \in Generation :
           pass'[t][h].at = "asking" => pass[t][h].at = "asking"
  PROVE  Talk(t)' /\ AnswersStay(t) /\ Resumes(t)
<1>1. turn[t].generation \in Generation BY Numbers DEF Typed
<1>2. Asked(t)' = Asked(t) BY DEF Asked
<1>3. Talk(t)' BY <1>1, <1>2 DEF Talk, ReplyFits, AskingAsks, Waits, Gone
<1>4. AnswersStay(t) /\ Resumes(t) BY DEF AnswersStay, Resumes, Gone
<1>5. QED BY <1>3, <1>4

LEMMA Silent ==
  ASSUME Typed, Talks, UNCHANGED <<turn, question, reply>>,
         \A t \in Turn, h \in Generation :
           pass'[t][h].at = "asking" => pass[t][h].at = "asking"
  PROVE  TalksOn
BY OtherTurn DEF Talks, TalksOn

LEMMA SilentPass ==
  ASSUME Typed, Talks, UNCHANGED <<turn, question, reply>>,
         NEW t \in Turn, NEW g \in Generation, NEW p, PassIs(t, g, p),
         p.at # "asking"
  PROVE  TalksOn
<1>1. \A u \in Turn, h \in Generation :
        pass'[u][h].at = "asking" => pass[u][h].at = "asking"
  BY PassMoves DEF Typed
<1>2. QED BY <1>1, Silent

(* A step of one turn leaves the others alone.                             *)
LEMMA OneTurn ==
  ASSUME Typed, Talks, NEW t \in Turn,
         \A u \in Turn \ {t} :
           /\ turn'[u] = turn[u] /\ question'[u] = question[u]
           /\ reply'[u] = reply[u]
           /\ \A h \in Generation :
                pass'[u][h].at = "asking" => pass[u][h].at = "asking",
         Talk(t)', AnswersStay(t), Resumes(t)
  PROVE  TalksOn
BY OtherTurn DEF Talks, TalksOn

(* Steps that move a turn and no question.                                 *)
LEMMA ClaimTalk ==
  ASSUME Typed, Talks, NEW t \in Turn, Claim(t)
  PROVE  TalksOn
<1>1. turn[t].generation \in Generation BY Numbers DEF Typed
<1>2. /\ UNCHANGED <<question, reply>>
      /\ turn[t].status = "pending" /\ turn'[t].status = "running"
      /\ turn'[t].generation = turn[t].generation
      /\ \A u \in Turn : u # t => turn'[u] = turn[u]
  BY DEF Claim, Typed, Rows, TurnRow
<1>3. /\ pass'[t][turn[t].generation].at # "asking"
      /\ \A u \in Turn, h \in Generation :
           <<u, h>> # <<t, turn[t].generation>> => pass'[u][h] = pass[u][h]
  <2>1. PassIs(t, turn[t].generation,
          [pass[t][turn[t].generation] EXCEPT !.at =
             IF turn[t].generation = 1 THEN "live" ELSE "claimed"])
    BY DEF Claim, PassAt
  <2>2. pass[t][turn[t].generation] \in PassRow
    BY <1>1, PassRows DEF Typed
  <2>3. QED BY <1>1, <2>1, <2>2, PassMoves DEF Typed, PassRow
<1>4. Talk(t) BY DEF Talks
<1>5. Talk(t)'
  BY <1>2, <1>3, <1>4 DEF Talk, ReplyFits, AskingAsks, Waits, Gone
<1>6. AnswersStay(t) /\ Resumes(t)
  BY <1>2 DEF AnswersStay, Resumes, Gone
<1>7. QED BY <1>2, <1>3, <1>5, <1>6, OneTurn

LEMMA TurnMoveTalk ==
  ASSUME Typed, Talks, NEW t \in Turn, UNCHANGED <<question, reply>>,
         \A u \in Turn \ {t} : turn'[u] = turn[u],
         \A u \in Turn, h \in Generation :
           pass'[u][h].at = "asking" => pass[u][h].at = "asking",
         turn[t].status # "deleted", turn'[t].status # "deleted",
         turn[t].status = "waiting" => turn'[t].status # "pending",
         turn'[t].status = "running" =>
           turn'[t].cancel \/ turn'[t] = turn[t],
         turn'[t].status = "waiting" => turn'[t].cancel \/ Asked(t) # {}
  PROVE  TalksOn
<1>1. Talk(t) /\ turn[t].generation \in Generation
  BY Numbers DEF Talks, Typed
<1>2. Asked(t)' = Asked(t) BY DEF Asked
<1>3. Talk(t)'
  BY <1>1, <1>2 DEF Talk, ReplyFits, AskingAsks, Waits, Gone
<1>4. AnswersStay(t) /\ Resumes(t)
  BY DEF AnswersStay, Resumes, Gone
<1>5. QED BY <1>3, <1>4, OneTurn

LEMMA CancelTurnTalk ==
  ASSUME Typed, Talks, NEW t \in Turn, CancelTurn(t)
  PROVE  TalksOn
<1>1. /\ UNCHANGED <<pass, question, reply>>
      /\ \A u \in Turn \ {t} : turn'[u] = turn[u]
      /\ turn[t].status \in Active
      /\ turn'[t].status = turn[t].status /\ turn'[t].cancel
  BY DEF CancelTurn, Typed, Rows, TurnRow
<1>2. QED BY <1>1, TurnMoveTalk DEF Active

LEMMA CloseTurnTalk ==
  ASSUME Typed, Talks, NEW t \in Turn, CloseTurn(t)
  PROVE  TalksOn
<1>1. /\ UNCHANGED <<pass, question, reply>>
      /\ \A u \in Turn \ {t} : turn'[u] = turn[u]
      /\ turn[t].status # "deleted" /\ turn'[t].status = "closed"
  BY DEF CloseTurn, EndTurn, Typed, Rows, TurnRow
<1>2. QED BY <1>1, TurnMoveTalk

LEMMA InterruptTalk ==
  ASSUME Typed, Talks, NEW t \in Turn, Interrupt(t)
  PROVE  TalksOn
<1>1. /\ UNCHANGED <<pass, question, reply>>
      /\ \A u \in Turn \ {t} : turn'[u] = turn[u]
      /\ turn[t].status \in Active
      /\ turn'[t].status = turn[t].status /\ turn'[t].cancel
  BY DEF Interrupt, Typed, Rows, TurnRow
<1>2. QED BY <1>1, TurnMoveTalk DEF Active

LEMMA RecoverTurnTalk ==
  ASSUME Typed, Talks, NEW c \in Call, RecoverTurn(c)
  PROVE  TalksOn
<1> DEFINE t == Owner[c]
<1>1. t \in Turn BY Bounds
<1>2. \E n : \E s \in {"pending", "waiting"} :
        /\ turn' = [turn EXCEPT ![t].status = s, ![t].generation = n]
        /\ s = "waiting" => Asked(t) # {}
  BY DEF RecoverTurn
<1>3. /\ UNCHANGED <<pass, question, reply>>
      /\ turn[t].status \in {"pending", "running"}
  BY DEF RecoverTurn
<1>4. /\ \A u \in Turn \ {t} : turn'[u] = turn[u]
      /\ turn'[t].status \in {"pending", "waiting"}
      /\ turn'[t].status = "waiting" => Asked(t) # {}
  BY <1>1, <1>2 DEF Typed, Rows, TurnRow
<1>5. QED BY <1>1, <1>3, <1>4, TurnMoveTalk

(* The end of a pass: it waits only if it asked.                           *)
LEMMA WaitTurnTalk ==
  ASSUME Typed, Talks, NEW t \in Turn, NEW g \in Generation, WaitTurn(t, g)
  PROVE  TalksOn
<1>1. /\ UNCHANGED <<question, reply>> /\ PassIs(t, g, NoPass)
      /\ pass[t][g].at = "asking"
  BY DEF WaitTurn, EndPass
<1>2. CASE UNCHANGED turn
  BY <1>1, <1>2, SilentPass DEF NoPass
<1>3. CASE turn' # turn
  <2>1. /\ turn[t].status = "running" /\ turn[t].generation = g
        /\ turn' = [turn EXCEPT ![t].status = "waiting"]
    BY <1>3 DEF WaitTurn
  <2>2. /\ turn'[t].status = "waiting" /\ turn'[t].cancel = turn[t].cancel
        /\ \A u \in Turn \ {t} : turn'[u] = turn[u]
    BY <2>1 DEF Typed, Rows, TurnRow
  <2>3. turn[t].cancel \/ Asked(t) # {}
    BY <1>1, <2>1 DEF Talks, Talk, AskingAsks
  <2>4. \A u \in Turn, h \in Generation :
          pass'[u][h].at = "asking" => pass[u][h].at = "asking"
    BY <1>1, PassMoves DEF Typed
  <2>5. QED BY <1>1, <2>1, <2>2, <2>3, <2>4, TurnMoveTalk
<1>4. QED BY <1>2, <1>3

LEMMA FinishTurnTalk ==
  ASSUME Typed, Talks, NEW t \in Turn, NEW g \in Generation, FinishTurn(t, g)
  PROVE  TalksOn
<1>1. UNCHANGED <<question, reply>> /\ PassIs(t, g, NoPass)
  BY DEF FinishTurn, EndPass
<1>2. CASE UNCHANGED turn
  BY <1>1, <1>2, SilentPass DEF NoPass
<1>3. CASE turn' # turn
  <2>1. turn[t].status = "running" /\ EndTurn(t)
    BY <1>3 DEF FinishTurn
  <2>2. /\ turn'[t].status = "closed"
        /\ \A u \in Turn \ {t} : turn'[u] = turn[u]
    BY <2>1 DEF EndTurn, Typed, Rows, TurnRow
  <2>3. \A u \in Turn, h \in Generation :
          pass'[u][h].at = "asking" => pass[u][h].at = "asking"
    BY <1>1, PassMoves DEF Typed, NoPass
  <2>4. QED BY <1>1, <2>1, <2>2, <2>3, TurnMoveTalk
<1>4. QED BY <1>2, <1>3

(* A new question.                                                         *)
LEMMA AskTalk ==
  ASSUME Typed, Talks, NEW c \in Call,
         NEW kind \in {"approval", "connection", "client_readiness",
                       "fact_confirmation"},
         NEW client \in Client \cup {None}, Ask(c, kind, client),
         UNCHANGED <<turn, reply>>,
         \A u \in Turn \ {Owner[c]}, h \in Generation :
           pass'[u][h].at = "asking" => pass[u][h].at = "asking"
  PROVE  TalksOn
<1> DEFINE t == Owner[c]
           n == Len(question[t]) + 1
<1>1. t \in Turn /\ question[t] \in Seq(Question) /\ reply[t] \in Reply
  BY Bounds DEF Typed, Rows
<1>2. /\ DOMAIN question'[t] = DOMAIN question[t] \cup {n}
      /\ question'[t][n].status = "pending"
      /\ \A j \in DOMAIN question[t] : question'[t][j] = question[t][j]
      /\ \A u \in Turn : u # t => question'[u] = question[u]
  <2>1. Rows BY DEF Typed
  <2>2. /\ DOMAIN question'[t] = DOMAIN question[t] \cup {n}
        /\ question'[t][n] = [call |-> c, kind |-> kind, status |-> "pending",
                              client |-> client, version |-> 1]
        /\ \A j \in DOMAIN question[t] : question'[t][j] = question[t][j]
        /\ \A u \in Turn : u # t => question'[u] = question[u]
    BY <2>1, QAsks
  <2>3. QED BY <2>2
<1>3. Asked(t)' # {} /\ Talk(t)
  BY <1>1, <1>2 DEF Asked, Talks
<1>4. Talk(t)'
  BY <1>2, <1>3 DEF Talk, ReplyFits, AskingAsks, Waits, Gone
<1>5. AnswersStay(t)
  BY <1>2 DEF AnswersStay, Gone, Asked
<1>6. Resumes(t)
  BY DEF Resumes
<1>7. QED BY <1>1, <1>2, <1>4, <1>5, <1>6, OneTurn

LEMMA FinishWriteTalk ==
  ASSUME Typed, Talks, NEW c \in Call, NEW g \in Generation,
         FinishWrite(c, g)
  PROVE  TalksOn
<1> DEFINE t == Owner[c]
<1>1. t \in Turn /\ UNCHANGED <<turn, reply>>
  BY Bounds DEF FinishWrite
<1>2. UNCHANGED pass \/ PassIs(t, g, [pass[t][g] EXCEPT !.at = "asking"])
  BY DEF FinishWrite, PassAt
<1>3. CASE \E kind \in AskKind(c) : Ask(c, kind, None)
  <2>1. \A u \in Turn \ {t}, h \in Generation :
          pass'[u][h].at = "asking" => pass[u][h].at = "asking"
    BY <1>1, <1>2, PassMoves DEF Typed
  <2>2. \A kind \in AskKind(c) :
          kind \in {"approval", "connection", "client_readiness",
                    "fact_confirmation"}
    BY DEF AskKind
  <2>3. QED BY <1>1, <1>3, <2>1, <2>2, AskTalk
<1>4. CASE UNCHANGED <<question, pass>>
  BY <1>1, <1>4, Silent
<1>5. CASE UNCHANGED question /\ Asked(t) # {}
  <2>1. \A u \in Turn, h \in Generation :
          <<u, h>> # <<t, g>> => pass'[u][h] = pass[u][h]
    BY <1>1, <1>2, PassMoves DEF Typed
  <2>2. Asked(t)' # {}
    BY <1>5 DEF Asked
  <2>3. Talk(t)' /\ AnswersStay(t) /\ Resumes(t)
    BY <1>1, <1>5, <2>2 DEF Talks, Talk, ReplyFits, AskingAsks, Waits, Gone,
       AnswersStay, Resumes
  <2>4. QED BY <1>1, <1>5, <2>1, <2>3, OneTurn
<1>6. \/ \E kind \in AskKind(c) : Ask(c, kind, None)
      \/ UNCHANGED <<question, pass>>
      \/ UNCHANGED question /\ Asked(t) # {}
  BY DEF FinishWrite
<1>7. QED BY <1>3, <1>4, <1>5, <1>6

(* An answer: it closes the pending question, and resumes the turn only    *)
(* as a positive or negative one, from the tab the question is bound to.   *)
LEMMA ResolveTalk ==
  ASSUME Typed, Talks, NEW t \in Turn, NEW i \in DOMAIN question[t],
         NEW status \in {"resolved", "rejected", "cancelled"},
         Resolve(t, i, status),
         UNCHANGED pass, reply'[t] \in {reply[t], NoReply},
         \A u \in Turn \ {t} : turn'[u] = turn[u] /\ reply'[u] = reply[u],
         ~Gone(t), turn'[t].status # "deleted",
         turn'[t].status \in {"running", "waiting"} => turn'[t].cancel,
         turn[t].status = "waiting" /\ turn'[t].status = "pending" =>
           /\ status # "cancelled"
           /\ question[t][i].kind = "client_readiness" =>
                reply[t].client = question[t][i].client
  PROVE  TalksOn
<1>1. /\ question[t][i] \in Question /\ i \in Asked(t)
      /\ [question[t][i] EXCEPT !.status = status] \in Question
      /\ Revise(t, i, [question[t][i] EXCEPT !.status = status])
      /\ question[t] \in Seq(Question)
  BY QuestionRows DEF Resolve, Typed, Asked, Rows
<1>2. /\ DOMAIN question'[t] = DOMAIN question[t]
      /\ question'[t][i] = [question[t][i] EXCEPT !.status = status]
      /\ \A j \in DOMAIN question[t] :
           j # i => question'[t][j] = question[t][j]
      /\ \A u \in Turn : u # t => question'[u] = question[u]
  BY <1>1, QMoves DEF Typed
<1>3. /\ question'[t][i].status = status
      /\ question'[t][i].version = question[t][i].version
      /\ question'[t][i].client = question[t][i].client
      /\ question[t][i].status = "pending"
  BY <1>1, <1>2 DEF Question, Resolve
<1>4. \A j \in DOMAIN question[t] :
        /\ question'[t][j].version = question[t][j].version
        /\ question'[t][j].client = question[t][j].client
  BY <1>2, <1>3
<1>5. ReplyFits(t)'
  BY <1>2, <1>4 DEF Talks, Talk, ReplyFits, Gone
<1>6. AskingAsks(t)' /\ Waits(t)'
  BY DEF AskingAsks, Waits
<1>7. AnswersStay(t)
  BY <1>1, <1>2 DEF AnswersStay
<1>8. Resumes(t)
  BY <1>1, <1>3 DEF Resumes
<1>9. QED BY <1>2, <1>5, <1>6, <1>7, <1>8, OneTurn DEF Talk

LEMMA ResumeTurn ==
  ASSUME Typed, NEW t \in Turn, Resume(t)
  PROVE  /\ turn[t].status = "waiting" /\ turn'[t].status = "pending"
         /\ \A u \in Turn \ {t} : turn'[u] = turn[u]
BY DEF Resume, Typed, Rows, TurnRow

LEMMA QuestionStepTalk ==
  ASSUME Typed, Talks, NEW t \in Turn, NEW i \in DOMAIN question[t],
         QuestionStep(t, i)
  PROVE  TalksOn
<1>1. ASSUME NEW status \in {"resolved", "rejected"}, Answer(t, i, status)
      PROVE  TalksOn
  <2>1. /\ Resume(t) /\ Resolve(t, i, status) /\ UNCHANGED <<pass, reply>>
        /\ question[t][i].kind # "client_readiness"
    BY <1>1 DEF Answer
  <2>2. QED BY <2>1, ResumeTurn, ResolveTalk DEF Gone
<1>2. CASE AnswerCancels(t, i)
  <2>1. /\ \A u \in Turn \ {t} : turn'[u] = turn[u]
        /\ turn'[t].status = turn[t].status
        /\ turn[t].status \in Active => turn'[t].cancel
        /\ turn[t].status # "deleted"
    BY <1>2 DEF AnswerCancels, Typed, Rows, TurnRow
  <2>2. Resolve(t, i, "cancelled") /\ UNCHANGED <<pass, reply>>
    BY <1>2 DEF AnswerCancels
  <2>3. QED BY <2>1, <2>2, ResolveTalk DEF Gone, Active
<1>3. ASSUME NEW client \in Client, Takeover(t, i, client)
      PROVE  TalksOn
  <2> DEFINE q == [question[t][i] EXCEPT !.client = client,
                     !.version = question[t][i].version + 1]
  <2>1. /\ question[t][i] \in Question /\ Revise(t, i, q)
        /\ UNCHANGED <<turn, pass, reply>>
        /\ question[t][i].status = "pending"
        /\ question[t][i].version <= MaxTakeovers
        /\ reply[t] \in Reply /\ question[t] \in Seq(Question)
    BY <1>3, QuestionRows DEF Takeover, Typed, Rows
  <2>2. /\ q \in Question /\ q.status = "pending"
        /\ q.version = question[t][i].version + 1
    <3>1. question[t][i].version + 1 \in 1 .. MaxTakeovers + 1
      <4>1. MaxTakeovers \in Nat BY ConstantsOK
      <4>2. QED BY <2>1, <4>1 DEF Question
    <3>2. QED BY <2>1, <3>1 DEF Question
  <2> HIDE DEF q
  <2>3. /\ DOMAIN question'[t] = DOMAIN question[t]
        /\ question'[t][i] = q
        /\ \A j \in DOMAIN question[t] :
             j # i => question'[t][j] = question[t][j]
        /\ \A u \in Turn : u # t => question'[u] = question[u]
    BY <2>1, <2>2, QMoves DEF Typed
  <2>4. Asked(t)' = Asked(t) /\ i \in Asked(t)
    BY <2>1, <2>2, <2>3 DEF Asked
  <2>5. ReplyFits(t)'
    <3>1. CASE reply[t].index = i
      <4>1. reply[t].version \in Int /\ question[t][i].version \in Int
        <5>1. MaxTakeovers \in Nat BY ConstantsOK
        <5>2. QED BY <2>1, <5>1 DEF Reply, Question
      <4>2. question'[t][i].version = question[t][i].version + 1
        BY <2>2, <2>3
      <4>3. ~Gone(t) => reply[t] = NoReply \/
                        reply[t].version <= question[t][i].version
        BY <3>1 DEF Talks, Talk, ReplyFits
      <4>4. /\ UNCHANGED <<reply, turn>>
            /\ DOMAIN question'[t] = DOMAIN question[t]
        BY <2>1, <2>3
      <4>5. QED
        BY <3>1, <4>1, <4>2, <4>3, <4>4 DEF ReplyFits, Gone
    <3>2. CASE reply[t].index # i
      BY <2>1, <2>3, <3>2 DEF Talks, Talk, ReplyFits, Gone
    <3>3. QED BY <3>1, <3>2
  <2>6. Talk(t)'
    BY <2>1, <2>4, <2>5 DEF Talks, Talk, AskingAsks, Waits
  <2>7. AnswersStay(t) /\ Resumes(t)
    BY <2>1, <2>3, <2>4 DEF AnswersStay, Resumes, Gone
  <2>8. QED BY <2>1, <2>3, <2>6, <2>7, OneTurn
<1>4. CASE ReadClientAction(t, i)
  <2>1. /\ UNCHANGED <<turn, pass, question>>
        /\ question[t][i] \in Question
        /\ reply'[t] = [index |-> i, client |-> question[t][i].client,
                        version |-> question[t][i].version]
        /\ \A u \in Turn \ {t} : reply'[u] = reply[u]
    BY <1>4, QuestionRows DEF ReadClientAction, Typed, Rows
  <2>2. question[t][i].version \in Int
    BY <2>1, ConstantsOK DEF Question
  <2>3. Talk(t)'
    BY <2>1, <2>2 DEF Talks, Talk, ReplyFits, AskingAsks, Waits, Asked
  <2>4. AnswersStay(t) /\ Resumes(t)
    BY <2>1 DEF AnswersStay, Resumes, Gone
  <2>5. QED BY <2>1, <2>3, <2>4, OneTurn
<1>5. QED BY <1>1, <1>2, <1>3, <1>4 DEF QuestionStep

(* The result of a client action, checked before and written after other   *)
(* tabs may have moved it.                                                 *)
LEMMA ResolveClientActionTalk ==
  ASSUME Typed, Talks, NEW t \in Turn, ResolveClientAction(t)
  PROVE  TalksOn
<1>1. /\ reply[t] # NoReply /\ UNCHANGED pass
      /\ reply'[t] = NoReply /\ \A u \in Turn \ {t} : reply'[u] = reply[u]
  BY DEF ResolveClientAction, Typed, Rows
<1>2. CASE UNCHANGED <<question, turn>>
  <2>1. Talk(t)'
    BY <1>1, <1>2 DEF Talks, Talk, ReplyFits, AskingAsks, Waits, Asked
  <2>2. AnswersStay(t) /\ Resumes(t)
    BY <1>2 DEF AnswersStay, Resumes, Gone
  <2>3. QED BY <1>1, <1>2, <2>1, <2>2, OneTurn
<1>3. CASE ~UNCHANGED <<question, turn>>
  <2>1. /\ reply[t].index \in DOMAIN question[t] /\ Unmoved(t)
        /\ Resolve(t, reply[t].index, "resolved") /\ Resume(t)
    BY <1>3 DEF ResolveClientAction
  <2>2. reply[t].client = question[t][reply[t].index].client
    <3>1. ~Gone(t) /\ Talk(t)
      BY <2>1 DEF Resume, Gone, Talks
    <3>2. QED BY <1>1, <2>1, <3>1 DEF Talk, ReplyFits, Unmoved
  <2>3. QED BY <1>1, <2>1, <2>2, ResumeTurn, ResolveTalk DEF Gone
<1>4. QED BY <1>2, <1>3

LEMMA DeleteTalk ==
  ASSUME Typed, Talks, NEW t \in Turn, DeleteConversation(t)
  PROVE  TalksOn
<1>1. /\ UNCHANGED <<pass, reply>>
      /\ \A u \in Turn \ {t} : question'[u] = question[u]
      /\ \A u \in Turn \ {t} : turn'[u] = turn[u]
      /\ turn'[t].status = "deleted"
  BY DEF DeleteConversation, NewTurn, Typed, Rows
<1>2. Talk(t)' /\ AnswersStay(t) /\ Resumes(t)
  BY <1>1 DEF Talk, ReplyFits, AskingAsks, Waits, AnswersStay, Resumes, Gone
<1>3. QED BY <1>1, <1>2, OneTurn

(* The actions together.                                                   *)
LEMMA PassStepTalk ==
  ASSUME Typed, Talks, NEW t \in Turn, NEW g \in Generation, PassStep(t, g)
  PROVE  TalksOn
<1>1. pass[t][g] \in PassRow BY PassRows DEF Typed
<1>2. CASE Load(t, g)
  <2>1. UNCHANGED <<turn, question, reply>>
    BY <1>2 DEF Load
  <2>2. \A q : Resumed(t, q).at # "asking"
    BY DEF Resumed
  <2>3. QED BY <1>2, <2>1, <2>2, SilentPass DEF Load
<1>3. CASE RejectWaiting(t, g) \/ CancelDeferred(t, g) \/ StopPass(t, g)
  BY <1>1, <1>3, SilentPass DEF RejectWaiting, CancelDeferred, StopPass,
     PassAt, PassRow, NoPass
<1>4. ASSUME NEW c \in CallsOf(t), NEW S \in SUBSET CallsOf(t),
             Defer(t, g, c, S)
      PROVE  TalksOn
  BY <1>4, SilentPass DEF Defer
<1>5. ASSUME NEW c \in CallsOf(t), Start(t, g, c)
      PROVE  TalksOn
  BY <1>5, Silent DEF Start
<1>6. ASSUME NEW c \in CallsOf(t), ReplayCancelled(t, g, c)
      PROVE  TalksOn
  BY <1>1, <1>6, SilentPass DEF ReplayCancelled, PassAt, PassRow
<1>7. CASE StartAsking(t, g) \/ Crash(t, g)
  BY <1>1, <1>7, SilentPass DEF StartAsking, Crash, EndPass, NoPass, PassRow
<1>8. QED
  BY <1>2, <1>3, <1>4, <1>5, <1>6, <1>7, WaitTurnTalk, FinishTurnTalk
  DEF PassStep

LEMMA CallStepTalk ==
  ASSUME Typed, Talks, NEW c \in Call, NEW g \in Generation, CallStep(c, g)
  PROVE  TalksOn
<1>1. CASE \/ MarkHandlerStarted(c, g)
           \/ HandlerReturns(c, g) \/ HandlerRaises(c, g)
           \/ CancelExecution(c, g) \/ FinishRead(c, g)
           \/ FinishDeleted(c, g) \/ FinishLate(c, g) \/ LoseFinish(c, g)
  <2>1. UNCHANGED <<turn, pass, question, reply>>
    BY <1>1 DEF MarkHandlerStarted, HandlerReturns, HandlerRaises,
       CancelExecution, FinishRead, FinishDeleted, FinishLate, LoseFinish
  <2>2. QED BY <2>1, Silent
<1>2. ASSUME NEW client \in Client, CreateClientAction(c, g, client)
      PROVE  TalksOn
  BY <1>2, AskTalk DEF CreateClientAction
<1>3. QED BY <1>1, <1>2, FinishWriteTalk DEF CallStep

LEMMA TalksStep ==
  ASSUME Typed, Talks, Next
  PROVE  TalksOn
<1>1. ASSUME NEW t \in Turn, NEW g \in 1 .. LastGeneration[t], PassStep(t, g)
      PROVE  TalksOn
  BY <1>1, Bounds, PassStepTalk
<1>2. ASSUME NEW c \in Call, NEW g \in 1 .. LastGeneration[Owner[c]],
             CallStep(c, g)
      PROVE  TalksOn
  BY <1>2, Bounds, CallStepTalk
<1>3. ASSUME NEW t \in Turn, TurnStep(t)
      PROVE  TalksOn
  BY <1>3, ClaimTalk, CancelTurnTalk, CloseTurnTalk, InterruptTalk,
     ResolveClientActionTalk, DeleteTalk DEF TurnStep
<1>4. ASSUME NEW c \in Call, ExpireReceipt(c)
      PROVE  TalksOn
  BY <1>4, Silent DEF ExpireReceipt
<1>5. QED
  BY <1>1, <1>2, <1>3, <1>4, QuestionStepTalk, RecoverTurnTalk DEF Next

LEMMA TalksInit == Init => Talks
<1>1. ASSUME Init, NEW t \in Turn PROVE Talk(t)
  <2>1. reply[t] = NoReply /\ turn[t].status \in {"pending", "closed"}
    BY <1>1 DEF Init, NewTurn
  <2>2. QED BY <2>1 DEF Talk, ReplyFits, AskingAsks, Waits
<1>2. QED BY <1>1 DEF Talks

(* Replies and questions fit each other in every reachable state.          *)
THEOREM TalksHold == Spec => [](Typed /\ Talks)
<1>1. Init => Typed /\ Talks BY InitTyped, TalksInit
<1>2. Typed /\ Talks /\ [Next]_vars => (Typed /\ Talks)'
  <2>1. SUFFICES ASSUME Typed, Talks, [Next]_vars PROVE Typed' /\ Talks'
    OBVIOUS
  <2>2. CASE Next
    BY <2>1, <2>2, TypedStep, TalksStep DEF TalksOn, Talks
  <2>3. CASE UNCHANGED vars
    BY <2>1, <2>3, TypedStep, Silent DEF vars, TalksOn, Talks
  <2>4. QED BY <2>1, <2>2, <2>3
<1>3. QED BY <1>1, <1>2, PTL DEF Spec

(* A waiting turn has a pending question, unless it was cancelled.         *)
THEOREM WaitingAsks == Spec => []WaitingHasQuestion
<1>1. Talks => WaitingHasQuestion
  BY DEF Talks, Talk, Waits, WaitingHasQuestion
<1>2. QED BY <1>1, TalksHold, PTL

(* A waiting turn goes on by exactly one answer to its pending question,   *)
(* given by the tab it is bound to; answered questions never change.       *)
THEOREM OneAnswer == Spec => OneAnswerResumes
<1> DEFINE A == \A t \in Turn :
       /\ turn[t].status = "waiting" /\ turn'[t].status = "pending" =>
            \E i \in Asked(t) :
              /\ question'[t] # question[t]
              /\ question'[t][i].status \in {"resolved", "rejected"}
              /\ question[t][i].kind = "client_readiness" =>
                   reply[t].client = question[t][i].client
       /\ \A i \in DOMAIN question[t] \ Asked(t) :
            turn'[t].status # "deleted" => question'[t][i] = question[t][i]
<1>1. ASSUME Typed /\ Talks, [Next]_vars PROVE [A]_vars
  <2>1. CASE Next
    BY <1>1, <2>1, TalksStep DEF TalksOn, AnswersStay, Resumes, Gone
  <2>2. CASE UNCHANGED vars
    BY <2>2
  <2>3. QED BY <1>1, <2>1, <2>2
<1>2. QED BY <1>1, TalksHold, PTL DEF Spec, OneAnswerResumes

-----------------------------------------------------------------------------

(* The user approved this very call, or its Conversation is gone.          *)
Granted(c) ==
  LET t == Owner[c] IN
  \/ Gone(t)
  \/ \E i \in DOMAIN question[t] :
       /\ question[t][i].call = c
       /\ question[t][i].kind = "approval"
       /\ question[t][i].status = "resolved"

(* The handler of c was let through; the pass holds an approval of c.      *)
Ready(c, g) == exec[c][g].at \in {"registered", "handling"}

Named(c, g) ==
  LET p == pass[Owner[c]][g] IN p.at = "live" /\ p.about = c

Strange == {c \in Call : Effect[c] = "unknown"}

(* A pass that is not there holds no approval.                             *)
Silence(t) ==
  \A g \in Generation : pass[t][g].at = "none" => pass[t][g].about = None

Consent ==
  /\ \A t \in Turn : Silence(t)
  /\ \A c \in Strange, g \in Generation :
       Ready(c, g) \/ Named(c, g) => Granted(c)

(* An approval stays.                                                      *)
LEMMA GrantsStay ==
  ASSUME NEW c \in Call, Granted(c), AnswersStay(Owner[c])
  PROVE  Granted(c)'
BY DEF Granted, AnswersStay, Asked, Gone

(* A step that lets no call through and brings no approval that was not    *)
(* given.                                                                  *)
LEMMA NothingNew ==
  ASSUME Typed, Consent, \A t \in Turn : AnswersStay(t),
         \A t \in Turn : Silence(t)',
         \A c \in Strange, g \in Generation :
           Ready(c, g)' \/ Named(c, g)' =>
             Ready(c, g) \/ Named(c, g) \/ Granted(c)
  PROVE  Consent'
<1>1. ASSUME NEW c \in Strange, NEW g \in Generation,
             Ready(c, g)' \/ Named(c, g)'
      PROVE  Granted(c)'
  <2>1. Granted(c) /\ c \in Call /\ Owner[c] \in Turn
    BY <1>1, Bounds DEF Consent, Strange
  <2>2. QED BY <2>1, GrantsStay
<1>2. QED BY <1>1 DEF Consent

LEMMA SamePasses ==
  ASSUME Typed, Consent, \A t \in Turn : AnswersStay(t), UNCHANGED pass,
         \A c \in Strange, g \in Generation :
           Ready(c, g)' => Ready(c, g) \/ Granted(c)
  PROVE  Consent'
<1>1. \A t \in Turn : Silence(t)' BY DEF Consent, Silence
<1>2. \A c \in Strange, g \in Generation : Named(c, g)' => Named(c, g)
  BY DEF Named
<1>3. QED BY <1>1, <1>2, NothingNew

(* A step of one pass; a step of one execution.                            *)
LEMMA OnePass ==
  ASSUME Typed, Consent, \A t \in Turn : AnswersStay(t),
         NEW t \in Turn, NEW g \in Generation, NEW p, PassIs(t, g, p),
         p.at = "none" => p.about = None,
         \A c \in Strange :
           Owner[c] = t /\ p.at = "live" /\ p.about = c =>
             Named(c, g) \/ Granted(c),
         \A c \in Strange, h \in Generation : Ready(c, h)' => Ready(c, h)
  PROVE  Consent'
<1>1. /\ pass'[t][g] = p
      /\ \A u \in Turn, h \in Generation :
           <<u, h>> # <<t, g>> => pass'[u][h] = pass[u][h]
  BY PassMoves DEF Typed
<1>2. \A u \in Turn : Silence(u)'
  BY <1>1 DEF Consent, Silence
<1>3. ASSUME NEW c \in Strange, NEW h \in Generation, Named(c, h)'
      PROVE  Named(c, h) \/ Granted(c)
  <2>1. Owner[c] \in Turn BY Bounds DEF Strange
  <2>2. QED BY <1>1, <1>3, <2>1 DEF Named
<1>4. QED BY <1>2, <1>3, NothingNew

LEMMA OneExec ==
  ASSUME Typed, NEW c \in Call, NEW g \in Generation, NEW x, ExecIs(c, g, x),
         x.at \in {"registered", "handling"} => Ready(c, g) \/ Granted(c)
  PROVE  \A d \in Strange, h \in Generation :
           Ready(d, h)' => Ready(d, h) \/ Granted(d)
<1>1. /\ exec'[c][g] = x
      /\ \A d \in Call, h \in Generation :
           <<d, h>> # <<c, g>> => exec'[d][h] = exec[d][h]
  BY ExecMoves DEF Typed
<1>2. QED BY <1>1 DEF Ready, Strange

LEMMA SameConsent ==
  ASSUME Typed, Consent, \A t \in Turn : AnswersStay(t),
         UNCHANGED <<pass, exec>>
  PROVE  Consent'
<1>1. \A c \in Strange, g \in Generation : Ready(c, g)' => Ready(c, g)
  BY DEF Ready
<1>2. QED BY <1>1, SamePasses

(* A new pass starts without an approval.                                  *)
LEMMA ClaimConsent ==
  ASSUME Typed, Fence, Consent, \A u \in Turn : AnswersStay(u),
         NEW t \in Turn, Claim(t)
  PROVE  Consent'
<1> DEFINE g == turn[t].generation
<1>1. g \in Generation /\ pass[t][g] \in PassRow
  BY Numbers, PassRows DEF Typed
<1>2. pass[t][g].at = "none"
  BY <1>1, Numbers DEF Claim, Fence, PassesPast, Gone, Typed, Generation
<1>3. pass[t][g].about = None
  BY <1>1, <1>2 DEF Consent, Silence
<1>4. /\ PassIs(t, g, [pass[t][g] EXCEPT !.at =
                         IF g = 1 THEN "live" ELSE "claimed"])
      /\ UNCHANGED exec
  BY DEF Claim, PassAt
<1>5. \A c \in Strange, h \in Generation : Ready(c, h)' => Ready(c, h)
  BY <1>4 DEF Ready
<1> HIDE DEF g
<1>6. \A c \in Strange : c # None BY ConstantsOK DEF Strange
<1>7. QED BY <1>1, <1>3, <1>4, <1>5, <1>6, OnePass DEF PassRow

(* A pass holds the approval its turn was resumed with, and only that.     *)
LEMMA LoadConsent ==
  ASSUME Typed, Consent, \A u \in Turn : AnswersStay(u),
         NEW t \in Turn, NEW g \in Generation, Load(t, g)
  PROVE  Consent'
<1>1. \A c \in Strange, h \in Generation : Ready(c, h)' => Ready(c, h)
  BY DEF Load, Ready
<1>2. ASSUME NEW i \in Answered(t),
             PassIs(t, g, Resumed(t, question[t][i]))
      PROVE  Consent'
  <2> DEFINE p == Resumed(t, question[t][i])
  <2>1. p.at # "none"
    BY DEF Resumed
  <2>2. ASSUME NEW c \in Strange, Owner[c] = t, p.at = "live", p.about = c
        PROVE  Granted(c)
    <3>1. c # None /\ i \in DOMAIN question[t]
      BY ConstantsOK DEF Strange, Answered
    <3>2. /\ question[t][i].kind = "approval"
          /\ question[t][i].call = c
          /\ question[t][i].status # "rejected"
      BY <2>2, <3>1 DEF Resumed
    <3>3. question[t][i].status = "resolved"
      BY <3>2 DEF Answered
    <3>4. QED BY <2>2, <3>1, <3>2, <3>3 DEF Granted
  <2> HIDE DEF p
  <2>3. PassIs(t, g, p) BY <1>2 DEF p
  <2>4. QED BY <1>1, <2>1, <2>2, <2>3, OnePass
<1>3. ASSUME NEW R,
             PassIs(t, g, [at |-> "live", about |-> None, resumes |-> R])
      PROVE  Consent'
  <2>1. \A c \in Strange : c # None BY ConstantsOK DEF Strange
  <2>2. QED BY <1>1, <1>3, <2>1, OnePass
<1>4. QED BY <1>2, <1>3 DEF Load

(* The actions together.                                                   *)
LEMMA PassStepConsent ==
  ASSUME Typed, Consent, \A u \in Turn : AnswersStay(u),
         NEW t \in Turn, NEW g \in Generation, PassStep(t, g)
  PROVE  Consent'
<1>1. /\ pass[t][g] \in PassRow /\ CallsOf(t) \subseteq Call
      /\ \A c \in Strange : c # None
  BY PassRows, Bounds, ConstantsOK DEF Typed, Strange
<1>2. ASSUME UNCHANGED exec
      PROVE  \A c \in Strange, h \in Generation : Ready(c, h)' => Ready(c, h)
  BY <1>2 DEF Ready
<1>3. ASSUME NEW p, PassIs(t, g, p), p.at \notin {"none", "live"},
             UNCHANGED exec
      PROVE  Consent'
  BY <1>2, <1>3, OnePass
<1>4. ASSUME NEW p, PassIs(t, g, p), p.about = None,
             \A c \in Strange, h \in Generation : Ready(c, h)' => Ready(c, h)
      PROVE  Consent'
  BY <1>1, <1>4, OnePass
<1>5. CASE RejectWaiting(t, g) \/ StopPass(t, g)
  <2>1. \E at \in {"rejected", "stopping"} :
          PassIs(t, g, [pass[t][g] EXCEPT !.at = at]) /\ UNCHANGED exec
    BY <1>5 DEF RejectWaiting, StopPass, PassAt
  <2>2. pass[t][g] \in PassRow BY <1>1
  <2>3. \A at : [pass[t][g] EXCEPT !.at = at].at = at
    BY <2>2 DEF PassRow
  <2>4. QED BY <1>3, <2>1, <2>3
<1>6. CASE CancelDeferred(t, g) \/ WaitTurn(t, g) \/ FinishTurn(t, g)
  BY <1>2, <1>4, <1>6 DEF CancelDeferred, WaitTurn, FinishTurn, EndPass,
     NoPass
<1>7. ASSUME NEW c \in CallsOf(t), NEW S \in SUBSET CallsOf(t),
             Defer(t, g, c, S)
      PROVE  Consent'
  BY <1>3, <1>7 DEF Defer
<1>8. ASSUME NEW c \in CallsOf(t), Start(t, g, c)
      PROVE  Consent'
  <2>1. UNCHANGED pass /\ c \in Call /\ Owner[c] = t
    BY <1>1, <1>8 DEF Start, Admits
  <2>2. \/ Goes(c, g, "registered", "none") /\ Allowable(t, g, c)
        \/ Goes(c, g, "finishing", "failed")
        \/ Goes(c, g, "finishing", "denied")
    BY <1>8 DEF Start
  <2>3. Effect[c] = "unknown" /\ Allowable(t, g, c) => Granted(c)
    BY <1>8, <2>1 DEF Allowable, Start, Consent, Named, Strange
  <2>4. CASE c \in Strange
    <3>1. \A d \in Strange, h \in Generation :
            Ready(d, h)' => Ready(d, h) \/ Granted(d)
      BY <2>1, <2>2, <2>3, <2>4, OneExec DEF Goes, Strange
    <3>2. QED BY <2>1, <3>1, SamePasses
  <2>5. CASE c \notin Strange
    <3>1. \A d \in Strange, h \in Generation : exec'[d][h] = exec[d][h]
      BY <2>1, <2>2, <2>5, ExecMoves DEF Goes, Strange, Typed
    <3>2. QED BY <2>1, <3>1, SamePasses DEF Ready
  <2>6. QED BY <2>4, <2>5
<1>9. CASE StartAsking(t, g)
  <2> DEFINE c == pass[t][g].about
  <2>1. PassIs(t, g, [pass[t][g] EXCEPT !.at = "live", !.about = None])
    BY <1>9 DEF StartAsking
  <2>2. [pass[t][g] EXCEPT !.at = "live", !.about = None].about = None
    BY <1>1 DEF PassRow
  <2>3. CASE Admits(t, g, c)
    <3>1. c \in Call
      BY <1>1, <2>3 DEF Admits, Fresh, Suspended, Typed, Rows
    <3>2. ExecIs(c, g, [at |-> "finishing", result |-> "waiting"])
      BY <1>9, <2>3 DEF StartAsking, Goes
    <3> HIDE DEF c
    <3>3. \A d \in Strange, h \in Generation : Ready(d, h)' => Ready(d, h)
      BY <3>1, <3>2, ExecMoves DEF Ready, Strange, Typed
    <3>4. QED BY <1>4, <2>1, <2>2, <3>3
  <2>4. CASE ~Admits(t, g, c)
    <3>1. UNCHANGED exec BY <1>9, <2>4 DEF StartAsking
    <3>2. QED BY <1>2, <1>4, <2>1, <2>2, <3>1
  <2>5. QED BY <2>3, <2>4
<1>10. ASSUME NEW c \in CallsOf(t), ReplayCancelled(t, g, c)
       PROVE  Consent'
  <2>1. /\ PassIs(t, g, [pass[t][g] EXCEPT !.at = "stopping"])
        /\ ExecIs(c, g, [at |-> "replayed", result |-> "cancelled"])
        /\ c \in Call
    BY <1>1, <1>10 DEF ReplayCancelled, PassAt, Goes
  <2>2. \A d \in Strange, h \in Generation : Ready(d, h)' => Ready(d, h)
    BY <2>1, ExecMoves DEF Ready, Strange, Typed
  <2>3. [pass[t][g] EXCEPT !.at = "stopping"].at = "stopping"
    BY <1>1 DEF PassRow
  <2>4. QED BY <2>1, <2>2, <2>3, OnePass
<1>11. CASE Crash(t, g)
  <2>1. \A d \in Call, h \in Generation : exec'[d][h] \in {exec[d][h], NoExec}
    BY <1>11 DEF Crash, Typed, Rows
  <2>2. \A d \in Strange, h \in Generation : Ready(d, h)' => Ready(d, h)
    BY <2>1 DEF Ready, Strange, NoExec
  <2>3. QED BY <1>4, <1>11, <2>2 DEF Crash, EndPass, NoPass
<1>12. QED
  BY <1>5, <1>6, <1>7, <1>8, <1>9, <1>10, <1>11, LoadConsent DEF PassStep

LEMMA CallStepConsent ==
  ASSUME Typed, Consent, \A u \in Turn : AnswersStay(u),
         NEW c \in Call, NEW g \in Generation, CallStep(c, g)
  PROVE  Consent'
<1>1. ASSUME NEW x, ExecIs(c, g, x), UNCHANGED pass,
             x.at \in {"registered", "handling"} => Ready(c, g)
      PROVE  Consent'
  BY <1>1, OneExec, SamePasses
<1>2. CASE MarkHandlerStarted(c, g)
  BY <1>1, <1>2 DEF MarkHandlerStarted, Goes, Ends, NoExec, Ready
<1>3. CASE \/ HandlerReturns(c, g) \/ HandlerRaises(c, g)
           \/ CancelExecution(c, g)
  BY <1>1, <1>3 DEF HandlerReturns, HandlerRaises, CancelExecution, Goes
<1>4. CASE FinishRead(c, g)
  <2>1. /\ UNCHANGED pass
        /\ \/ Ends(c, g)
           \/ \E at \in {"rewriting", "writing", "late"} :
                Goes(c, g, at, Reclassified(c, exec[c][g].result))
    BY <1>4 DEF FinishRead
  <2>2. QED BY <1>1, <2>1 DEF Ends, NoExec, Goes
<1>5. CASE FinishDeleted(c, g) \/ FinishLate(c, g) \/ LoseFinish(c, g)
  BY <1>1, <1>5 DEF FinishDeleted, FinishLate, LoseFinish, Ends, NoExec
<1>6. CASE FinishWrite(c, g)
  <2>1. Ends(c, g) /\ Owner[c] \in Turn
    BY <1>6, Bounds DEF FinishWrite
  <2>2. \A d \in Strange, h \in Generation : Ready(d, h)' => Ready(d, h)
    BY <2>1, ExecMoves DEF Ends, NoExec, Ready, Strange, Typed
  <2>3. CASE UNCHANGED pass
    BY <2>2, <2>3, SamePasses
  <2>4. CASE PassIs(Owner[c], g, [pass[Owner[c]][g] EXCEPT !.at = "asking"])
    <3>1. pass[Owner[c]][g] \in PassRow BY <2>1, PassRows DEF Typed
    <3>2. [pass[Owner[c]][g] EXCEPT !.at = "asking"].at = "asking"
      BY <3>1 DEF PassRow
    <3>3. QED BY <2>1, <2>2, <2>4, <3>2, OnePass
  <2>5. QED BY <1>6, <2>3, <2>4 DEF FinishWrite, PassAt
<1>7. CASE \E client \in Client : CreateClientAction(c, g, client)
  BY <1>7, SameConsent DEF CreateClientAction
<1>8. QED BY <1>2, <1>3, <1>4, <1>5, <1>6, <1>7 DEF CallStep

LEMMA ConsentStep ==
  ASSUME Typed, Fence, Consent, \A u \in Turn : AnswersStay(u), Next
  PROVE  Consent'
<1>1. ASSUME NEW t \in Turn, NEW g \in 1 .. LastGeneration[t], PassStep(t, g)
      PROVE  Consent'
  BY <1>1, Bounds, PassStepConsent
<1>2. ASSUME NEW c \in Call, NEW g \in 1 .. LastGeneration[Owner[c]],
             CallStep(c, g)
      PROVE  Consent'
  BY <1>2, Bounds, CallStepConsent
<1>3. ASSUME NEW t \in Turn, TurnStep(t)
      PROVE  Consent'
  <2>1. CASE Claim(t)
    BY <2>1, ClaimConsent
  <2>2. CASE ~Claim(t)
    <3>1. UNCHANGED <<pass, exec>>
      BY <1>3, <2>2 DEF TurnStep, CancelTurn, CloseTurn, Interrupt,
         ResolveClientAction, DeleteConversation
    <3>2. QED BY <3>1, SameConsent
  <2>3. QED BY <2>1, <2>2
<1>4. ASSUME NEW t \in Turn, NEW i \in DOMAIN question[t], QuestionStep(t, i)
      PROVE  Consent'
  <2>1. UNCHANGED <<pass, exec>>
    BY <1>4 DEF QuestionStep, Answer, AnswerCancels, Takeover,
       ReadClientAction
  <2>2. QED BY <2>1, SameConsent
<1>5. ASSUME NEW c \in Call, RecoverTurn(c) \/ ExpireReceipt(c)
      PROVE  Consent'
  <2>1. UNCHANGED <<pass, exec>>
    BY <1>5 DEF RecoverTurn, ExpireReceipt
  <2>2. QED BY <2>1, SameConsent
<1>6. QED BY <1>1, <1>2, <1>3, <1>4, <1>5 DEF Next

LEMMA ConsentInit == Init => Consent
<1>1. SUFFICES ASSUME Init PROVE Consent OBVIOUS
<1>2. /\ \A t \in Turn, g \in Generation : pass[t][g] = NoPass
      /\ \A c \in Call, g \in Generation : exec[c][g] = NoExec
  BY <1>1 DEF Init
<1>3. \A t \in Turn : Silence(t)
  BY <1>2 DEF Silence, NoPass
<1>4. \A c \in Strange, g \in Generation : ~Ready(c, g) /\ ~Named(c, g)
  BY <1>2, Bounds DEF Strange, Ready, Named, NoPass, NoExec
<1>5. QED BY <1>3, <1>4 DEF Consent

(* Calls of unknown effect that were let through were approved.            *)
THEOREM ConsentHolds == Spec => [](Typed /\ Fence /\ Talks /\ Consent)
<1>1. Init => Typed /\ Fence /\ Talks /\ Consent
  BY InitTyped, FenceInit, TalksInit, ConsentInit
<1>2. Typed /\ Fence /\ Talks /\ Consent /\ [Next]_vars
        => (Typed /\ Fence /\ Talks /\ Consent)'
  <2>1. SUFFICES ASSUME Typed, Fence, Talks, Consent, [Next]_vars
                 PROVE  Typed' /\ Fence' /\ Talks' /\ Consent'
    OBVIOUS
  <2>2. Typed' /\ Fence'
    BY <2>1, TypedStep, FenceStep
  <2>3. TalksOn
    BY <2>1, TalksStep, Silent DEF vars
  <2>4. Talks' /\ \A u \in Turn : AnswersStay(u)
    BY <2>3 DEF TalksOn, Talks
  <2>5. ASSUME Next PROVE Consent'
    BY <2>1, <2>4, <2>5, ConsentStep
  <2>6. ASSUME UNCHANGED vars PROVE Consent'
    BY <2>1, <2>4, <2>6, SameConsent DEF vars
  <2>7. QED BY <2>1, <2>2, <2>4, <2>5, <2>6
<1>3. QED BY <1>1, <1>2, PTL DEF Spec

(* The handler of a tool of unknown effect runs only after its user        *)
(* approved this very call.                                                *)
THEOREM ApprovedFirst == Spec => []ApprovedBeforeEffect
<1>1. ASSUME Consent PROVE ApprovedBeforeEffect
  <2>1. ASSUME NEW c \in Call, NEW g \in Generation,
               Effect[c] = "unknown", exec[c][g].at = "handling",
               turn[Owner[c]].status # "deleted"
        PROVE  \E i \in DOMAIN question[Owner[c]] :
                 /\ question[Owner[c]][i].call = c
                 /\ question[Owner[c]][i].kind = "approval"
                 /\ question[Owner[c]][i].status = "resolved"
    <3>1. Granted(c)
      BY <1>1, <2>1 DEF Consent, Strange, Ready
    <3>2. QED BY <2>1, <3>1 DEF Granted, Gone
  <2>2. QED BY <2>1 DEF ApprovedBeforeEffect
<1>2. QED BY <1>1, ConsentHolds, PTL
=============================================================================
