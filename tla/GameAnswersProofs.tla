-------------------------- MODULE GameAnswersProofs -------------------------
(***************************************************************************)
(* Type correctness of a game room with its players, and that no question  *)
(* is credited twice, for any number of host sockets, players, player      *)
(* sockets, questions, edits and disruptions.  With one socket per player, *)
(* answering implements the ledger.                                        *)
(***************************************************************************)
EXTENDS GameAnswers, TLAPS

\* The questions the quiz has are question ids.
LEMMA BankType == edition \in DOMAIN Editions => Bank \subseteq Questions
  BY EditionsAssumption DEF Bank

\* A play order is a sequence of question ids, shuffled or not.
LEMMA OrdersType ==
  ASSUME edition \in DOMAIN Editions, NEW ids \in Orders
  PROVE  ids \in Seq(Questions)
<1> DEFINE s == Editions[edition]
<1>1. s \in Seq(Questions) BY EditionsAssumption
<1>2. ASSUME ids \in [DOMAIN s -> Bank]
      PROVE  ids \in Seq(Questions)
  <2> HIDE DEF s
  <2>1. DOMAIN s = 1..Len(s) /\ Len(s) \in Nat BY <1>1
  <2>2. ids \in [1..Len(s) -> Questions] BY <1>2, <2>1, BankType
  <2> QED BY <2>1, <2>2
<1> QED BY <1>1, <1>2 DEF Orders

\* The current question is a question id, or 0.
LEMMA CurrentQuestionType == TypeOK => CurrentQuestion \in Questions \cup {0}
  BY BankType DEF CurrentQuestion, TypeOK

\* The names of the statuses and steps, one by one: the record sets stay folded.
LEMMA Names ==
  /\ "waiting" \in Statuses /\ "starting" \in Statuses /\ "question" \in Statuses
  /\ "revealing" \in Statuses /\ "finished" \in Statuses /\ "gone" \in Statuses
  /\ "idle" \in HostSteps /\ "start_commit" \in HostSteps /\ "start_order" \in HostSteps
  /\ "countdown" \in HostSteps /\ "advance" \in HostSteps /\ "open" \in HostSteps
  /\ "close" \in HostSteps /\ "start_key" \in HostSteps /\ "send" \in HostSteps
  /\ "refresh" \in HostSteps /\ "reveal" \in HostSteps /\ "board" \in HostSteps
  /\ "cast" \in HostSteps /\ "end_read" \in HostSteps /\ "end_commit" \in HostSteps
  /\ "end_board" \in HostSteps /\ "end_cast" \in HostSteps
  /\ "free" \in TimerSteps /\ "asleep" \in TimerSteps /\ "reveal" \in TimerSteps
  /\ "question" \in TimerSteps /\ "board" \in TimerSteps /\ "cast" \in TimerSteps
  BY DEF Statuses, HostSteps, TimerSteps

\* The records of an idle handler, a free timer and a missing order.
LEMMA IdleType ==
  /\ Idle \in HandlerStates
  /\ Free \in TimerStates
  /\ Lost \in [held : BOOLEAN, ids : Seq(Questions)]
  BY DEF Idle, Free, Lost, HandlerStates, TimerStates, HostSteps, TimerSteps, Statuses

USE DEF row, keys, history

\* Every step of the host's handlers keeps the room well typed.
LEMMA HostStepTypeOK ==
  ASSUME TypeOK, NEW h \in Hosts, HostMessage(h) \/ HostStep(h)
  PROVE  TypeOK'
<1> DEFINE Typed == host' \in [Hosts -> HandlerStates]
<1>0. /\ host \in [Hosts -> HandlerStates] /\ timer \in [Timers -> TimerStates]
      /\ status \in Statuses /\ index \in Nat
      /\ order \in [held : BOOLEAN, ids : Seq(Questions)]
      /\ opened \subseteq Questions /\ shown \subseteq Questions /\ ended \subseteq Questions
      /\ Carried
  BY DEF TypeOK
<1>00. /\ host[h] \in HandlerStates /\ host[h].target \in Nat /\ index + 1 \in Nat
       /\ host[h].q \in Questions \cup {0} /\ host[h].ids \in Seq(Questions)
  BY <1>0 DEF HandlerStates
<1>1. CASE StartRead(h)
  <2>1. PICK ids \in Orders :
           host' = [host EXCEPT ![h].pc = "start_commit", ![h].ids = ids]
    BY <1>1 DEF StartRead
  <2>2. ids \in Seq(Questions) BY OrdersType DEF TypeOK
  <2>3. Typed BY <1>0, <1>00, <2>1, <2>2, Names DEF HandlerStates
  <2>4. Carried' BY <1>0, <1>1, <2>1, <2>3 DEF StartRead, Carried, HandlerStates
  <2> QED BY <1>1, <2>3, <2>4, Names DEF StartRead, TypeOK
<1>2. CASE NextRead(h)
  <2>1. \/ Goto(h, "refresh")
        \/ Goto(h, "end_read")
        \/ host' = [host EXCEPT ![h].pc = "advance", ![h].target = index + 1]
    BY <1>2 DEF NextRead
  <2>2. ASSUME Goto(h, "refresh")
        PROVE  Typed /\ Carried'
    <3>1. Typed BY <1>0, <1>00, <2>2, Names DEF Goto, Return, HandlerStates, TypeOK
    <3>2. Carried' BY <1>0, <1>00, <1>2, <2>2, <3>1, Names
      DEF NextRead, Carried, Goto, Return, Idle, HandlerStates, TypeOK
    <3> QED BY <3>1, <3>2
  <2>3. ASSUME Goto(h, "end_read")
        PROVE  Typed /\ Carried'
    <3>1. Typed BY <1>0, <1>00, <2>3, Names DEF Goto, Return, HandlerStates, TypeOK
    <3>2. Carried' BY <1>0, <1>00, <1>2, <2>3, <3>1, Names
      DEF NextRead, Carried, Goto, Return, Idle, HandlerStates, TypeOK
    <3> QED BY <3>1, <3>2
  <2>4. ASSUME host' = [host EXCEPT ![h].pc = "advance", ![h].target = index + 1]
        PROVE  Typed /\ Carried'
    <3>1. Typed BY <1>0, <1>00, <2>4, Names DEF Goto, Return, HandlerStates, TypeOK
    <3>2. Carried' BY <1>0, <1>00, <1>2, <2>4, <3>1, Names
      DEF NextRead, Carried, Goto, Return, Idle, HandlerStates, TypeOK
    <3> QED BY <3>1, <3>2
  <2> QED BY <1>00, <1>2, <2>1, <2>2, <2>3, <2>4, Names DEF NextRead, TypeOK
<1>3. CASE StartCommit(h)
  <2>1. Typed BY <1>0, <1>00, <1>3, Names DEF StartCommit, Goto, Return, HandlerStates
  <2>9. Carried' BY <1>0, <1>00, <1>3, <2>1, Names DEF StartCommit, Carried, Goto, Return, Idle, Free, HandlerStates
  <2> QED BY <1>00, <1>3, <2>1, <2>9, Names DEF StartCommit, TypeOK, Write
<1>4. CASE StartOrder(h)
  <2>1. Typed BY <1>0, <1>00, <1>4, IdleType, Names DEF StartOrder, Goto, Return, HandlerStates
  <2>2. order' \in [held : BOOLEAN, ids : Seq(Questions)]
    BY <1>0, <1>00, <1>4 DEF StartOrder, HandlerStates
  <2>9. Carried' BY <1>0, <1>00, <1>4, <2>1, Names DEF StartOrder, Carried, Goto, Return, Idle, Free, HandlerStates
  <2> QED BY <1>00, <1>4, <2>1, <2>2, <2>9, Names DEF StartOrder, TypeOK, Write
<1>5. CASE Countdown(h)
  <2>1. Typed BY <1>0, <1>00, <1>5, Names DEF Countdown, Goto, Return, HandlerStates
  <2>9. Carried' BY <1>0, <1>00, <1>5, <2>1, Names DEF Countdown, Carried, Goto, Return, Idle, Free, HandlerStates
  <2> QED BY <1>00, <1>5, <2>1, <2>9, Names DEF Countdown, TypeOK, Write
<1>6. CASE NextRefresh(h)
  <2>1. \/ Return(h)
        \/ CurrentQuestion \in Questions /\ CurrentQuestion > 0 /\
           host' = [host EXCEPT ![h].pc = "reveal", ![h].seen = status, ![h].q = CurrentQuestion]
    BY <1>6, CurrentQuestionType, QuestionsAssumption DEF NextRefresh
  <2>2. ASSUME Return(h)
        PROVE  Typed /\ Carried'
    <3>1. Typed BY <1>0, <1>00, <2>2, IdleType, CurrentQuestionType, Names DEF Goto, Return, HandlerStates, TypeOK
    <3>2. Carried' BY <1>0, <1>00, <1>6, <2>2, <3>1, IdleType, CurrentQuestionType, Names
      DEF NextRefresh, Carried, Goto, Return, Idle, HandlerStates, TypeOK
    <3> QED BY <3>1, <3>2
  <2>3. ASSUME CurrentQuestion \in Questions /\ CurrentQuestion > 0 /\
                   host' = [host EXCEPT ![h].pc = "reveal", ![h].seen = status, ![h].q = CurrentQuestion]
        PROVE  Typed /\ Carried'
    <3>1. Typed BY <1>0, <1>00, <2>3, IdleType, CurrentQuestionType, Names DEF Goto, Return, HandlerStates, TypeOK
    <3>2. Carried' BY <1>0, <1>00, <1>6, <2>3, <3>1, IdleType, CurrentQuestionType, Names
      DEF NextRefresh, Carried, Goto, Return, Idle, HandlerStates, TypeOK
    <3> QED BY <3>1, <3>2
  <2> QED BY <1>00, <1>6, <2>1, <2>2, <2>3, Names DEF NextRefresh, TypeOK
<1>7. CASE NextReveal(h)
  <2>1. Typed BY <1>0, <1>00, <1>7, Names DEF NextReveal, Goto, Return, HandlerStates
  <2>9. Carried' BY <1>0, <1>00, <1>7, <2>1, Names DEF NextReveal, Carried, Goto, Return, Idle, Free, HandlerStates
  <2> QED BY <1>00, <1>7, <2>1, <2>9, Names DEF NextReveal, TypeOK, Write
<1>8. CASE NextBoard(h)
  <2>1. Typed BY <1>0, <1>00, <1>8, Names DEF NextBoard, Goto, Return, HandlerStates
  <2>9. Carried' BY <1>0, <1>00, <1>8, <2>1, Names DEF NextBoard, Carried, Goto, Return, Idle, Free, HandlerStates
  <2> QED BY <1>00, <1>8, <2>1, <2>9, Names DEF NextBoard, TypeOK, Write
<1>9. CASE NextCast(h)
  <2>1. Typed BY <1>0, <1>00, <1>9, IdleType, Names DEF NextCast, Goto, Return, HandlerStates
  <2>2. ended' \subseteq Questions
    BY <1>0, <1>00, <1>9 DEF NextCast, Carried
  <2>9. Carried' BY <1>0, <1>00, <1>9, <2>1, Names DEF NextCast, Carried, Goto, Return, Idle, Free, HandlerStates
  <2> QED BY <1>00, <1>9, <2>1, <2>2, <2>9, Names DEF NextCast, TypeOK, Write
<1>10. CASE AdvanceRead(h)
  <2>1. \/ Goto(h, "end_read")
        \/ host' = [host EXCEPT ![h].pc = "close", ![h].seen = status]
        \/ /\ order.ids[host[h].target] \in Questions
           /\ order.ids[host[h].target] > 0
           /\ host' = [host EXCEPT ![h].pc = "open", ![h].seen = status,
                                    ![h].at = index, ![h].q = order.ids[host[h].target]]
    <3> DEFINE n == host[h].target
    <3>1. order.ids \in Seq(Questions) BY <1>0
    <3>2. n > 0 BY <1>0, <1>10 DEF AdvanceRead, Carried
    <3>3. ~ (n > Len(order.ids)) => order.ids[n] \in Questions
      <4> HIDE DEF n
      <4> QED BY <1>00, <3>1, <3>2 DEF n
    <3> QED BY <1>10, <3>3, QuestionsAssumption DEF AdvanceRead
  <2>2. ASSUME Goto(h, "end_read")
        PROVE  Typed /\ Carried'
    <3>1. Typed BY <1>0, <1>00, <2>2, Names DEF Goto, Return, HandlerStates, TypeOK
    <3>2. Carried' BY <1>0, <1>00, <1>10, <2>2, <3>1, Names
      DEF AdvanceRead, Carried, Goto, Return, Idle, HandlerStates, TypeOK
    <3> QED BY <3>1, <3>2
  <2>3. ASSUME host' = [host EXCEPT ![h].pc = "close", ![h].seen = status]
        PROVE  Typed /\ Carried'
    <3>1. Typed BY <1>0, <1>00, <2>3, Names DEF Goto, Return, HandlerStates, TypeOK
    <3>2. Carried' BY <1>0, <1>00, <1>10, <2>3, <3>1, Names
      DEF AdvanceRead, Carried, Goto, Return, Idle, HandlerStates, TypeOK
    <3> QED BY <3>1, <3>2
  <2>4. ASSUME /\ order.ids[host[h].target] \in Questions
                   /\ order.ids[host[h].target] > 0
                   /\ host' = [host EXCEPT ![h].pc = "open", ![h].seen = status,
                                            ![h].at = index, ![h].q = order.ids[host[h].target]]
        PROVE  Typed /\ Carried'
    <3>1. Typed BY <1>0, <1>00, <2>4, Names DEF Goto, Return, HandlerStates, TypeOK
    <3>2. Carried' BY <1>0, <1>00, <1>10, <2>4, <3>1, Names
      DEF AdvanceRead, Carried, Goto, Return, Idle, HandlerStates, TypeOK
    <3> QED BY <3>1, <3>2
  <2> QED BY <1>00, <1>10, <2>1, <2>2, <2>3, <2>4, Names DEF AdvanceRead, TypeOK
<1>11. CASE AdvanceClose(h)
  <2>1. Typed BY <1>0, <1>00, <1>11, Names DEF AdvanceClose, Goto, Return, HandlerStates
  <2>9. Carried' BY <1>0, <1>00, <1>11, <2>1, Names DEF AdvanceClose, Carried, Goto, Return, Idle, Free, HandlerStates
  <2> QED BY <1>00, <1>11, <2>1, <2>9, Names DEF AdvanceClose, TypeOK, Write
<1>12. CASE AdvanceOpen(h)
  <2>1. Typed BY <1>0, <1>00, <1>12, Names DEF AdvanceOpen, Goto, Return, HandlerStates
  <2>2. opened' \subseteq Questions
    BY <1>0, <1>00, <1>12 DEF AdvanceOpen, Carried
  <2>9. Carried' BY <1>0, <1>00, <1>12, <2>1, Names DEF AdvanceOpen, Carried, Goto, Return, Idle, Free, HandlerStates
  <2> QED BY <1>00, <1>12, <2>1, <2>2, <2>9, Names DEF AdvanceOpen, TypeOK, Write
<1>13. CASE AdvanceStartKey(h)
  <2>1. Typed BY <1>0, <1>00, <1>13, Names DEF AdvanceStartKey, Goto, Return, HandlerStates
  <2>9. Carried' BY <1>0, <1>00, <1>13, <2>1, Names DEF AdvanceStartKey, Carried, Goto, Return, Idle, Free, HandlerStates
  <2> QED BY <1>00, <1>13, <2>1, <2>9, Names DEF AdvanceStartKey, TypeOK, Write
<1>14. CASE SendQuestion(h)
  <2>1. Typed BY <1>0, <1>00, <1>14, IdleType, Names DEF SendQuestion, Goto, Return, HandlerStates
  <2>2. shown' \subseteq Questions
    BY <1>0, <1>00, <1>14, Names DEF SendQuestion, Carried
  <2>3. timer' \in [Timers -> TimerStates]
    BY <1>0, <1>00, <1>14, Names DEF SendQuestion, TimerStates, HandlerStates
  <2>9. Carried' BY <1>0, <1>00, <1>14, <2>1, Names DEF SendQuestion, Carried, Goto, Return, Idle, Free, HandlerStates
  <2> QED BY <1>00, <1>14, <2>1, <2>2, <2>3, <2>9, Names DEF SendQuestion, TypeOK, Write
<1>15. CASE EndRead(h)
  <2>1. Typed BY <1>0, <1>00, <1>15, Names DEF EndRead, Goto, Return, HandlerStates
  <2>9. Carried' BY <1>0, <1>00, <1>15, <2>1, Names DEF EndRead, Carried, Goto, Return, Idle, Free, HandlerStates
  <2> QED BY <1>00, <1>15, <2>1, <2>9, Names DEF EndRead, TypeOK, Write
<1>16. CASE EndCommit(h)
  <2>1. Typed BY <1>0, <1>00, <1>16, Names DEF EndCommit, Goto, Return, HandlerStates
  <2>9. Carried' BY <1>0, <1>00, <1>16, <2>1, Names DEF EndCommit, Carried, Goto, Return, Idle, Free, HandlerStates
  <2> QED BY <1>00, <1>16, <2>1, <2>9, Names DEF EndCommit, TypeOK, Write
<1>17. CASE EndBoard(h)
  <2>1. Typed BY <1>0, <1>00, <1>17, Names DEF EndBoard, Goto, Return, HandlerStates
  <2>9. Carried' BY <1>0, <1>00, <1>17, <2>1, Names DEF EndBoard, Carried, Goto, Return, Idle, Free, HandlerStates
  <2> QED BY <1>00, <1>17, <2>1, <2>9, Names DEF EndBoard, TypeOK, Write
<1>18. CASE EndCast(h)
  <2>1. Typed BY <1>0, <1>00, <1>18, IdleType, Names DEF EndCast, Goto, Return, HandlerStates
  <2>9. Carried' BY <1>0, <1>00, <1>18, <2>1, Names DEF EndCast, Carried, Goto, Return, Idle, Free, HandlerStates
  <2> QED BY <1>00, <1>18, <2>1, <2>9, Names DEF EndCast, TypeOK, Write
<1>19. CASE HostGone(h)
  <2>1. Typed BY <1>0, <1>00, <1>19, IdleType, Names DEF HostGone, Goto, Return, HandlerStates
  <2>9. Carried' BY <1>0, <1>00, <1>19, <2>1, Names DEF HostGone, Carried, Goto, Return, Idle, Free, HandlerStates
  <2> QED BY <1>00, <1>19, <2>1, <2>9, Names DEF HostGone, TypeOK, Write
<1> QED
  BY <1>1, <1>2, <1>3, <1>4, <1>5, <1>6, <1>7, <1>8, <1>9, <1>10, <1>11, <1>12,
     <1>13, <1>14, <1>15, <1>16, <1>17, <1>18, <1>19 DEF HostMessage, HostStep

\* Every step of a question timer keeps the room well typed.
LEMMA TimerStepTypeOK ==
  ASSUME TypeOK, NEW t \in Timers, TimerStep(t)
  PROVE  TypeOK'
<1> DEFINE Typed == timer' \in [Timers -> TimerStates]
<1>0. /\ timer \in [Timers -> TimerStates] /\ timer[t] \in TimerStates
      /\ timer[t].q \in Questions \cup {0}
      /\ status \in Statuses /\ index \in Nat /\ ended \subseteq Questions /\ Carried
  BY DEF TypeOK, TimerStates
<1>1. CASE TimeoutRead(t)
  <2>1. Typed BY <1>0, <1>1, IdleType, Names DEF TimeoutRead, TimerStates
  <2>2. Carried' BY <1>0, <1>1, <2>1, Names DEF TimeoutRead, Carried, Free, TimerStates
  <2> QED BY <1>1, <2>1, <2>2, Names DEF TimeoutRead, TypeOK
<1>2. CASE TimeoutReveal(t)
  <2>1. Typed BY <1>0, <1>2, IdleType, Names DEF TimeoutReveal, TimerStates
  <2>2. Carried' BY <1>0, <1>2, <2>1, Names DEF TimeoutReveal, Carried, Free, TimerStates
  <2> QED BY <1>2, <2>1, <2>2, Names DEF TimeoutReveal, TypeOK
<1>3. CASE TimeoutQuestion(t)
  <2>1. Typed BY <1>0, <1>3, IdleType, Names, CurrentQuestionType, QuestionsAssumption DEF TimeoutQuestion, TimerStates
  <2>2. Carried' BY <1>0, <1>3, <2>1, Names, CurrentQuestionType, QuestionsAssumption DEF TimeoutQuestion, Carried, Free, TimerStates
  <2> QED BY <1>3, <2>1, <2>2, Names DEF TimeoutQuestion, TypeOK
<1>4. CASE TimeoutBoard(t)
  <2>1. Typed BY <1>0, <1>4, IdleType, Names DEF TimeoutBoard, TimerStates
  <2>2. Carried' BY <1>0, <1>4, <2>1, Names DEF TimeoutBoard, Carried, Free, TimerStates
  <2> QED BY <1>4, <2>1, <2>2, Names DEF TimeoutBoard, TypeOK
<1>5. CASE TimeoutCast(t)
  <2>1. Typed BY <1>0, <1>5, IdleType, Names DEF TimeoutCast, TimerStates
  <2>2. Carried' BY <1>0, <1>5, <2>1, Names DEF TimeoutCast, Carried, Free, TimerStates
  <2>3. ended' \subseteq Questions BY <1>0, <1>5 DEF TimeoutCast, Carried
  <2> QED BY <1>5, <2>1, <2>2, <2>3, Names DEF TimeoutCast, TypeOK
<1>6. CASE TimeoutGone(t)
  <2>1. Typed BY <1>0, <1>6, IdleType, Names DEF TimeoutGone, TimerStates
  <2>2. Carried' BY <1>0, <1>6, <2>1, Names DEF TimeoutGone, Carried, Free, TimerStates
  <2> QED BY <1>6, <2>1, <2>2, Names DEF TimeoutGone, TypeOK
<1> QED BY <1>1, <1>2, <1>3, <1>4, <1>5, <1>6 DEF TimerStep

\* Every disruption keeps the room well typed.
LEMMA DisruptionTypeOK ==
  ASSUME TypeOK, KeysExpire \/ CallRaises \/ Crash \/ EditQuiz \/ DeleteQuiz
  PROVE  TypeOK'
<1>0. /\ host \in [Hosts -> HandlerStates] /\ timer \in [Timers -> TimerStates]
      /\ disrupted \in 0..MaxDisruptions /\ MaxDisruptions \in Nat /\ Carried
  BY ChoicesAssumption DEF TypeOK
<1>1. CASE KeysExpire
  <2>1. Carried' BY <1>0, <1>1 DEF KeysExpire, Carried
  <2> QED BY <1>0, <1>1, <2>1, IdleType DEF KeysExpire, Disrupt, TypeOK
<1>2. CASE CallRaises
  <2>1. host' \in [Hosts -> HandlerStates] /\ timer' \in [Timers -> TimerStates]
    BY <1>0, <1>2, IdleType DEF CallRaises, Return
  <2>2. Carried' BY <1>0, <1>2 DEF CallRaises, Return, Carried, Idle, Free
  <2> QED BY <1>0, <1>2, <2>1, <2>2 DEF CallRaises, Disrupt, TypeOK
<1>3. CASE Crash
  <2>1. host' \in [Hosts -> HandlerStates] /\ timer' \in [Timers -> TimerStates]
    BY <1>3, IdleType DEF Crash
  <2>2. Carried' BY <1>3 DEF Crash, Carried, Idle, Free
  <2> QED BY <1>0, <1>3, <2>1, <2>2 DEF Crash, Disrupt, TypeOK
<1>4. CASE EditQuiz
  <2>1. edition' \in DOMAIN Editions BY <1>4, EditionsAssumption DEF EditQuiz, TypeOK
  <2>2. Carried' BY <1>0, <1>4 DEF EditQuiz, Carried
  <2> QED BY <1>0, <1>4, <2>1, <2>2 DEF EditQuiz, Disrupt, TypeOK
<1>5. CASE DeleteQuiz
  <2>1. Carried' BY <1>0, <1>5 DEF DeleteQuiz, Carried
  <2> QED BY <1>0, <1>5, <2>1, Names DEF DeleteQuiz, Disrupt, TypeOK
<1> QED BY <1>1, <1>2, <1>3, <1>4, <1>5

\* Every step of the room keeps it well typed.
LEMMA RoomTypeOK == TypeOK /\ [RoomNext]_roomVars => TypeOK'
<1> SUFFICES ASSUME TypeOK, [RoomNext]_roomVars PROVE TypeOK'
  OBVIOUS
<1>1. CASE UNCHANGED roomVars
  BY <1>1 DEF roomVars, TypeOK, Carried
<1>2. CASE RoomNext
  BY <1>2, HostStepTypeOK, TimerStepTypeOK, DisruptionTypeOK DEF RoomNext, Handlers
<1> QED BY <1>1, <1>2

-----------------------------------------------------------------------------
(* Type correctness.                                                       *)

\* The record of a socket at rest and the empty score.
LEMMA RestingType == Resting \in SubmitStates /\ NoPoints \in [Questions -> Nat]
  BY DEF Resting, NoPoints, SubmitStates, SubmitSteps

\* The names of the verdicts and of the steps of a submission, one by one.
LEMMA SubmitNames ==
  /\ "idle" \in SubmitSteps /\ "check" \in SubmitSteps /\ "question" \in SubmitSteps
  /\ "commit" \in SubmitSteps /\ "mark" \in SubmitSteps
  /\ "none" \in Verdicts /\ "right" \in Verdicts /\ "wrong" \in Verdicts
  BY DEF SubmitSteps, Verdicts

\* Submitting an answer keeps the answers and the room well typed.
LEMMA SubmitStepTypeOK ==
  ASSUME AnswersTypeOK, NEW s \in Sockets, SubmitStep(s)
  PROVE  AnswersTypeOK'
<1> DEFINE Typed == submit' \in [Sockets -> SubmitStates]
           InHand == \A r \in Sockets : submit'[r].pc # "idle" => submit'[r].q > 0
<1>0. /\ TypeOK /\ submit \in [Sockets -> SubmitStates] /\ submit[s] \in SubmitStates
      /\ submit[s].q \in Questions \cup {0} /\ submit[s].index \in Nat
      /\ submit[s].score \in [Questions -> Nat]
      /\ Owner[s] \in Players /\ index \in Nat
      /\ score \in [Players -> [Questions -> Nat]]
      /\ verdict \in [Players -> [Questions -> Verdicts]]
      /\ answered \subseteq Nat \X Players
      /\ \A r \in Sockets : submit[r].pc # "idle" => submit[r].q > 0
  BY OwnerAssumption DEF AnswersTypeOK, SubmitStates, TypeOK
<1>r. UNCHANGED roomVars => TypeOK'
  BY <1>0, RoomTypeOK
<1>1. CASE SubmitRead(s)
  <2>1. PICK q \in Questions : submit' = [submit EXCEPT ![s].pc = "check", ![s].q = q,
                                                        ![s].index = index]
    BY <1>1 DEF SubmitRead
  <2>2. Typed BY <1>0, <2>1, SubmitNames DEF SubmitStates
  <2>3. InHand BY <1>0, <2>1, QuestionsAssumption
  <2> QED BY <1>0, <1>1, <1>r, <2>2, <2>3 DEF SubmitRead, AnswersTypeOK
<1>2. CASE SubmitCheck(s)
  <2>1. Typed BY <1>0, <1>2, RestingType, SubmitNames DEF SubmitCheck, SubmitStates
  <2>2. InHand BY <1>0, <1>2 DEF SubmitCheck, Resting
  <2> QED BY <1>0, <1>2, <1>r, <2>1, <2>2 DEF SubmitCheck, AnswersTypeOK
<1>3. CASE SubmitQuestion(s)
  <2>1. \/ submit' = [submit EXCEPT ![s] = Resting]
        \/ \E right \in BOOLEAN :
              submit' = [submit EXCEPT ![s].pc = "commit", ![s].right = right,
                                       ![s].score = score[Owner[s]]]
    BY <1>3 DEF SubmitQuestion
  <2>2. submit[s].q > 0 /\ score[Owner[s]] \in [Questions -> Nat]
    BY <1>0, <1>3 DEF SubmitQuestion
  <2>3. CASE submit' = [submit EXCEPT ![s] = Resting]
    <3>1. Typed /\ InHand BY <1>0, <2>3, RestingType DEF Resting
    <3> QED BY <1>0, <1>3, <1>r, <3>1 DEF SubmitQuestion, AnswersTypeOK
  <2>4. ASSUME NEW right \in BOOLEAN,
               submit' = [submit EXCEPT ![s].pc = "commit", ![s].right = right,
                                        ![s].score = score[Owner[s]]]
        PROVE  AnswersTypeOK'
    <3>1. Typed BY <1>0, <2>2, <2>4, SubmitNames DEF SubmitStates
    <3>2. InHand BY <1>0, <2>2, <2>4
    <3> QED BY <1>0, <1>3, <1>r, <3>1, <3>2 DEF SubmitQuestion, AnswersTypeOK
  <2> QED BY <2>1, <2>3, <2>4
<1>4. CASE SubmitCommit(s)
  <2> DEFINE p == Owner[s]
             q == submit[s].q
             v == IF submit[s].right THEN "right" ELSE "wrong"
  <2>1. q \in Questions /\ q > 0 /\ v \in Verdicts
    BY <1>0, <1>4, SubmitNames DEF SubmitCommit
  <2>2. CASE submit' = [submit EXCEPT ![s] = Resting] /\ UNCHANGED <<verdict, score>>
    <3>1. Typed /\ InHand BY <1>0, <2>2, RestingType DEF Resting
    <3> QED BY <1>0, <1>4, <1>r, <2>2, <3>1 DEF SubmitCommit, AnswersTypeOK
  <2>3. CASE /\ verdict' = [verdict EXCEPT ![p][q] = v]
             /\ score' = IF submit[s].right
                         THEN [score EXCEPT ![p] = [submit[s].score EXCEPT ![q] = @ + 1]]
                         ELSE score
             /\ submit' = [submit EXCEPT ![s] = [submit[s] EXCEPT !.pc = "mark",
                                                                  !.score = NoPoints]]
    <3> HIDE DEF q, v
    <3>1. [submit[s] EXCEPT !.pc = "mark", !.score = NoPoints] \in SubmitStates
      BY <1>0, RestingType, SubmitNames DEF SubmitStates
    <3>2. Typed BY <1>0, <2>3, <3>1
    <3>3. InHand BY <1>0, <2>1, <2>3 DEF q
    <3>4. verdict' \in [Players -> [Questions -> Verdicts]]
      BY <1>0, <2>1, <2>3
    <3>5. [submit[s].score EXCEPT ![q] = @ + 1] \in [Questions -> Nat]
      BY <1>0, <2>1
    <3>6. score' \in [Players -> [Questions -> Nat]]
      BY <1>0, <2>1, <2>3, <3>5
    <3> QED BY <1>0, <1>4, <1>r, <3>2, <3>3, <3>4, <3>6 DEF SubmitCommit, AnswersTypeOK
  <2> QED BY <1>4, <2>2, <2>3 DEF SubmitCommit
<1>5. CASE SubmitMark(s)
  <2>1. Typed BY <1>0, <1>5, RestingType DEF SubmitMark
  <2>2. InHand BY <1>0, <1>5 DEF SubmitMark, Resting
  <2>3. answered' \subseteq Nat \X Players BY <1>0, <1>5 DEF SubmitMark
  <2> QED BY <1>0, <1>5, <1>r, <2>1, <2>2, <2>3 DEF SubmitMark, AnswersTypeOK
<1> QED BY <1>1, <1>2, <1>3, <1>4, <1>5 DEF SubmitStep

\* Disruptions keep the answers well typed.
LEMMA AnswersDisruptionTypeOK ==
  ASSUME AnswersTypeOK,
         AnsweredExpire \/ SubmitRaises \/ CrashAll \/ EditCascade \/ DeleteCascade
  PROVE  AnswersTypeOK'
<1>0. TypeOK /\ disrupted \in 0..MaxDisruptions /\ MaxDisruptions \in Nat
  BY ChoicesAssumption DEF AnswersTypeOK, TypeOK
<1>1. CASE AnsweredExpire
  <2>1. TypeOK' BY <1>0, <1>1, DisruptionTypeOK DEF AnsweredExpire
  <2> QED BY <1>1, <2>1 DEF AnsweredExpire, AnswersTypeOK
<1>2. CASE SubmitRaises
  <2>1. disrupted' \in 0..MaxDisruptions BY <1>0, <1>2 DEF SubmitRaises, Disrupt
  <2>2. TypeOK' BY <1>0, <1>2, <2>1 DEF SubmitRaises, TypeOK, Carried
  <2>3. /\ submit' \in [Sockets -> SubmitStates]
        /\ \A r \in Sockets : submit'[r].pc # "idle" => submit'[r].q > 0
    BY <1>2, RestingType DEF SubmitRaises, AnswersTypeOK, Resting
  <2> QED BY <1>2, <2>2, <2>3 DEF SubmitRaises, AnswersTypeOK
<1>3. CASE CrashAll
  <2>1. TypeOK' BY <1>0, <1>3, DisruptionTypeOK DEF CrashAll
  <2>2. /\ submit' \in [Sockets -> SubmitStates]
        /\ \A r \in Sockets : submit'[r].pc # "idle" => submit'[r].q > 0
    BY <1>3, RestingType DEF CrashAll, Resting
  <2> QED BY <1>3, <2>1, <2>2 DEF CrashAll, AnswersTypeOK
<1>4. CASE EditCascade
  <2>1. TypeOK' BY <1>0, <1>4, DisruptionTypeOK DEF EditCascade
  <2>2. verdict' \in [Players -> [Questions -> Verdicts]]
    BY <1>4, SubmitNames DEF EditCascade, AnswersTypeOK
  <2> QED BY <1>4, <2>1, <2>2 DEF EditCascade, AnswersTypeOK
<1>5. CASE DeleteCascade
  <2>1. TypeOK' BY <1>0, <1>5, DisruptionTypeOK DEF DeleteCascade
  <2>2. /\ verdict' \in [Players -> [Questions -> Verdicts]]
        /\ score' \in [Players -> [Questions -> Nat]]
    BY <1>5, SubmitNames, RestingType DEF DeleteCascade
  <2> QED BY <1>5, <2>1, <2>2 DEF DeleteCascade, AnswersTypeOK
<1> QED BY <1>1, <1>2, <1>3, <1>4, <1>5

LEMMA InitTypeOK == Init => AnswersTypeOK
<1> SUFFICES ASSUME Init PROVE AnswersTypeOK
  OBVIOUS
<1>0. 1 \in DOMAIN Editions BY EditionsAssumption
<1>1. RoomInit BY DEF Init
<1>2. Carried BY <1>1 DEF RoomInit, Carried, Idle, Free
<1>3. /\ host \in [Hosts -> HandlerStates] /\ timer \in [Timers -> TimerStates]
      /\ order \in [held : BOOLEAN, ids : Seq(Questions)]
  BY <1>1, IdleType DEF RoomInit
<1>4. disrupted \in 0..MaxDisruptions BY <1>1, ChoicesAssumption DEF RoomInit
<1>5. TypeOK BY <1>0, <1>1, <1>2, <1>3, <1>4, Names DEF RoomInit, TypeOK
<1> QED BY <1>5, RestingType, SubmitNames DEF Init, AnswersTypeOK, Resting

LEMMA StepTypeOK == AnswersTypeOK /\ [Next]_vars => AnswersTypeOK'
<1> SUFFICES ASSUME AnswersTypeOK, [Next]_vars PROVE AnswersTypeOK'
  OBVIOUS
<1>1. CASE UNCHANGED vars
  BY <1>1, RoomTypeOK DEF vars, answerVars, AnswersTypeOK
<1>2. CASE (Handlers \/ CallRaises) /\ UNCHANGED answerVars
  BY <1>2, RoomTypeOK DEF RoomNext, answerVars, AnswersTypeOK
<1>3. ASSUME NEW s \in Sockets, SubmitStep(s) PROVE AnswersTypeOK'
  BY <1>3, SubmitStepTypeOK
<1> QED BY <1>1, <1>2, <1>3, AnswersDisruptionTypeOK DEF Next

\* The room and its answers stay well typed.
THEOREM TypeCorrect == Spec => []AnswersTypeOK
BY InitTypeOK, StepTypeOK, PTL DEF Spec

-----------------------------------------------------------------------------
(* No double credit.                                                       *)

\* The questions the quiz has or will have: those of past editions are gone.
ToCome == IF status = "gone" THEN {}
          ELSE UNION {{Editions[e][i] : i \in DOMAIN Editions[e]} :
                         e \in {d \in DOMAIN Editions : d >= edition}}

\* c credits p at most once, and only for right answers still recorded.
Earned(c, p) ==
    \A q \in Questions : c[q] \in {0, 1} /\ (c[q] = 1 /\ q \in ToCome => verdict[p][q] = "right")

\* NoDoubleCredit is not inductive: a submission about to commit writes the
\* score it read before, so what it read must have been earned as well; and a
\* question must not be offered again after its answers went with it.
CreditInv ==
    /\ AnswersTypeOK
    /\ \A p \in Players : Earned(score[p], p)
    /\ \A s \in Sockets : submit[s].pc = "commit" => Earned(submit[s].score, Owner[s])

\* The questions of the present edition are among those to come.
LEMMA BankToCome == edition \in DOMAIN Editions => Bank \subseteq ToCome
<1> SUFFICES ASSUME edition \in DOMAIN Editions, status # "gone"
             PROVE  \A i \in DOMAIN Editions[edition] : Editions[edition][i] \in ToCome
  BY DEF Bank
<1>1. edition \in {d \in DOMAIN Editions : d >= edition} BY EditionsAssumption
<1> QED BY <1>1 DEF ToCome

\* An edit leaves no question of the bank to come.
LEMMA EditsWithdraw ==
  ASSUME edition \in DOMAIN Editions, EditQuiz
  PROVE  ToCome' \subseteq ToCome /\ ToCome' \cap Bank = {}
<1>1. DOMAIN Editions = 1..Len(Editions) /\ Len(Editions) \in Nat
  BY EditionsAssumption
<1>2. edition' = edition + 1 /\ status # "gone" /\ status' = status BY DEF EditQuiz
<1>3. ASSUME NEW e \in DOMAIN Editions, e >= edition', NEW i \in DOMAIN Editions[e]
      PROVE  Editions[e][i] \in ToCome /\ Editions[e][i] \notin Bank
  <2>1. e >= edition /\ e # edition BY <1>1, <1>2, <1>3
  <2>2. Editions[e][i] \in ToCome BY <1>2, <2>1 DEF ToCome
  <2>3. Editions[e][i] \notin Bank BY <2>1, FreshIdsAssumption DEF Bank
  <2> QED BY <2>2, <2>3
<1> QED BY <1>2, <1>3 DEF ToCome

\* No step of a handler brings a deleted room or an earlier edition back.
LEMMA HandlersKeepQuiz ==
  ASSUME TypeOK, Handlers
  PROVE  edition' = edition /\ (status = "gone" => status' = "gone")
<1>1. ASSUME NEW h \in Hosts, HostMessage(h) \/ HostStep(h)
      PROVE  edition' = edition /\ (status = "gone" => status' = "gone")
  BY <1>1 DEF HostMessage, HostStep, StartRead, NextRead, StartCommit, StartOrder, Countdown,
     NextRefresh, NextReveal, NextBoard, NextCast, AdvanceRead, AdvanceClose, AdvanceOpen,
     AdvanceStartKey, SendQuestion, EndRead, EndCommit, EndBoard, EndCast, HostGone
<1>2. ASSUME NEW t \in Timers, TimerStep(t)
      PROVE  edition' = edition /\ (status = "gone" => status' = "gone")
  BY <1>2 DEF TimerStep, TimeoutRead, TimeoutReveal, TimeoutQuestion, TimeoutBoard,
     TimeoutCast, TimeoutGone
<1> QED BY <1>1, <1>2 DEF Handlers

\* A commit credits a question only if its answer was not recorded before.
LEMMA SubmitStepEarned ==
  ASSUME CreditInv, AnswersTypeOK', NEW s \in Sockets, SubmitStep(s)
  PROVE  CreditInv'
<1>0. /\ AnswersTypeOK /\ edition \in DOMAIN Editions
      /\ \A p \in Players : Earned(score[p], p)
      /\ \A r \in Sockets : submit[r].pc = "commit" => Earned(submit[r].score, Owner[r])
      /\ Owner \in [Sockets -> Players]
      /\ submit \in [Sockets -> SubmitStates]
  BY OwnerAssumption DEF CreditInv, AnswersTypeOK, TypeOK
<1>1. UNCHANGED <<status, edition>> /\ ToCome' = ToCome
  BY DEF SubmitStep, SubmitRead, SubmitCheck, SubmitQuestion, SubmitCommit, SubmitMark,
         roomVars, ToCome
<1>2. CASE SubmitRead(s) \/ SubmitCheck(s) \/ SubmitMark(s)
  <2>1. UNCHANGED <<verdict, score>>
    BY <1>2 DEF SubmitRead, SubmitCheck, SubmitMark
  <2>2. \A r \in Sockets : submit'[r].pc = "commit" =>
           submit[r].pc = "commit" /\ submit'[r].score = submit[r].score
    <3>1. \/ submit' = [submit EXCEPT ![s] = Resting]
          \/ submit' = [submit EXCEPT ![s].pc = "question"]
          \/ \E q \in Questions :
                submit' = [submit EXCEPT ![s].pc = "check", ![s].q = q, ![s].index = index]
      BY <1>2 DEF SubmitRead, SubmitCheck, SubmitMark
    <3>2. \A r \in Sockets : r # s => submit'[r] = submit[r]
      BY <1>0, <3>1
    <3>3. submit'[s].pc # "commit"
      <4>1. CASE submit' = [submit EXCEPT ![s] = Resting]
        BY <1>0, <4>1 DEF Resting
      <4>2. CASE submit' = [submit EXCEPT ![s].pc = "question"]
        BY <1>0, <4>2 DEF SubmitStates
      <4>3. CASE \E q \in Questions :
               submit' = [submit EXCEPT ![s].pc = "check", ![s].q = q, ![s].index = index]
        BY <1>0, <4>3 DEF SubmitStates
      <4> QED BY <3>1, <4>1, <4>2, <4>3
    <3> QED BY <3>2, <3>3
  <2> QED BY <1>0, <1>1, <2>1, <2>2 DEF CreditInv, Earned
<1>3. CASE SubmitQuestion(s)
  <2>1. UNCHANGED <<verdict, score>>
    BY <1>3 DEF SubmitQuestion
  <2>2. \A r \in Sockets : submit'[r].pc = "commit" =>
           \/ submit[r].pc = "commit" /\ submit'[r].score = submit[r].score
           \/ submit'[r].score = score[Owner[r]]
    <3>1. \/ submit' = [submit EXCEPT ![s] = Resting]
          \/ \E right \in BOOLEAN :
                submit' = [submit EXCEPT ![s].pc = "commit", ![s].right = right,
                                         ![s].score = score[Owner[s]]]
      BY <1>3 DEF SubmitQuestion
    <3>2. \A r \in Sockets : r # s => submit'[r] = submit[r]
      BY <1>0, <3>1
    <3>3. \/ submit'[s].pc # "commit"
          \/ submit'[s].score = score[Owner[s]]
      <4>1. CASE submit' = [submit EXCEPT ![s] = Resting]
        BY <1>0, <4>1 DEF Resting
      <4>2. CASE \E right \in BOOLEAN :
               submit' = [submit EXCEPT ![s].pc = "commit", ![s].right = right,
                                        ![s].score = score[Owner[s]]]
        BY <1>0, <4>2 DEF SubmitStates
      <4> QED BY <3>1, <4>1, <4>2
    <3> QED BY <3>2, <3>3
  <2> QED BY <1>0, <1>1, <2>1, <2>2 DEF CreditInv, Earned
<1>4. CASE SubmitCommit(s)
  <2> DEFINE p == Owner[s]
             q == submit[s].q
  <2>1. submit[s].pc = "commit" /\ p \in Players /\ Earned(submit[s].score, p)
    BY <1>0, <1>4 DEF SubmitCommit
  <2>2. \A r \in Sockets : submit'[r].pc = "commit" =>
           submit[r].pc = "commit" /\ submit'[r].score = submit[r].score
    <3>1. \/ submit' = [submit EXCEPT ![s] = Resting]
          \/ submit' = [submit EXCEPT ![s] = [submit[s] EXCEPT !.pc = "mark",
                                                              !.score = NoPoints]]
      BY <1>4 DEF SubmitCommit
    <3>2. \A r \in Sockets : r # s => submit'[r] = submit[r]
      BY <1>0, <3>1
    <3>3. submit'[s].pc # "commit"
      <4>1. CASE submit' = [submit EXCEPT ![s] = Resting]
        BY <1>0, <4>1 DEF Resting
      <4>2. CASE submit' = [submit EXCEPT ![s] = [submit[s] EXCEPT !.pc = "mark",
                                                             !.score = NoPoints]]
        BY <1>0, <4>2 DEF SubmitStates
      <4> QED BY <3>1, <4>1, <4>2
    <3> QED BY <3>2, <3>3
  <2>3. CASE UNCHANGED <<verdict, score>>
    BY <1>0, <1>1, <2>2, <2>3 DEF CreditInv, Earned
  <2>4. CASE ~ UNCHANGED <<verdict, score>>
    <3>1. /\ verdict[p][q] = "none" /\ q \in Bank
          /\ verdict' = [verdict EXCEPT ![p][q] = IF submit[s].right THEN "right" ELSE "wrong"]
          /\ score' = IF submit[s].right
                      THEN [score EXCEPT ![p] = [submit[s].score EXCEPT ![q] = @ + 1]]
                      ELSE score
      BY <1>4, <2>4 DEF SubmitCommit
    <3>2. q \in Questions /\ q \in ToCome
      BY <1>0, <3>1, BankType, BankToCome
    <3>3. /\ verdict \in [Players -> [Questions -> Verdicts]]
          /\ score \in [Players -> [Questions -> Nat]]
          /\ submit[s].score \in [Questions -> Nat]
      BY <1>0 DEF AnswersTypeOK, SubmitStates
    <3> HIDE DEF p, q
    <3>4. submit[s].score[q] = 0
      BY <2>1, <3>1, <3>2 DEF Earned
    <3>5. \A x \in Players, y \in Questions :
             verdict[x][y] = "right" => verdict'[x][y] = "right"
      BY <3>1, <3>3
    <3>6. Earned(score[p], p)'
      <4>1. CASE submit[s].right
        <5>1. score'[p] = [submit[s].score EXCEPT ![q] = 1] /\ verdict'[p][q] = "right"
          BY <2>1, <3>1, <3>2, <3>3, <3>4, <4>1
        <5> QED BY <1>1, <2>1, <3>2, <3>3, <3>5, <5>1 DEF Earned
      <4>2. CASE ~ submit[s].right
        BY <1>0, <1>1, <2>1, <3>1, <3>5, <4>2 DEF Earned
      <4> QED BY <4>1, <4>2
    <3>7. ASSUME NEW x \in Players, x # p PROVE Earned(score[x], x)'
      <4>1. score'[x] = score[x] BY <3>1, <3>3, <3>7
      <4> QED BY <1>0, <1>1, <3>5, <4>1 DEF Earned
    <3>8. ASSUME NEW r \in Sockets, submit'[r].pc = "commit"
          PROVE  Earned(submit[r].score, Owner[r])'
      BY <1>0, <1>1, <2>2, <3>5, <3>8 DEF Earned
    <3> QED BY <3>6, <3>7, <3>8 DEF CreditInv
  <2> QED BY <2>3, <2>4
<1> QED BY <1>2, <1>3, <1>4 DEF SubmitStep

\* An edit withdraws recorded answers, but of questions that never come back.
LEMMA DisruptionEarned ==
  ASSUME CreditInv, AnswersTypeOK',
         AnsweredExpire \/ SubmitRaises \/ CrashAll \/ EditCascade \/ DeleteCascade
  PROVE  CreditInv'
<1>0. /\ \A p \in Players : Earned(score[p], p)
      /\ \A r \in Sockets : submit[r].pc = "commit" => Earned(submit[r].score, Owner[r])
      /\ Owner \in [Sockets -> Players]
      /\ edition \in DOMAIN Editions
  BY OwnerAssumption DEF CreditInv, AnswersTypeOK, TypeOK
<1>1. CASE AnsweredExpire \/ SubmitRaises \/ CrashAll
  <2>1. UNCHANGED <<status, edition, verdict, score>>
    BY <1>1 DEF AnsweredExpire, SubmitRaises, CrashAll, KeysExpire, Crash
  <2>2. ToCome' = ToCome BY <2>1 DEF ToCome
  <2>3. \A r \in Sockets : submit'[r].pc = "commit" =>
           submit[r].pc = "commit" /\ submit'[r].score = submit[r].score
    BY <1>1 DEF AnsweredExpire, SubmitRaises, CrashAll, Resting, CreditInv, AnswersTypeOK
  <2> QED BY <1>0, <2>1, <2>2, <2>3 DEF CreditInv, Earned
<1>2. CASE EditCascade
  <2>1. UNCHANGED <<status, score, submit>> /\ edition' = edition + 1 /\ status # "gone"
    BY <1>2 DEF EditCascade, EditQuiz
  <2>2. ToCome' \subseteq ToCome /\ ToCome' \cap Bank = {}
    BY <1>0, <1>2, EditsWithdraw DEF EditCascade
  <2>3. \A p \in Players, q \in Questions :
           q \in ToCome' => verdict'[p][q] = verdict[p][q]
    BY <1>2, <2>2 DEF EditCascade
  <2> QED BY <1>0, <2>1, <2>2, <2>3 DEF CreditInv, Earned
<1>3. CASE DeleteCascade
  <2>1. ToCome' = {} BY <1>3 DEF DeleteCascade, DeleteQuiz, ToCome
  <2>2. score' = [p \in Players |-> NoPoints] /\ submit' = submit
    BY <1>3 DEF DeleteCascade
  <2> QED BY <1>0, <2>1, <2>2 DEF CreditInv, Earned, NoPoints
<1> QED BY <1>1, <1>2, <1>3

\* No question's points enter a score twice or without a right answer: the
\* unique key holds for any sockets, crashes, expired keys and quiz edits.
THEOREM NoDoubleCreditHolds == Spec => []NoDoubleCredit
<1>1. Init /\ AnswersTypeOK => CreditInv
  BY OwnerAssumption DEF Init, CreditInv, Earned, NoPoints, Resting
<1>2. CreditInv /\ AnswersTypeOK' /\ [Next]_vars => CreditInv'
  <2> SUFFICES ASSUME CreditInv, AnswersTypeOK', [Next]_vars PROVE CreditInv'
    OBVIOUS
  <2>0. /\ \A p \in Players : Earned(score[p], p)
        /\ \A r \in Sockets : submit[r].pc = "commit" => Earned(submit[r].score, Owner[r])
        /\ Owner \in [Sockets -> Players] /\ TypeOK
    BY OwnerAssumption DEF CreditInv, AnswersTypeOK
  <2>1. CASE UNCHANGED answerVars /\ edition' = edition /\ (status = "gone" => status' = "gone")
    <3>1. ToCome' \subseteq ToCome BY <2>1 DEF ToCome
    <3> QED BY <2>0, <2>1, <3>1 DEF CreditInv, Earned, answerVars
  <2>2. CASE UNCHANGED vars
    BY <2>1, <2>2 DEF vars, roomVars
  <2>3. CASE Handlers /\ UNCHANGED answerVars
    BY <2>0, <2>1, <2>3, HandlersKeepQuiz
  <2>4. CASE CallRaises /\ UNCHANGED answerVars
    BY <2>1, <2>4 DEF CallRaises
  <2> QED BY <2>2, <2>3, <2>4, SubmitStepEarned, DisruptionEarned DEF Next
<1>3. CreditInv => NoDoubleCredit
  <2> SUFFICES ASSUME CreditInv, NEW p \in Players, NEW q \in Questions
               PROVE  score[p][q] <= 1 /\ (score[p][q] = 1 /\ q \in Bank => verdict[p][q] = "right")
    BY DEF NoDoubleCredit
  <2>1. Earned(score[p], p) /\ Bank \subseteq ToCome
    BY BankToCome DEF CreditInv, AnswersTypeOK, TypeOK
  <2> QED BY <2>1 DEF Earned
<1> QED BY <1>1, <1>2, <1>3, TypeCorrect, PTL DEF Spec

-----------------------------------------------------------------------------
(* Answering implements the ledger.                                        *)

\* Every player has one socket at most.
OneSocket == \A r, s \in Sockets : Owner[r] = Owner[s] => r = s

\* The score a submission is about to add to is the score its player has, as nobody
\* else writes it but the deletion of the room, after which nothing is committed.
LedgerInv ==
    /\ AnswersTypeOK
    /\ \A s \in Sockets :
        submit[s].pc = "commit" /\ status # "gone" => submit[s].score = score[Owner[s]]

\* No handler deletes the room or edits its quiz.
LEMMA HandlersKeepWithdrawn ==
  ASSUME Handlers \/ CallRaises \/ KeysExpire \/ Crash
  PROVE  /\ status = "gone" <=> status' = "gone"
         /\ edition' = edition /\ Bank' = Bank /\ Withdrawn' = Withdrawn
<1> DEFINE Kept == edition' = edition /\ (status = "gone" <=> status' = "gone")
<1>1. ASSUME NEW h \in Hosts, HostMessage(h) \/ HostStep(h) PROVE Kept
  <2>1. CASE UNCHANGED <<status, edition>> BY <2>1
  <2>2. CASE \/ StartCommit(h) \/ NextReveal(h) \/ AdvanceClose(h)
             \/ AdvanceOpen(h) \/ EndCommit(h)
    BY <2>2 DEF StartCommit, NextReveal, AdvanceClose, AdvanceOpen, EndCommit, Write
  <2> QED
    BY <1>1, <2>1, <2>2 DEF HostMessage, HostStep, StartRead, NextRead, StartOrder,
       Countdown, NextRefresh, NextBoard, NextCast, AdvanceRead, AdvanceStartKey,
       SendQuestion, EndRead, EndBoard, EndCast, HostGone
<1>2. ASSUME NEW t \in Timers, TimerStep(t) PROVE Kept
  BY <1>2 DEF TimerStep, TimeoutRead, TimeoutReveal, TimeoutQuestion, TimeoutBoard,
     TimeoutCast, TimeoutGone
<1>3. ASSUME CallRaises \/ KeysExpire \/ Crash PROVE Kept
  BY <1>3 DEF CallRaises, KeysExpire, Crash
<1>4. Kept BY <1>1, <1>2, <1>3 DEF Handlers
<1> QED BY <1>4 DEF Bank, Withdrawn

\* The questions of the present edition were not withdrawn.
LEMMA BankNotWithdrawn ==
  ASSUME edition \in DOMAIN Editions, NEW q \in Bank
  PROVE  q \notin Withdrawn
<1>1. DOMAIN Editions = 1..Len(Editions) /\ Len(Editions) \in Nat
  BY EditionsAssumption
<1>2. PICK i \in DOMAIN Editions[edition] : q = Editions[edition][i] /\ status # "gone"
  BY DEF Bank
<1>3. ASSUME NEW e \in 1..(edition - 1), NEW j \in DOMAIN Editions[e]
      PROVE  Editions[e][j] # q
  <2>1. e \in DOMAIN Editions /\ e # edition BY <1>1, <1>3
  <2> QED BY <1>2, <1>3, <2>1, FreshIdsAssumption
<1> QED BY <1>2, <1>3 DEF Withdrawn

\* A step of submit_answer records and credits an answer at once, or does neither.
LEMMA SubmitStepRecords ==
  ASSUME OneSocket, LedgerInv, AnswersTypeOK', NEW s \in Sockets, SubmitStep(s)
  PROVE  LedgerInv' /\ [Ledger!Next]_Ledger!vars
<1> DEFINE p == Owner[s]
           q == submit[s].q
<1>0. /\ submit \in [Sockets -> SubmitStates] /\ p \in Players
      /\ score \in [Players -> [Questions -> Nat]]
      /\ verdict \in [Players -> [Questions -> Verdicts]]
      /\ Owner \in [Sockets -> Players] /\ edition \in DOMAIN Editions
      /\ \A r \in Sockets :
            submit[r].pc = "commit" /\ status # "gone" => submit[r].score = score[Owner[r]]
  BY OwnerAssumption DEF LedgerInv, AnswersTypeOK, TypeOK
<1>1. UNCHANGED <<status, edition>> /\ Withdrawn' = Withdrawn
  BY DEF SubmitStep, SubmitRead, SubmitCheck, SubmitQuestion, SubmitCommit, SubmitMark,
         roomVars, Withdrawn
<1>2. CASE UNCHANGED <<verdict, score>>
  <2>1. [Ledger!Next]_Ledger!vars BY <1>1, <1>2 DEF Ledger!vars
  <2>2. ASSUME NEW r \in Sockets, submit'[r].pc = "commit"
        PROVE  submit'[r].score = score[Owner[r]] \/ submit'[r] = submit[r]
    <3>1. CASE r # s
      BY <1>0, <3>1 DEF SubmitStep, SubmitRead, SubmitCheck, SubmitQuestion, SubmitCommit,
                        SubmitMark
    <3>2. CASE r = s
      <4>1. CASE SubmitQuestion(s)
        <5>1. \/ submit' = [submit EXCEPT ![s] = Resting]
              \/ \E right \in BOOLEAN :
                    submit' = [submit EXCEPT ![s].pc = "commit", ![s].right = right,
                                             ![s].score = score[p]]
          BY <4>1 DEF SubmitQuestion
        <5>2. submit'[s] = Resting \/ submit'[s].score = score[p]
          <6>1. CASE submit' = [submit EXCEPT ![s] = Resting] BY <1>0, <6>1
          <6>2. ASSUME NEW right \in BOOLEAN,
                       submit' = [submit EXCEPT ![s].pc = "commit", ![s].right = right,
                                                ![s].score = score[p]]
                PROVE  submit'[s].score = score[p]
            BY <1>0, <6>2 DEF SubmitStates
          <6> QED BY <5>1, <6>1, <6>2
        <5> QED BY <2>2, <3>2, <5>2 DEF Resting
      <4>2. CASE ~ SubmitQuestion(s)
        <5>1. \/ submit' = [submit EXCEPT ![s] = Resting]
              \/ submit' = [submit EXCEPT ![s].pc = "question"]
              \/ submit' = [submit EXCEPT ![s] = [submit[s] EXCEPT !.pc = "mark",
                                                                  !.score = NoPoints]]
              \/ \E new \in Questions :
                    submit' = [submit EXCEPT ![s].pc = "check", ![s].q = new,
                                             ![s].index = index]
          <6>1. CASE SubmitRead(s) BY <6>1 DEF SubmitRead
          <6>2. CASE SubmitCheck(s) BY <6>2 DEF SubmitCheck
          <6>3. CASE SubmitMark(s) BY <6>3 DEF SubmitMark
          <6>4. CASE SubmitCommit(s) BY <6>4 DEF SubmitCommit
          <6> QED BY <4>2, <6>1, <6>2, <6>3, <6>4 DEF SubmitStep
        <5>2. Resting.pc = "idle" BY DEF Resting
        <5>3. CASE submit' = [submit EXCEPT ![s] = Resting]
          BY <1>0, <2>2, <3>2, <5>2, <5>3
        <5>4. CASE submit' = [submit EXCEPT ![s].pc = "question"]
          BY <1>0, <2>2, <3>2, <5>4 DEF SubmitStates
        <5>5. CASE submit' = [submit EXCEPT ![s] = [submit[s] EXCEPT !.pc = "mark",
                                                                  !.score = NoPoints]]
          BY <1>0, <2>2, <3>2, <5>5 DEF SubmitStates
        <5>6. CASE \E new \in Questions :
                submit' = [submit EXCEPT ![s].pc = "check", ![s].q = new, ![s].index = index]
          BY <1>0, <2>2, <3>2, <5>6 DEF SubmitStates
        <5> QED BY <5>1, <5>3, <5>4, <5>5, <5>6
      <4> QED BY <4>1, <4>2
    <3> QED BY <3>1, <3>2
  <2>3. LedgerInv' BY <1>0, <1>1, <1>2, <2>2 DEF LedgerInv
  <2> QED BY <2>1, <2>3
<1>3. CASE ~ UNCHANGED <<verdict, score>>
  <2> DEFINE v == IF submit[s].right THEN "right" ELSE "wrong"
  <2>1. /\ submit[s].pc = "commit" /\ verdict[p][q] = "none" /\ q \in Bank
        /\ verdict' = [verdict EXCEPT ![p][q] = v]
        /\ score' = IF submit[s].right
                    THEN [score EXCEPT ![p] = [submit[s].score EXCEPT ![q] = @ + 1]]
                    ELSE score
        /\ submit' = [submit EXCEPT ![s] = [submit[s] EXCEPT !.pc = "mark",
                                                            !.score = NoPoints]]
    BY <1>3 DEF SubmitStep, SubmitRead, SubmitCheck, SubmitQuestion, SubmitCommit, SubmitMark
  <2>2. q \in Questions /\ q \notin Withdrawn /\ status # "gone"
    BY <1>0, <2>1, BankType, BankNotWithdrawn DEF Bank
  <2>3. submit[s].score = score[p] BY <1>0, <2>1, <2>2
  <2>4. v \in {"right", "wrong"} /\ (v = "right" <=> submit[s].right)
    BY <1>0 DEF SubmitStates
  <2>5. submit'[s].pc = "mark" /\ \A r \in Sockets : r # s => submit'[r] = submit[r]
    BY <1>0, <2>1 DEF SubmitStates
  <2> HIDE DEF p, q, v
  <2>6. score' = IF v = "right" THEN [score EXCEPT ![p][q] = score[p][q] + 1] ELSE score
    BY <1>0, <2>1, <2>2, <2>3, <2>4
  <2>7. Ledger!Record(p, q, v)
    BY <1>1, <2>1, <2>2, <2>6 DEF Ledger!Record
  <2>8. [Ledger!Next]_Ledger!vars
    BY <1>0, <2>2, <2>4, <2>7 DEF Ledger!Next
  <2>9. \A x \in Players : x # p => score'[x] = score[x]
    BY <1>0, <2>6
  <2>10. LedgerInv'
    BY <1>0, <1>1, <2>5, <2>9 DEF LedgerInv, OneSocket, p
  <2> QED BY <2>8, <2>10
<1> QED BY <1>2, <1>3

\* Deleted questions take their answers along, a deleted room its points as well.
LEMMA DisruptionWithdraws ==
  ASSUME LedgerInv, AnswersTypeOK',
         AnsweredExpire \/ SubmitRaises \/ CrashAll \/ EditCascade \/ DeleteCascade
  PROVE  LedgerInv' /\ [Ledger!Next]_Ledger!vars
<1>0. /\ edition \in DOMAIN Editions /\ submit \in [Sockets -> SubmitStates]
      /\ \A r \in Sockets :
            submit[r].pc = "commit" /\ status # "gone" => submit[r].score = score[Owner[r]]
  BY DEF LedgerInv, AnswersTypeOK, TypeOK
<1>1. CASE AnsweredExpire \/ SubmitRaises \/ CrashAll
  <2>1. UNCHANGED <<status, edition, verdict, score>>
    BY <1>1 DEF AnsweredExpire, SubmitRaises, CrashAll, KeysExpire, Crash
  <2>2. [Ledger!Next]_Ledger!vars BY <2>1 DEF Ledger!vars, Withdrawn
  <2>3. \A r \in Sockets : submit'[r] = submit[r] \/ submit'[r] = Resting
    BY <1>0, <1>1 DEF AnsweredExpire, SubmitRaises, CrashAll
  <2>4. LedgerInv' BY <1>0, <2>1, <2>3 DEF LedgerInv, Resting
  <2> QED BY <2>2, <2>4
<1>2. CASE EditCascade
  <2>1. /\ UNCHANGED <<status, score, submit>> /\ status # "gone" /\ edition' = edition + 1
        /\ verdict' = [x \in Players |-> [y \in Questions |->
                         IF y \in Bank THEN "none" ELSE verdict[x][y]]]
    BY <1>2 DEF EditCascade, EditQuiz
  <2>2. edition \in Nat \ {0} BY <1>0, EditionsAssumption
  <2>3. Withdrawn' = Withdrawn \cup Bank
    <3>1. 1..(edition' - 1) = (1..(edition - 1)) \cup {edition} BY <2>1, <2>2
    <3> QED BY <2>1, <3>1 DEF Withdrawn, Bank
  <2>4. Bank \in SUBSET Questions BY <1>0, BankType
  <2>5. Ledger!Withdraw(Bank) BY <2>1, <2>3 DEF Ledger!Withdraw
  <2>6. [Ledger!Next]_Ledger!vars BY <2>4, <2>5 DEF Ledger!Next
  <2>7. LedgerInv' BY <1>0, <2>1 DEF LedgerInv
  <2> QED BY <2>6, <2>7
<1>3. CASE DeleteCascade
  <2>1. status' = "gone" BY <1>3 DEF DeleteCascade, DeleteQuiz
  <2>2. Ledger!Clear
    BY <1>3, <2>1 DEF DeleteCascade, Ledger!Clear, Ledger!Unanswered, Ledger!Nothing,
                      Withdrawn, NoPoints
  <2> QED BY <2>1, <2>2 DEF LedgerInv, Ledger!Next
<1> QED BY <1>1, <1>2, <1>3

\* Every step keeps what submissions are about to add to, and is one of the ledger.
LEMMA LedgerStep ==
  ASSUME OneSocket, LedgerInv, AnswersTypeOK', [Next]_vars
  PROVE  LedgerInv' /\ [Ledger!Next]_Ledger!vars
<1>1. ASSUME UNCHANGED answerVars, status = "gone" <=> status' = "gone",
             Withdrawn' = Withdrawn
      PROVE  LedgerInv' /\ [Ledger!Next]_Ledger!vars
  BY <1>1 DEF LedgerInv, answerVars, Ledger!vars
<1>2. CASE UNCHANGED vars
  BY <1>1, <1>2 DEF vars, roomVars, Withdrawn
<1>3. CASE (Handlers \/ CallRaises) /\ UNCHANGED answerVars
  BY <1>1, <1>3, HandlersKeepWithdrawn
<1> QED BY <1>2, <1>3, SubmitStepRecords, DisruptionWithdraws DEF Next

\* GameAnswers implements AnswerLedger: with one socket per player every answer is
\* recorded once and credited in the same step, and no update of a score is lost,
\* whatever the hosts, the timers and the disruptions do.
THEOREM LedgerImplemented ==
  ASSUME OneSocket
  PROVE  Spec => ImplementsLedger
<1>1. Init /\ AnswersTypeOK => LedgerInv /\ Ledger!Init
  <2> SUFFICES ASSUME Init, AnswersTypeOK PROVE LedgerInv /\ Ledger!Init
    OBVIOUS
  <2>1. LedgerInv BY DEF Init, LedgerInv, Resting
  <2>2. Withdrawn = {} BY DEF Init, RoomInit, Withdrawn
  <2> QED BY <2>1, <2>2 DEF Init, Ledger!Init, Ledger!Unanswered, Ledger!Nothing, NoPoints
<1>2. LedgerInv /\ AnswersTypeOK' /\ [Next]_vars => LedgerInv' /\ [Ledger!Next]_Ledger!vars
  BY LedgerStep
<1> QED BY <1>1, <1>2, TypeCorrect, PTL DEF Spec, ImplementsLedger, Ledger!Spec

=============================================================================
