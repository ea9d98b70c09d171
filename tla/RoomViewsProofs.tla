-------------------------- MODULE RoomViewsProofs ---------------------------
(***************************************************************************)
(* Type correctness of RoomViews, and that with one host socket no         *)
(* ROOM_STATE carries the correct answers of a question that runs, however *)
(* many sockets connect and however the room moves on while each is served.*)
(* With one socket per player as well, the host is told of every answer to *)
(* the running question, with its points, whenever it connects.            *)
(***************************************************************************)
EXTENDS RoomViews, GameRoomProofs

USE DEF row, keys, history

\* Steps of RoomViews that are no steps of GameAnswers: a ranking that is stored, a
\* call that raises in a handler GameAnswers does not have.
Aside ==
    /\ UNCHANGED <<row, order, startKey, host, timer, history, answerVars>>
    /\ ranking' \in {ranking, index}
    /\ disrupted' = disrupted \/ (disrupted < MaxDisruptions /\ disrupted' = disrupted + 1)

\* Beneath the views, the room and its answers take a step of their own, or none.
LEMMA Beneath == ViewsNext => [Next]_vars \/ Aside
<1> SUFFICES ASSUME ViewsNext PROVE [Next]_vars \/ Aside
  OBVIOUS
<1>1. CASE AnswersNext
  <2>1. Next BY <1>1 DEF AnswersNext, Next, SubmitStep
  <2> QED BY <2>1
<1>2. ASSUME NEW s \in Sockets,
             SubmitNext(s) \/ SubmitReturns(s) \/ UpdateRead(s) \/ UpdateSend(s)
      PROVE  [Next]_vars
  BY <1>2 DEF SubmitNext, SubmitReturns, UpdateRead, UpdateSend, Next, SubmitStep
<1>3. ASSUME NEW v \in Viewers, ViewStep(v) PROVE [Next]_vars \/ Aside
  <2>1. Ranks => Aside BY DEF Ranks, Aside
  <2>2. CASE StateSend(v) BY <2>1, <2>2 DEF StateSend
  <2>3. CASE SendResults(v) BY <2>1, <2>3 DEF SendResults
  <2>4. CASE Connect(v) \/ StateRoom(v) \/ StateQuestion(v) \/ StateDetails(v)
    BY <2>4 DEF Connect, StateRoom, StateQuestion, StateDetails
  <2> QED BY <1>3, <2>2, <2>3, <2>4 DEF ViewStep
<1>4. CASE ViewsCrash \/ SubmitFails
  BY <1>4 DEF ViewsCrash, SubmitFails, Next
<1>5. CASE UpdateFails \/ ViewFails
  BY <1>5 DEF UpdateFails, ViewFails, Disrupt, Aside
<1>6. CASE HostLeaves
  BY <1>6 DEF HostLeaves
<1> QED BY <1>1, <1>2, <1>3, <1>4, <1>5, <1>6 DEF ViewsNext

LEMMA AsideTypeOK ==
  ASSUME AnswersTypeOK, Aside
  PROVE  AnswersTypeOK'
<1>1. disrupted' \in 0..MaxDisruptions
  BY ChoicesAssumption DEF Aside, AnswersTypeOK, TypeOK
<1>2. ranking' \in Nat BY DEF Aside, AnswersTypeOK, TypeOK
<1>3. TypeOK' BY <1>1, <1>2 DEF Aside, AnswersTypeOK, TypeOK, Carried
<1> QED BY <1>3 DEF Aside, answerVars, AnswersTypeOK

-----------------------------------------------------------------------------
(* Type correctness.                                                       *)

\* The names of the steps, one by one, and the records at rest.
LEMMA ViewNames ==
  /\ "idle" \in ViewSteps /\ "room" \in ViewSteps /\ "question" \in ViewSteps
  /\ "details" \in ViewSteps /\ "send" \in ViewSteps /\ "results" \in ViewSteps
  /\ "idle" \in UpdateSteps /\ "read" \in UpdateSteps /\ "send" \in UpdateSteps
  /\ NoView \in ViewStates /\ NoUpdate \in UpdateStates
  BY DEF ViewSteps, UpdateSteps, NoView, NoUpdate, ViewStates, UpdateStates, NoPoints

\* What a socket that is being connected is known to hold.
ViewSound(v) ==
    /\ view[v].ended => view[v].q # 0
    /\ view[v].pc = "details" => view[v].forHost /\ view[v].q # 0

ViewsSound == view \in [Viewers -> ViewStates] /\ \A v \in Viewers : ViewSound(v)

\* A record of its own for one of them.
LEMMA ViewUpdated ==
  ASSUME ViewsSound, NEW v \in Viewers, NEW new \in ViewStates,
         view' = [view EXCEPT ![v] = new],
         new.ended => new.q # 0, new.pc = "details" => new.forHost /\ new.q # 0
  PROVE  ViewsSound'
<1>1. view' \in [Viewers -> ViewStates] BY DEF ViewsSound
<1>2. view'[v] = new /\ \A w \in Viewers : w # v => view'[w] = view[w] BY DEF ViewsSound
<1> QED BY <1>1, <1>2 DEF ViewsSound, ViewSound

LEMMA ViewStepSound ==
  ASSUME ViewsSound, AnswersTypeOK, NEW v \in Viewers, ViewStep(v)
  PROVE  ViewsSound'
<1>0. /\ view[v] \in ViewStates /\ ViewSound(v) /\ view \in [Viewers -> ViewStates]
      /\ CurrentQuestion \in Questions \cup {0}
      /\ score \in [Players -> [Questions -> Nat]]
  BY CurrentQuestionType DEF ViewsSound, AnswersTypeOK
<1>1. CASE Connect(v)
  <2>1. PICK forHost \in BOOLEAN :
           view' = [view EXCEPT ![v] = [NoView EXCEPT !.pc = "room", !.forHost = forHost,
                                                      !.over = (status = "finished")]]
    BY <1>1 DEF Connect
  <2> DEFINE new == [NoView EXCEPT !.pc = "room", !.forHost = forHost,
                                   !.over = (status = "finished")]
  <2>2. new \in ViewStates /\ ~ new.ended /\ new.pc = "room"
    BY ViewNames DEF NoView, ViewStates
  <2> HIDE DEF new
  <2>3. view' = [view EXCEPT ![v] = new] BY <2>1 DEF new
  <2> QED BY <2>2, <2>3, ViewUpdated
<1>2. CASE StateRoom(v)
  <2>1. CASE view' = [view EXCEPT ![v] = NoView]
    BY <2>1, ViewNames, ViewUpdated DEF NoView
  <2>2. ASSUME NEW step \in {"question", "send"}, view' = [view EXCEPT ![v].pc = step]
        PROVE  ViewsSound'
    <3> DEFINE new == [view[v] EXCEPT !.pc = step]
    <3>1. new \in ViewStates /\ new.pc = step /\ new.ended = view[v].ended /\ new.q = view[v].q
      BY <1>0, ViewNames DEF ViewStates
    <3>2. view' = [view EXCEPT ![v] = new] BY <2>2
    <3> HIDE DEF new
    <3> QED BY <1>0, <3>1, <3>2, ViewUpdated DEF ViewSound
  <2> QED BY <1>2, <2>1, <2>2 DEF StateRoom
<1>3. CASE StateQuestion(v)
  <2> DEFINE q == CurrentQuestion
             new == [view[v] EXCEPT !.q = q, !.ended = (q # 0 /\ status = "revealing"),
                       !.scores = IF view[v].forHost /\ q # 0 THEN score ELSE @,
                       !.pc = IF q # 0 /\ view[v].forHost THEN "details" ELSE "send"]
  <2>1. view' = [view EXCEPT ![v] = new] BY <1>3 DEF StateQuestion
  <2> HIDE DEF q
  <2>2. new \in ViewStates BY <1>0, ViewNames DEF ViewStates, q
  <2>3. /\ new.ended => new.q # 0
        /\ new.pc = "details" => new.forHost /\ new.q # 0
    BY <1>0 DEF ViewStates
  <2> HIDE DEF new
  <2> QED BY <2>1, <2>2, <2>3, ViewUpdated
<1>4. CASE StateDetails(v)
  <2> DEFINE told == {<<p, view[v].q, view[v].scores[p][view[v].q] > 0>> :
                        p \in {r \in Players : verdict[r][view[v].q] # "none"}}
             new == [view[v] EXCEPT !.told = told, !.scores = NoView.scores, !.pc = "send"]
  <2>1. view' = [view EXCEPT ![v] = new] BY <1>4 DEF StateDetails
  <2>2. view[v].q \in Questions
    BY <1>0, <1>4 DEF StateDetails, ViewSound, ViewStates
  <2>3. told \in SUBSET Tellings
    <3> SUFFICES ASSUME NEW p \in Players
                 PROVE  <<p, view[v].q, view[v].scores[p][view[v].q] > 0>> \in Tellings
      OBVIOUS
    <3> DEFINE scored == view[v].scores[p][view[v].q] > 0
    <3>1. scored \in BOOLEAN OBVIOUS
    <3> HIDE DEF scored
    <3>2. <<p, view[v].q, scored>> \in Tellings BY <2>2, <3>1 DEF Tellings
    <3> QED BY <3>2 DEF scored
  <2>4. NoView.scores \in [Players -> [Questions -> Nat]] BY ViewNames DEF ViewStates
  <2> HIDE DEF told
  <2>5. new \in ViewStates BY <1>0, <2>3, <2>4, ViewNames DEF ViewStates
  <2>6. new.pc = "send" /\ new.ended = view[v].ended /\ new.q = view[v].q
    BY <1>0 DEF ViewStates
  <2> HIDE DEF new
  <2> QED BY <1>0, <2>1, <2>5, <2>6, ViewUpdated DEF ViewSound
<1>5. CASE StateSend(v)
  <2> DEFINE new == [NoView EXCEPT !.pc = IF view[v].over THEN "results" ELSE "idle",
                                   !.forHost = view[v].over /\ view[v].forHost]
  <2>1. view' = [view EXCEPT ![v] = new] BY <1>5 DEF StateSend
  <2>2. new \in ViewStates BY <1>0, ViewNames DEF ViewStates, NoView
  <2>3. ~ new.ended /\ new.pc # "details" BY DEF NoView
  <2> HIDE DEF new
  <2> QED BY <2>1, <2>2, <2>3, ViewUpdated
<1>6. CASE SendResults(v)
  <2>1. view' = [view EXCEPT ![v] = NoView] BY <1>6 DEF SendResults
  <2> QED BY <2>1, ViewNames, ViewUpdated DEF NoView
<1> QED BY <1>1, <1>2, <1>3, <1>4, <1>5, <1>6 DEF ViewStep

\* Steps of the views that connect no socket: it is dropped at most.
LEMMA StepViewsSound ==
  ASSUME ViewsSound, AnswersTypeOK, [ViewsNext]_viewsVars
  PROVE  ViewsSound'
<1>1. ASSUME NEW v \in Viewers, ViewStep(v) PROVE ViewsSound'
  BY <1>1, ViewStepSound
<1>2. CASE ViewsCrash
  BY <1>2, ViewNames DEF ViewsCrash, ViewsSound, ViewSound, NoView
<1>3. CASE ViewFails
  <2>1. PICK v \in Viewers : view' = [view EXCEPT ![v] = NoView] BY <1>3 DEF ViewFails
  <2> QED BY <2>1, ViewNames, ViewUpdated DEF NoView
<1>4. ASSUME view' = view PROVE ViewsSound'
  BY <1>4 DEF ViewsSound, ViewSound
<1> QED
  BY <1>1, <1>2, <1>3, <1>4 DEF ViewsNext, viewVars, viewsVars, SubmitNext, SubmitReturns,
     UpdateRead, UpdateSend, SubmitFails, UpdateFails, HostLeaves

-----------------------------------------------------------------------------
(* The correct answers of the running question.                            *)

\* A question that was opened, and that does not run any more.
Past(q) == q \in opened /\ ~ (status = "question" /\ Slot /\ order.ids[index] = q)

HiddenInv ==
    /\ \A q \in disclosed : Past(q)
    /\ \A v \in Viewers : view[v].ended => Past(view[v].q)

\* A question runs only by being opened, or as it did before.
LEMMA RunsByOpening ==
  ASSUME OneHost, TurnInv, TypeOK', [RoomNext]_roomVars, status' = "question",
         \A h \in Hosts : ~ AdvanceOpen(h)
  PROVE  status = "question" /\ index' = index
BY DEF RoomNext, Handlers, HostMessage, HostStep, TimerStep, StartRead, NextRead,
   StartCommit, StartOrder, Countdown, NextRefresh, NextReveal, NextBoard, NextCast,
   AdvanceRead, AdvanceClose, AdvanceStartKey, SendQuestion, EndRead, EndCommit, EndBoard,
   EndCast, HostGone, TimeoutRead, TimeoutReveal, TimeoutQuestion, TimeoutBoard,
   TimeoutCast, TimeoutGone, KeysExpire, CallRaises, Crash, EditQuiz, DeleteQuiz, roomVars,
   Write

\* What does not run any more never runs again.
LEMMA PastKept ==
  ASSUME OneHost, TurnInv, TypeOK', [RoomNext]_roomVars, NEW q, Past(q)
  PROVE  Past(q)'
<1>1. opened \subseteq opened' /\ (index' = index /\ Slot' => Slot /\ order' = order)
  BY SlotKept
<1>2. ASSUME NEW h \in Hosts, AdvanceOpen(h) PROVE Past(q)'
  <2>0. HostInTurn(h) /\ TypeOK BY DEF TurnInv
  <2>1. index' = index + 1 /\ order' = order
    BY <1>2, <2>0 DEF AdvanceOpen, HostInTurn, Write, TypeOK
  <2>2. order.held => order.ids[index + 1] \notin opened
    BY <1>2, <2>0 DEF AdvanceOpen, HostInTurn
  <2> QED BY <1>1, <2>1, <2>2 DEF Past, Slot
<1>3. CASE \A h \in Hosts : ~ AdvanceOpen(h)
  BY <1>1, <1>3, RunsByOpening DEF Past
<1> QED BY <1>2, <1>3

LEMMA PastKeptBeneath ==
  ASSUME OneHost, TurnInv, TypeOK', [Next]_vars \/ Aside, NEW q, Past(q)
  PROVE  Past(q)'
<1>1. CASE UNCHANGED <<row, order, opened>>
  BY <1>1 DEF Past, Slot
<1>2. CASE [RoomNext]_roomVars
  BY <1>2, PastKept
<1>3. ASSUME [Next]_vars PROVE [RoomNext]_roomVars \/ UNCHANGED <<row, order, opened>>
  BY <1>3 DEF Next, vars, roomVars, RoomNext, SubmitStep, SubmitRead, SubmitCheck,
     SubmitQuestion, SubmitCommit, SubmitMark, AnsweredExpire, SubmitRaises, CrashAll,
     EditCascade, DeleteCascade
<1>4. Aside => UNCHANGED <<row, order, opened>> BY DEF Aside
<1> QED BY <1>1, <1>2, <1>3, <1>4

\* The room keeps its turn beneath the views.
LEMMA BeneathInTurn ==
  ASSUME OneHost, TurnInv, AnswersTypeOK, AnswersInTurn, [ViewsNext]_viewsVars
  PROVE  AnswersTypeOK' /\ TurnInv' /\ AnswersInTurn'
<1>1. [Next]_vars \/ Aside BY Beneath DEF viewsVars
<1>2. AnswersTypeOK' BY <1>1, StepTypeOK, AsideTypeOK
<1>3. CASE [Next]_vars BY <1>2, <1>3, StepInTurn
<1>4. CASE Aside
  <2>1. TypeOK' BY <1>2 DEF AnswersTypeOK
  <2>2. TurnInv' BY <1>4, <2>1, StutterInTurn DEF Aside
  <2>3. AnswersInTurn'
    BY <1>4 DEF Aside, answerVars, AnswersInTurn, AnswersOnlyToOpened, MarksInTurn,
       SubmitInTurn, Slot, ToCome
  <2> QED BY <1>2, <2>2, <2>3
<1> QED BY <1>1, <1>3, <1>4

\* What a ROOM_STATE has been found to disclose does not run any more.
LEMMA HiddenKept ==
  ASSUME OneHost, TurnInv, AnswersTypeOK', ViewsSound, HiddenInv, [ViewsNext]_viewsVars
  PROVE  HiddenInv'
<1>1. [Next]_vars \/ Aside BY Beneath DEF viewsVars
<1>2. \A q : Past(q) => Past(q)'
  BY <1>1, PastKeptBeneath DEF AnswersTypeOK
<1>3. disclosed' \subseteq disclosed \cup {view[v].q : v \in {w \in Viewers : view[w].ended}}
  <2>1. ASSUME NEW v \in Viewers, StateSend(v)
        PROVE  disclosed' = disclosed
               \/ (view[v].ended /\ disclosed' = disclosed \cup {view[v].q})
    BY <2>1 DEF StateSend
  <2>2. ASSUME NEW v \in Viewers, ViewStep(v), ~ StateSend(v) PROVE disclosed' = disclosed
    BY <2>2 DEF ViewStep, Connect, StateRoom, StateQuestion, StateDetails, SendResults
  <2>3. ASSUME \A v \in Viewers : ~ ViewStep(v) PROVE disclosed' = disclosed
    BY <2>3 DEF ViewsNext, viewVars, viewsVars, SubmitNext, SubmitReturns, UpdateRead,
       UpdateSend, SubmitFails, UpdateFails, ViewFails, ViewsCrash, HostLeaves
  <2> QED BY <2>1, <2>2, <2>3
<1>4. ASSUME NEW v \in Viewers, view'[v].ended
      PROVE  \/ view[v].ended /\ view'[v].q = view[v].q
             \/ Past(CurrentQuestion) /\ view'[v].q = CurrentQuestion
  <2>0. view \in [Viewers -> ViewStates] BY DEF ViewsSound
  <2>1. CASE view'[v] = view[v] BY <1>4, <2>1
  <2>2. CASE view'[v] # view[v]
    <3>1. ~ NoView.ended BY DEF NoView
    <3>2. ViewStep(v)
      <4>1. ~ (ViewsCrash \/ ViewFails)
        BY <1>4, <2>0, <2>2, <3>1 DEF ViewsCrash, ViewFails
      <4>2. PICK w \in Viewers : ViewStep(w)
        BY <2>2, <4>1 DEF ViewsNext, viewVars, viewsVars, SubmitNext, SubmitReturns,
           UpdateRead, UpdateSend, SubmitFails, UpdateFails, HostLeaves
      <4>3. w = v
        BY <2>0, <2>2, <4>2 DEF ViewStep, Connect, StateRoom, StateQuestion, StateDetails,
           StateSend, SendResults
      <4> QED BY <4>2, <4>3
    <3>3. CASE StateQuestion(v)
      <4>1. /\ view'[v].q = CurrentQuestion
            /\ CurrentQuestion # 0 /\ status = "revealing"
        BY <1>4, <2>0, <3>3 DEF StateQuestion, ViewStates
      <4>2. CurrentQuestion \in opened BY <4>1, CurrentIsOpened DEF TurnInv
      <4> QED BY <4>1, <4>2 DEF Past
    <3>4. CASE StateRoom(v) \/ StateDetails(v)
      <4>1. CASE StateRoom(v)
        <5>1. \/ view' = [view EXCEPT ![v] = NoView]
              \/ \E step \in {"question", "send"} : view' = [view EXCEPT ![v].pc = step]
          BY <4>1 DEF StateRoom
        <5> QED BY <1>4, <2>0, <3>1, <5>1 DEF ViewStates
      <4>2. CASE StateDetails(v)
        <5>1. PICK told, scores :
                 view' = [view EXCEPT ![v].told = told, ![v].scores = scores,
                                      ![v].pc = "send"]
          BY <4>2 DEF StateDetails
        <5> QED BY <1>4, <2>0, <5>1 DEF ViewStates
      <4> QED BY <3>4, <4>1, <4>2
    <3>5. CASE Connect(v) \/ StateSend(v) \/ SendResults(v)
      <4>1. CASE Connect(v)
        <5>1. PICK forHost \in BOOLEAN :
                 view' = [view EXCEPT ![v] = [NoView EXCEPT !.pc = "room",
                            !.forHost = forHost, !.over = (status = "finished")]]
          BY <4>1 DEF Connect
        <5> QED BY <1>4, <2>0, <5>1 DEF NoView
      <4>2. CASE StateSend(v)
        <5> DEFINE new == [NoView EXCEPT !.pc = IF view[v].over THEN "results" ELSE "idle",
                                         !.forHost = view[v].over /\ view[v].forHost]
        <5>1. ~ new.ended BY DEF NoView
        <5>2. view' = [view EXCEPT ![v] = new] BY <4>2 DEF StateSend
        <5> HIDE DEF new
        <5> QED BY <1>4, <2>0, <5>1, <5>2
      <4>3. CASE SendResults(v)
        BY <1>4, <2>0, <3>1, <4>3 DEF SendResults
      <4> QED BY <3>5, <4>1, <4>2, <4>3
    <3> QED BY <3>2, <3>3, <3>4, <3>5 DEF ViewStep
  <2> QED BY <2>1, <2>2
<1>5. ASSUME NEW v \in Viewers, view'[v].ended PROVE Past(view[v].q)'
  <2>1. PICK q : q = view'[v].q OBVIOUS
  <2>2. Past(q)' BY <1>2, <1>4, <1>5, <2>1 DEF HiddenInv
  <2> QED BY <2>1, <2>2 DEF Past
<1>6. ASSUME NEW q \in disclosed' PROVE Past(q)'
  BY <1>2, <1>3, <1>6 DEF HiddenInv
<1> QED BY <1>5, <1>6 DEF HiddenInv

-----------------------------------------------------------------------------
(* The remaining variables.                                                *)

\* A socket follows up one answer at a time, before it takes its next message.
FollowUp(s) == update[s].pc # "idle" => update[s].q # 0 /\ submit[s].pc = "idle"

RestTypeOK ==
    /\ update \in [Sockets -> UpdateStates] /\ \A s \in Sockets : FollowUp(s)
    /\ served \in BOOLEAN /\ former \in 0..MaxFormer
    /\ registered \in BOOLEAN /\ fed \subseteq Tellings
    /\ failed \subseteq Players \X Questions /\ disclosed \subseteq Questions

\* What is told of an answer names its player, its question and whether it scored.
LEMMA TellingsType ==
  ASSUME NEW p \in Players, NEW q \in Questions, NEW right \in BOOLEAN
  PROVE  <<p, q, right>> \in Tellings /\ <<p, q>> \in Players \X Questions
BY DEF Tellings

\* A submission moves on, or comes to rest; a socket at rest stays so but for a message.
LEMMA RestStaysAtRest ==
  ASSUME AnswersTypeOK, NEW s \in Sockets, submit[s].pc = "idle",
         \/ AnswersNext
         \/ \E r \in Sockets : SubmitMark(r)
         \/ SubmitRaises \/ CrashAll
  PROVE  submit'[s].pc = "idle"
<1>0. submit \in [Sockets -> SubmitStates] BY DEF AnswersTypeOK
<1>1. Resting.pc = "idle" BY DEF Resting
<1>2. ASSUME NEW r \in Sockets,
             SubmitCheck(r) \/ SubmitQuestion(r) \/ SubmitCommit(r) \/ SubmitMark(r)
      PROVE  r # s /\ submit'[s] = submit[s]
  BY <1>0, <1>2 DEF SubmitCheck, SubmitQuestion, SubmitCommit, SubmitMark
<1>3. CASE UNCHANGED submit BY <1>3
<1>4. CASE SubmitRaises \/ CrashAll
  BY <1>0, <1>1, <1>4 DEF SubmitRaises, CrashAll
<1> QED
  BY <1>2, <1>3, <1>4 DEF AnswersNext, answerVars, AnsweredExpire, EditCascade, DeleteCascade

\* Submitting and following up.
LEMMA FollowUpTypeOK ==
  ASSUME AnswersTypeOK, RestTypeOK, NEW s \in Sockets,
         SubmitNext(s) \/ SubmitReturns(s) \/ UpdateRead(s) \/ UpdateSend(s)
  PROVE  RestTypeOK'
<1>0. /\ submit \in [Sockets -> SubmitStates] /\ update \in [Sockets -> UpdateStates]
      /\ update[s] \in UpdateStates /\ FollowUp(s) /\ Owner[s] \in Players
      /\ submit[s].pc # "idle" => submit[s].q > 0
      /\ submit[s].q \in Questions \cup {0}
  BY OwnerAssumption DEF AnswersTypeOK, RestTypeOK, SubmitStates
<1>1. CASE SubmitNext(s)
  <2>1. ASSUME NEW r \in Sockets, r # s PROVE submit'[r] = submit[r]
    BY <1>0, <1>1, <2>1 DEF SubmitNext, SubmitRead
  <2> QED BY <1>1, <2>1 DEF SubmitNext, viewVars, hostVars, RestTypeOK, FollowUp
<1>2. CASE SubmitReturns(s)
  <2> DEFINE new == [pc |-> "read", q |-> submit[s].q, right |-> FALSE]
  <2>1. submit[s].q \in Questions /\ submit' = [submit EXCEPT ![s] = Resting]
    BY <1>0, <1>2 DEF SubmitReturns, SubmitMark
  <2>2. new \in UpdateStates /\ new.q # 0
    BY <2>1, ViewNames, QuestionsAssumption DEF UpdateStates
  <2>3. update' = [update EXCEPT ![s] = new] BY <1>2 DEF SubmitReturns
  <2> HIDE DEF new
  <2>4. update' \in [Sockets -> UpdateStates] BY <1>0, <2>2, <2>3
  <2>5. ASSUME NEW r \in Sockets PROVE FollowUp(r)'
    BY <1>0, <2>1, <2>2, <2>3 DEF RestTypeOK, FollowUp, Resting
  <2> QED BY <1>2, <2>4, <2>5 DEF SubmitReturns, hostVars, RestTypeOK
<1>3. CASE UpdateRead(s)
  <2> DEFINE right == score[Owner[s]][update[s].q] > 0
  <2>1. right \in BOOLEAN OBVIOUS
  <2>2. \/ update' = [update EXCEPT ![s] = NoUpdate]
        \/ update' = [update EXCEPT ![s].pc = "send", ![s].right = right]
    BY <1>3 DEF UpdateRead
  <2> HIDE DEF right
  <2>3. update' \in [Sockets -> UpdateStates]
    BY <1>0, <2>1, <2>2, ViewNames DEF UpdateStates
  <2>4. UNCHANGED <<submit, hostVars, failed, disclosed>>
    BY <1>3 DEF UpdateRead, hostVars, vars, answerVars
  <2>5. update[s].pc = "read" BY <1>3 DEF UpdateRead
  <2>6. ASSUME NEW r \in Sockets PROVE FollowUp(r)'
    <3>1. update'[s].pc # "idle" => update'[s].q = update[s].q
      BY <1>0, <2>2 DEF NoUpdate, UpdateStates
    <3>2. r # s => update'[r] = update[r]
      BY <1>0, <2>2
    <3> QED BY <1>0, <2>4, <2>5, <3>1, <3>2 DEF RestTypeOK, FollowUp
  <2> QED BY <2>3, <2>4, <2>6 DEF RestTypeOK, hostVars
<1>4. CASE UpdateSend(s)
  <2>1. update' = [update EXCEPT ![s] = NoUpdate] /\ update[s].q \in Questions
    BY <1>0, <1>4 DEF UpdateSend, FollowUp, UpdateStates
  <2>2. update[s].right \in BOOLEAN BY <1>0 DEF UpdateStates
  <2>3. fed' \subseteq Tellings
    <3>1. <<Owner[s], update[s].q, update[s].right>> \in Tellings
      BY <1>0, <2>1, <2>2, TellingsType
    <3>2. fed' \subseteq fed \cup {<<Owner[s], update[s].q, update[s].right>>}
      BY <1>4 DEF UpdateSend, Reached
    <3> QED BY <3>1, <3>2 DEF RestTypeOK
  <2>4. UNCHANGED <<submit, served, former, registered, failed, disclosed>>
    BY <1>4 DEF UpdateSend, vars, answerVars
  <2>5. ASSUME NEW r \in Sockets PROVE FollowUp(r)'
    BY <1>0, <2>1, <2>4 DEF RestTypeOK, FollowUp, NoUpdate
  <2>6. update' \in [Sockets -> UpdateStates] BY <1>0, <2>1, ViewNames
  <2> QED BY <2>3, <2>4, <2>5, <2>6 DEF RestTypeOK
<1> QED BY <1>1, <1>2, <1>3, <1>4

\* Connecting sockets.
LEMMA ViewStepTypeOK ==
  ASSUME ViewsSound, RestTypeOK, NEW v \in Viewers, ViewStep(v)
  PROVE  RestTypeOK'
<1>0. view[v] \in ViewStates /\ ViewSound(v) BY DEF ViewsSound
<1>1. view[v].told \subseteq Tellings /\ view[v].q \in Questions \cup {0}
  BY <1>0 DEF ViewStates
<1>2. UNCHANGED <<submit, update, failed>>
  BY DEF ViewStep, Connect, StateRoom, StateQuestion, StateDetails, StateSend, SendResults,
         Ranks, hostVars, vars, answerVars
<1>3. /\ served' \in BOOLEAN /\ former' \in 0..MaxFormer /\ registered' \in BOOLEAN
      /\ fed' \subseteq Tellings /\ disclosed' \subseteq Questions
  <2>1. CASE StateSend(v)
    BY <1>0, <1>1, <2>1 DEF StateSend, Reached, RestTypeOK, ViewSound, hostVars
  <2>2. CASE Connect(v)
    <3>1. former' \in 0..MaxFormer
      <4>1. former' = former \/ (former < MaxFormer /\ former' = former + 1)
        BY <2>2, Zenon DEF Connect, hostVars
      <4>2. former \in 0..MaxFormer BY Zenon DEF RestTypeOK
      <4> QED BY <4>1, <4>2, FormerAssumption
    <3> QED BY <2>2, <3>1, Zenon DEF Connect, RestTypeOK, hostVars
  <2>3. CASE StateRoom(v) \/ StateQuestion(v) \/ StateDetails(v) \/ SendResults(v)
    BY <2>3 DEF StateRoom, StateQuestion, StateDetails, SendResults, hostVars, RestTypeOK
  <2> QED BY <2>1, <2>2, <2>3 DEF ViewStep
<1> QED BY <1>2, <1>3 DEF RestTypeOK, FollowUp

\* The host's sockets that leave.
LEMMA LeaveTypeOK ==
  ASSUME RestTypeOK, HostLeaves
  PROVE  RestTypeOK'
<1>1. former' \in 0..MaxFormer
  <2>1. former' = former \/ (former > 0 /\ former' = former - 1)
    BY Zenon DEF HostLeaves
  <2>2. former \in 0..MaxFormer BY Zenon DEF RestTypeOK
  <2> QED BY <2>1, <2>2, FormerAssumption
<1>2. served' \in BOOLEAN BY Zenon DEF HostLeaves, RestTypeOK
<1> QED BY <1>1, <1>2 DEF HostLeaves, RestTypeOK, FollowUp, vars, answerVars

\* Failures: what a socket had in hand is put down as failed.
LEMMA FailureTypeOK ==
  ASSUME AnswersTypeOK, RestTypeOK, ViewsCrash \/ SubmitFails \/ UpdateFails \/ ViewFails
  PROVE  RestTypeOK'
<1>0. /\ submit \in [Sockets -> SubmitStates] /\ update \in [Sockets -> UpdateStates]
      /\ Owner \in [Sockets -> Players]
  BY OwnerAssumption DEF AnswersTypeOK, RestTypeOK
<1>1. \A s \in Sockets :
        /\ submit[s].pc # "idle" => <<Owner[s], submit[s].q>> \in Players \X Questions
        /\ update[s].pc # "idle" => <<Owner[s], update[s].q>> \in Players \X Questions
  BY <1>0, QuestionsAssumption DEF AnswersTypeOK, RestTypeOK, FollowUp, SubmitStates,
     UpdateStates
<1>2. CASE ViewsCrash
  <2>1. former' \in 0..MaxFormer BY <1>2, FormerAssumption DEF ViewsCrash
  <2> QED BY <1>0, <1>1, <1>2, <2>1, ViewNames
    DEF ViewsCrash, RestTypeOK, FollowUp, NoUpdate
<1>3. CASE SubmitFails
  <2>1. ASSUME NEW s \in Sockets PROVE FollowUp(s)'
    BY <1>3, <2>1, RestStaysAtRest DEF SubmitFails, RestTypeOK, FollowUp
  <2> QED BY <1>1, <1>3, <2>1 DEF SubmitFails, hostVars, RestTypeOK
<1>4. CASE UpdateFails
  <2>1. PICK s \in Sockets :
           /\ update[s].pc = "read" /\ update' = [update EXCEPT ![s] = NoUpdate]
           /\ failed' = failed \cup {<<Owner[s], update[s].q>>}
    BY <1>4 DEF UpdateFails
  <2> QED BY <1>0, <1>1, <1>4, <2>1, ViewNames
    DEF UpdateFails, RestTypeOK, FollowUp, NoUpdate, answerVars, hostVars
<1>5. CASE ViewFails
  BY <1>5 DEF ViewFails, RestTypeOK, FollowUp, answerVars
<1> QED BY <1>2, <1>3, <1>4, <1>5

-----------------------------------------------------------------------------
(* The host's feed.                                                        *)

\* Recorded answers are to questions that the quiz still has, and a player has the
\* points of exactly those that are right; points alone outlive their question.
RecordsMatch ==
    \A p \in Players, q \in Questions :
        /\ verdict[p][q] # "none" => q \in Bank
        /\ q \notin Withdrawn => (score[p][q] > 0 <=> verdict[p][q] = "right")

\* The points match, because the ledger records and credits in one step.
LEMMA PointsMatch ==
  ASSUME AnswersTypeOK, RecordsMatch, [Ledger!Next]_Ledger!vars,
         NEW p \in Players, NEW q \in Questions, q \notin Withdrawn'
  PROVE  score'[p][q] > 0 <=> verdict'[p][q] = "right"
<1>0. /\ verdict \in [Players -> [Questions -> Verdicts]]
      /\ score \in [Players -> [Questions -> Nat]]
      /\ q \notin Withdrawn => (score[p][q] > 0 <=> verdict[p][q] = "right")
  BY DEF AnswersTypeOK, RecordsMatch
<1>1. CASE UNCHANGED Ledger!vars
  BY <1>0, <1>1 DEF Ledger!vars
<1>2. ASSUME NEW x \in Players, NEW y \in Questions, NEW v \in {"right", "wrong"},
             Ledger!Record(x, y, v)
      PROVE  score'[p][q] > 0 <=> verdict'[p][q] = "right"
  <2>1. /\ verdict[x][y] = "none" /\ Withdrawn' = Withdrawn
        /\ verdict' = [verdict EXCEPT ![x][y] = v]
        /\ score' = IF v = "right" THEN [score EXCEPT ![x][y] = score[x][y] + 1] ELSE score
    BY <1>2 DEF Ledger!Record
  <2>2. CASE x = p /\ y = q
    <3>1. verdict'[p][q] = v BY <1>0, <2>1, <2>2
    <3>2. score[p][q] \in Nat /\ ~ (score[p][q] > 0) BY <1>0, <2>1, <2>2
    <3>3. score'[p][q] = IF v = "right" THEN score[p][q] + 1 ELSE score[p][q]
      BY <1>0, <2>1, <2>2
    <3> QED BY <3>1, <3>2, <3>3
  <2>3. CASE ~ (x = p /\ y = q)
    <3>1. verdict'[p][q] = verdict[p][q] BY <1>0, <2>1, <2>3
    <3>2. score'[p][q] = score[p][q] BY <1>0, <2>1, <2>3
    <3> QED BY <1>0, <2>1, <3>1, <3>2
  <2> QED BY <2>2, <2>3
<1>3. ASSUME NEW qs \in SUBSET Questions, Ledger!Withdraw(qs)
      PROVE  score'[p][q] > 0 <=> verdict'[p][q] = "right"
  BY <1>0, <1>3 DEF Ledger!Withdraw
<1>4. ~ Ledger!Clear BY DEF Ledger!Clear
<1> QED BY <1>1, <1>2, <1>3, <1>4 DEF Ledger!Next

\* An answer is recorded by a commit of its player's, or as it was before.
LEMMA RecordedBefore ==
  ASSUME AnswersTypeOK, [Next]_vars \/ Aside,
         NEW p \in Players, NEW q \in Questions, verdict'[p][q] # "none"
  PROVE  \/ /\ verdict'[p][q] = verdict[p][q]
            /\ ~ (EditCascade /\ q \in Bank) /\ ~ DeleteCascade
         \/ \E s \in Sockets :
                /\ SubmitCommit(s) /\ Owner[s] = p /\ submit[s].q = q /\ q \in Bank
                /\ submit'[s].pc = "mark" /\ submit'[s].q = q
<1>0. /\ verdict \in [Players -> [Questions -> Verdicts]]
      /\ submit \in [Sockets -> SubmitStates]
  BY DEF AnswersTypeOK
<1>1. CASE EditCascade \/ DeleteCascade
  BY <1>0, <1>1 DEF EditCascade, DeleteCascade
<1>2. CASE ~ (EditCascade \/ DeleteCascade) /\ verdict' = verdict
  BY <1>2
<1>3. ASSUME NEW s \in Sockets, SubmitCommit(s), verdict'[p][q] # verdict[p][q]
      PROVE  /\ Owner[s] = p /\ submit[s].q = q /\ q \in Bank
             /\ submit'[s].pc = "mark" /\ submit'[s].q = q
  <2>1. PICK v : /\ verdict' = [verdict EXCEPT ![Owner[s]][submit[s].q] = v]
                 /\ submit[s].q \in Bank
                 /\ submit' = [submit EXCEPT ![s] = [submit[s] EXCEPT !.pc = "mark",
                                                                    !.score = NoPoints]]
    BY <1>3 DEF SubmitCommit
  <2>2. Owner[s] = p /\ submit[s].q = q BY <1>0, <1>3, <2>1
  <2>3. submit'[s].pc = "mark" /\ submit'[s].q = submit[s].q
    BY <1>0, <2>1 DEF SubmitStates
  <2> QED BY <2>1, <2>2, <2>3
<1>4. ASSUME verdict' # verdict
      PROVE  EditCascade \/ DeleteCascade \/ \E s \in Sockets : SubmitCommit(s)
  BY <1>4 DEF Next, vars, answerVars, SubmitStep, SubmitRead, SubmitCheck, SubmitQuestion,
     SubmitMark, AnsweredExpire, SubmitRaises, CrashAll, Aside
<1>5. ASSUME NEW s \in Sockets, SubmitCommit(s) PROVE ~ (EditCascade \/ DeleteCascade)
  BY <1>5 DEF SubmitCommit, EditCascade, DeleteCascade, EditQuiz, DeleteQuiz, roomVars,
     AnswersTypeOK, TypeOK
<1> QED BY <1>1, <1>2, <1>3, <1>4, <1>5

\* The quiz's questions are the same after every other step.
LEMMA BankKept ==
  ASSUME [Next]_vars \/ Aside, ~ EditCascade, ~ DeleteCascade
  PROVE  Bank' = Bank
<1>1. CASE UNCHANGED <<status, edition>> BY <1>1 DEF Bank
<1>2. ASSUME Handlers \/ CallRaises \/ KeysExpire \/ Crash PROVE Bank' = Bank
  BY <1>2, HandlersKeepWithdrawn
<1>3. ASSUME [Next]_vars PROVE Bank' = Bank
  <2>1. CASE Handlers \/ CallRaises BY <1>2, <2>1
  <2>2. CASE AnsweredExpire \/ CrashAll BY <1>2, <2>2 DEF AnsweredExpire, CrashAll
  <2>3. CASE UNCHANGED vars \/ SubmitRaises \/ \E s \in Sockets : SubmitStep(s)
    BY <1>1, <2>3 DEF vars, roomVars, SubmitRaises, SubmitStep, SubmitRead, SubmitCheck,
       SubmitQuestion, SubmitCommit, SubmitMark
  <2> QED BY <1>3, <2>1, <2>2, <2>3 DEF Next
<1>4. CASE Aside BY <1>1, <1>4 DEF Aside
<1> QED BY <1>3, <1>4

LEMMA RecordsKept ==
  ASSUME OneSocket, LedgerInv, AnswersTypeOK', RecordsMatch, [Next]_vars \/ Aside
  PROVE  LedgerInv' /\ RecordsMatch'
<1>1. LedgerInv' /\ [Ledger!Next]_Ledger!vars
  <2>1. CASE Aside
    BY <2>1 DEF Aside, answerVars, LedgerInv, Ledger!vars, Withdrawn
  <2> QED BY <2>1, LedgerStep
<1>2. ASSUME NEW p \in Players, NEW q \in Questions, verdict'[p][q] # "none"
      PROVE  q \in Bank'
  <2>1. AnswersTypeOK BY DEF LedgerInv
  <2>2. q \in Bank /\ ~ EditCascade /\ ~ DeleteCascade
    <3>1. CASE \E s \in Sockets : SubmitCommit(s) /\ q \in Bank
      BY <3>1 DEF SubmitCommit, EditCascade, DeleteCascade, EditQuiz, DeleteQuiz, roomVars,
         LedgerInv, AnswersTypeOK, TypeOK
    <3>2. CASE /\ verdict'[p][q] = verdict[p][q]
               /\ ~ (EditCascade /\ q \in Bank) /\ ~ DeleteCascade
      BY <1>2, <3>2 DEF RecordsMatch
    <3> QED BY <1>2, <2>1, <3>1, <3>2, RecordedBefore
  <2> QED BY <2>2, BankKept
<1>3. ASSUME NEW p \in Players, NEW q \in Questions, q \notin Withdrawn'
      PROVE  score'[p][q] > 0 <=> verdict'[p][q] = "right"
  BY <1>1, <1>3, PointsMatch DEF LedgerInv
<1> QED BY <1>1, <1>2, <1>3 DEF RecordsMatch

Running(q) == status = "question" /\ CurrentQuestion = q /\ q # 0

\* The host was told of p's answer to q, or is about to be, or handling it failed.
Followed(p, q) ==
    \/ <<p, q, verdict[p][q] = "right">> \in fed \/ <<p, q>> \in failed
    \/ \E s \in Sockets :
        /\ Owner[s] = p
        /\ \/ submit[s].pc = "mark" /\ submit[s].q = q
           \/ update[s].pc # "idle" /\ update[s].q = q

\* The ROOM_STATE of v will show p's answer to q: it is still to be read, or was read
\* with the points it earned.
Shows(v, p, q) ==
    \/ view[v].pc \in {"room", "question"}
    \/ /\ view[v].pc = "details" /\ view[v].q = q
       /\ view[v].scores[p][q] > 0 <=> verdict[p][q] = "right"
    \/ view[v].pc = "send" /\ <<p, q, verdict[p][q] = "right">> \in view[v].told

ForHost(v) == view[v].forHost /\ view[v].pc \in {"room", "question", "details", "send"}

\* FeedComplete is not inductive: a state that is yet to be sent must show what the
\* updates sent meanwhile do not, and an update must have read the points.
Fed(p, q) ==
    /\ registered => /\ served => Followed(p, q)
                     /\ \A v \in Viewers : ForHost(v) => Followed(p, q) \/ Shows(v, p, q)
    /\ \A s \in Sockets :
        Owner[s] = p /\ update[s].pc = "send" /\ update[s].q = q
            => (update[s].right <=> verdict[p][q] = "right")

FeedInv ==
    \A q \in Questions, p \in Players : Running(q) /\ verdict[p][q] # "none" => Fed(p, q)

\* A question that has answers runs on, or does not run again.
LEMMA RunsOn ==
  ASSUME OneHost, TurnInv, AnswersInTurn, TypeOK', RecordsMatch, [Next]_vars \/ Aside,
         NEW p \in Players, NEW q \in Questions, verdict[p][q] # "none", Running(q)'
  PROVE  Running(q) /\ q \in Bank
<1>0. q \in opened /\ q \in Bank /\ q # 0
  BY QuestionsAssumption DEF AnswersInTurn, AnswersOnlyToOpened, RecordsMatch
<1>1. /\ status' = "question" /\ order'.held /\ index' \in DOMAIN order'.ids
      /\ order'.ids[index'] = q
  <2>1. CurrentQuestion' # 0 BY <1>0 DEF Running
  <2> QED BY <2>1 DEF Running, CurrentQuestion
<1>2. CASE UNCHANGED <<status, index, order>>
  BY <1>0, <1>1, <1>2 DEF Running, CurrentQuestion
<1>3. CASE [RoomNext]_roomVars
  <2>1. \A h \in Hosts : ~ AdvanceOpen(h)
    <3> SUFFICES ASSUME NEW h \in Hosts, AdvanceOpen(h) PROVE FALSE
      OBVIOUS
    <3>0. HostInTurn(h) /\ TypeOK BY DEF TurnInv
    <3>1. index' = index + 1 /\ order' = order
      BY <3>0 DEF AdvanceOpen, HostInTurn, Write, TypeOK
    <3>2. order.held => order.ids[index + 1] \notin opened
      BY <3>0 DEF AdvanceOpen, HostInTurn
    <3> QED BY <1>0, <1>1, <3>1, <3>2
  <2>2. status = "question" /\ index' = index BY <1>1, <1>3, <2>1, RunsByOpening
  <2>3. Slot /\ order' = order BY <1>1, <1>3, <2>2, SlotKept DEF Slot
  <2> QED BY <1>0, <1>1, <2>2, <2>3 DEF Running, CurrentQuestion, Slot
<1>4. ASSUME [Next]_vars PROVE [RoomNext]_roomVars \/ UNCHANGED <<status, index, order>>
  BY <1>4 DEF Next, vars, roomVars, RoomNext, SubmitStep, SubmitRead, SubmitCheck,
     SubmitQuestion, SubmitCommit, SubmitMark, AnsweredExpire, SubmitRaises, CrashAll,
     EditCascade, DeleteCascade
<1>5. Aside => UNCHANGED <<status, index, order>> BY DEF Aside
<1> QED BY <1>2, <1>3, <1>4, <1>5

\* No handler of a socket but submit_answer commits an answer.
LEMMA CommitsAlone ==
  ASSUME AnswersTypeOK, [ViewsNext]_viewsVars,
         NEW s \in Sockets, submit[s].pc = "commit", submit'[s].pc = "mark"
  PROVE  UNCHANGED viewVars
<1>0. submit \in [Sockets -> SubmitStates] /\ Resting.pc = "idle"
  BY DEF AnswersTypeOK, Resting
<1>1. submit'[s] # submit[s] /\ submit'[s] # Resting BY <1>0
<1>2. ASSUME NEW r \in Sockets PROVE ~ (SubmitReturns(r) \/ SubmitNext(r))
  <2>1. CASE SubmitReturns(r)
    <3>1. submit' = [submit EXCEPT ![r] = Resting] BY <2>1 DEF SubmitReturns, SubmitMark
    <3> QED BY <1>0, <1>1, <3>1
  <2>2. CASE SubmitNext(r)
    <3>1. submit[r].pc = "idle" /\ \E x \in Questions :
             submit' = [submit EXCEPT ![r].pc = "check", ![r].q = x, ![r].index = index]
      BY <2>2 DEF SubmitNext, SubmitRead
    <3> QED BY <1>0, <1>1, <3>1
  <2> QED BY <2>1, <2>2
<1>3. ~ ViewsCrash /\ ~ SubmitFails
  BY <1>0, <1>1 DEF ViewsCrash, CrashAll, SubmitFails, SubmitRaises
<1>4. ASSUME UNCHANGED submit PROVE FALSE
  BY <1>1, <1>4
<1> QED
  BY <1>2, <1>3, <1>4 DEF ViewsNext, viewsVars, vars, answerVars, ViewStep, Connect, StateRoom,
     StateQuestion, StateDetails, StateSend, SendResults, Ranks, UpdateRead, UpdateSend,
     UpdateFails, ViewFails, HostLeaves

\* An answer just recorded is to be followed up by the socket that submitted it.
LEMMA FeedOfNewAnswer ==
  ASSUME OneSocket, RestTypeOK, UNCHANGED viewVars,
         NEW p \in Players, NEW q \in Questions,
         NEW s \in Sockets, Owner[s] = p, submit[s].pc = "commit",
         submit'[s].pc = "mark", submit'[s].q = q
  PROVE  Fed(p, q)'
<1>1. Followed(p, q)' BY DEF Followed
<1>2. \A r \in Sockets : Owner[r] = p => update'[r].pc = "idle"
  BY DEF OneSocket, RestTypeOK, FollowUp, viewVars
<1> QED BY <1>1, <1>2 DEF Fed

\* A socket keeps what it has to follow up until it has marked the answer.
LEMMA MarksStay ==
  ASSUME AnswersTypeOK, NEW s \in Sockets, submit[s].pc = "mark",
         AnswersNext \/ \E r \in Sockets : SubmitRead(r) \/ (SubmitMark(r) /\ r # s)
  PROVE  submit'[s] = submit[s]
<1>0. submit \in [Sockets -> SubmitStates] BY DEF AnswersTypeOK
<1>1. ASSUME NEW r \in Sockets,
             \/ SubmitCheck(r) \/ SubmitQuestion(r) \/ SubmitCommit(r) \/ SubmitRead(r)
             \/ SubmitMark(r) /\ r # s
      PROVE  submit'[s] = submit[s]
  BY <1>0, <1>1 DEF SubmitCheck, SubmitQuestion, SubmitCommit, SubmitRead, SubmitMark
<1>2. CASE UNCHANGED submit BY <1>2
<1> QED
  BY <1>1, <1>2 DEF AnswersNext, answerVars, AnsweredExpire, EditCascade, DeleteCascade

\* A socket keeps what it has to follow up, or has it done.
KeepsUp(s, p, q) ==
    /\ submit[s].pc = "mark" /\ submit[s].q = q =>
           \/ submit'[s].pc = "mark" /\ submit'[s].q = q
           \/ update'[s].pc # "idle" /\ update'[s].q = q
           \/ <<p, q>> \in failed'
    /\ update[s].pc # "idle" /\ update[s].q = q =>
           \/ update'[s].pc # "idle" /\ update'[s].q = q
           \/ <<p, q, verdict[p][q] = "right">> \in fed'
           \/ <<p, q>> \in failed'

LEMMA FollowedKept ==
  ASSUME NEW p \in Players, NEW q \in Questions, Followed(p, q),
         verdict'[p][q] = verdict[p][q], fed \subseteq fed', failed \subseteq failed',
         \A s \in Sockets : Owner[s] = p => KeepsUp(s, p, q)
  PROVE  Followed(p, q)'
BY DEF Followed, KeepsUp

\* The room, its players and their sockets go on.
LEMMA FeedBeneath ==
  ASSUME AnswersTypeOK, RestTypeOK, NEW p \in Players, NEW q \in Questions, Fed(p, q),
         verdict'[p][q] = verdict[p][q],
         \/ AnswersNext /\ UNCHANGED viewVars
         \/ \E s \in Sockets : SubmitNext(s)
         \/ UNCHANGED viewsVars
  PROVE  Fed(p, q)'
<1>1. UNCHANGED viewVars
  BY DEF SubmitNext, viewsVars
<1>2. \A s \in Sockets : submit[s].pc = "mark" => submit'[s] = submit[s]
  <2>1. ASSUME NEW r \in Sockets, SubmitNext(r), NEW s \in Sockets, submit[s].pc = "mark"
        PROVE  submit'[s] = submit[s]
    BY <2>1, MarksStay DEF SubmitNext
  <2>2. CASE AnswersNext BY <2>2, MarksStay
  <2>3. CASE UNCHANGED viewsVars BY <2>3 DEF viewsVars, vars, answerVars
  <2> QED BY <2>1, <2>2, <2>3
<1>3. Followed(p, q) => Followed(p, q)'
  BY <1>1, <1>2, FollowedKept DEF viewVars, hostVars, KeepsUp
<1>4. \A v \in Viewers : /\ ForHost(v)' = ForHost(v)
                         /\ Shows(v, p, q) => Shows(v, p, q)'
  BY <1>1 DEF viewVars, ForHost, Shows
<1> QED BY <1>1, <1>3, <1>4 DEF Fed, viewVars, hostVars

\* An answer is followed up.
LEMMA FeedFollowUp ==
  ASSUME AnswersTypeOK, RestTypeOK, RecordsMatch,
         NEW p \in Players, NEW q \in Questions, Fed(p, q), q \in Bank,
         verdict[p][q] # "none", Running(q),
         NEW s \in Sockets, SubmitReturns(s) \/ UpdateRead(s) \/ UpdateSend(s)
  PROVE  Fed(p, q)'
<1>0. /\ submit \in [Sockets -> SubmitStates] /\ update \in [Sockets -> UpdateStates]
      /\ status # "gone"
  BY DEF AnswersTypeOK, RestTypeOK, Running
<1>1. UNCHANGED <<view, served, registered, failed, verdict>> /\ fed \subseteq fed'
  BY DEF SubmitReturns, SubmitMark, UpdateRead, UpdateSend, hostVars, vars, answerVars
<1>2. \A v \in Viewers : /\ ForHost(v)' = ForHost(v)
                         /\ Shows(v, p, q) => Shows(v, p, q)'
  BY <1>1 DEF ForHost, Shows
<1>3. SUFFICES /\ registered /\ Followed(p, q) => Followed(p, q)'
               /\ \A r \in Sockets :
                     Owner[r] = p /\ update'[r].pc = "send" /\ update'[r].q = q
                         => (update'[r].right <=> verdict[p][q] = "right")
  BY <1>1, <1>2 DEF Fed
<1>4. CASE SubmitReturns(s)
  <2> DEFINE new == [pc |-> "read", q |-> submit[s].q, right |-> FALSE]
  <2>1. /\ submit[s].pc = "mark" /\ submit' = [submit EXCEPT ![s] = Resting]
        /\ update' = [update EXCEPT ![s] = new]
    BY <1>4 DEF SubmitReturns, SubmitMark
  <2>2. new.pc = "read" /\ new.q = submit[s].q OBVIOUS
  <2> HIDE DEF new
  <2>3. /\ update'[s] = new /\ update[s].pc = "idle"
        /\ \A r \in Sockets : r # s => update'[r] = update[r] /\ submit'[r] = submit[r]
    BY <1>0, <2>1 DEF RestTypeOK, FollowUp
  <2>4. Followed(p, q) => Followed(p, q)'
    <3>1. \A r \in Sockets : Owner[r] = p => KeepsUp(r, p, q)
      BY <2>2, <2>3 DEF KeepsUp
    <3> QED BY <1>1, <3>1, FollowedKept
  <2>5. \A r \in Sockets : update'[r].pc = "send" => update'[r] = update[r]
    BY <2>2, <2>3
  <2> QED BY <2>4, <2>5 DEF Fed
<1>5. CASE UpdateRead(s)
  <2> DEFINE right == score[Owner[s]][update[s].q] > 0
  <2>0. right \in BOOLEAN OBVIOUS
  <2>1. update' = [update EXCEPT ![s].pc = "send", ![s].right = right]
    BY <1>0, <1>5 DEF UpdateRead
  <2>2. Owner[s] = p /\ update[s].q = q => (right <=> verdict[p][q] = "right")
    BY BankNotWithdrawn DEF AnswersTypeOK, TypeOK, RecordsMatch
  <2> HIDE DEF right
  <2>3. /\ update'[s].pc = "send" /\ update'[s].q = update[s].q /\ update'[s].right = right
        /\ \A r \in Sockets : r # s => update'[r] = update[r]
    BY <1>0, <2>1 DEF UpdateStates
  <2>4. submit' = submit BY <1>5 DEF UpdateRead, vars, answerVars
  <2>5. Followed(p, q) => Followed(p, q)'
    <3>1. \A r \in Sockets : Owner[r] = p => KeepsUp(r, p, q)
      BY <2>3, <2>4 DEF KeepsUp
    <3> QED BY <1>1, <3>1, FollowedKept
  <2> QED BY <2>2, <2>3, <2>5 DEF Fed
<1>6. CASE UpdateSend(s)
  <2>1. /\ update[s].pc = "send" /\ update' = [update EXCEPT ![s] = NoUpdate]
        /\ registered => fed' = fed \cup {<<Owner[s], update[s].q, update[s].right>>}
        /\ submit' = submit
    BY <1>6 DEF UpdateSend, Reached, vars, answerVars
  <2>2. /\ update'[s].pc = "idle"
        /\ \A r \in Sockets : r # s => update'[r] = update[r]
    BY <1>0, <2>1 DEF NoUpdate
  <2>3. ASSUME registered, Owner[s] = p, update[s].q = q
        PROVE  <<p, q, verdict[p][q] = "right">> \in fed'
    <3>1. update[s].right \in BOOLEAN BY <1>0 DEF UpdateStates
    <3>2. update[s].right <=> verdict[p][q] = "right" BY <2>1, <2>3 DEF Fed
    <3>3. update[s].right = (verdict[p][q] = "right") BY <3>1, <3>2
    <3> QED BY <2>1, <2>3, <3>3
  <2>4. registered /\ Followed(p, q) => Followed(p, q)'
    <3>1. ASSUME registered,
                 NEW r \in Sockets, Owner[r] = p, update[r].pc # "idle", update[r].q = q
          PROVE  \/ update'[r].pc # "idle" /\ update'[r].q = q
                 \/ <<p, q, verdict[p][q] = "right">> \in fed'
      BY <2>2, <2>3, <3>1
    <3>2. /\ submit' = submit /\ fed \subseteq fed' /\ failed \subseteq failed'
          /\ verdict'[p][q] = verdict[p][q]
      BY <1>1, <2>1
    <3>3. registered => \A r \in Sockets : Owner[r] = p => KeepsUp(r, p, q)
      BY <3>1, <3>2 DEF KeepsUp
    <3> QED BY <3>2, <3>3, FollowedKept
  <2>5. \A r \in Sockets : update'[r].pc = "send" => update'[r] = update[r]
    BY <2>2
  <2> QED BY <2>4, <2>5 DEF Fed
<1> QED BY <1>4, <1>5, <1>6

\* A socket that connects; if it is the host's, with nothing told yet.
LEMMA FeedConnect ==
  ASSUME ViewsSound, NEW p \in Players, NEW q \in Questions, Fed(p, q),
         NEW v \in Viewers, Connect(v)
  PROVE  Fed(p, q)'
<1>0. view \in [Viewers -> ViewStates] BY DEF ViewsSound
<1>1. UNCHANGED <<verdict, submit, update, failed>>
  BY DEF Connect, vars, answerVars
<1>2. PICK forHost \in BOOLEAN :
         /\ forHost => \A w \in Viewers : ~ view[w].forHost
         /\ view' = [view EXCEPT ![v] = [NoView EXCEPT !.pc = "room", !.forHost = forHost,
                                                      !.over = (status = "finished")]]
         /\ forHost => served' = FALSE
         /\ ~ forHost => UNCHANGED <<served, registered, fed>>
  BY DEF Connect, hostVars
<1> DEFINE new == [NoView EXCEPT !.pc = "room", !.forHost = forHost,
                                 !.over = (status = "finished")]
<1>3. new.pc = "room" /\ new.forHost = forHost BY DEF NoView
<1> HIDE DEF new
<1>4. view'[v] = new /\ \A w \in Viewers : w # v => view'[w] = view[w]
  BY <1>0, <1>2 DEF new
<1>5. CASE forHost = TRUE
  <2>1. \A w \in Viewers : w # v => ~ ForHost(w)' BY <1>2, <1>4, <1>5 DEF ForHost
  <2>2. Shows(v, p, q)' BY <1>3, <1>4 DEF Shows
  <2>3. ~ served' BY <1>2, <1>5
  <2> QED BY <1>1, <2>1, <2>2, <2>3 DEF Fed
<1>6. CASE forHost = FALSE
  <2>1. UNCHANGED <<served, registered, fed>> BY <1>2, <1>6
  <2>2. Followed(p, q)' = Followed(p, q) BY <1>1, <2>1 DEF Followed
  <2>3. ~ ForHost(v)' BY <1>3, <1>4, <1>6 DEF ForHost
  <2>4. \A w \in Viewers : w # v => /\ ForHost(w)' = ForHost(w)
                                    /\ Shows(w, p, q)' = Shows(w, p, q)
    BY <1>1, <1>4 DEF ForHost, Shows
  <2> QED BY <1>1, <2>1, <2>2, <2>3, <2>4 DEF Fed
<1> QED BY <1>2, <1>5, <1>6

\* A state moves on towards being sent: it still shows the answer.
LEMMA FeedShown ==
  ASSUME ViewsSound, NEW p \in Players, NEW q \in Questions, Fed(p, q),
         UNCHANGED <<verdict, submit, update, failed>>, fed \subseteq fed',
         registered' => registered, registered' /\ served' => served \/ Followed(p, q),
         NEW v \in Viewers, NEW new, view' = [view EXCEPT ![v] = new],
         registered /\ ForHost(v)' => Followed(p, q) \/ Shows(v, p, q)'
  PROVE  Fed(p, q)'
<1>1. \A w \in Viewers : w # v => view'[w] = view[w] BY DEF ViewsSound
<1>2. Followed(p, q) => Followed(p, q)'
  BY FollowedKept DEF KeepsUp
<1>3. \A w \in Viewers : w # v => /\ ForHost(w)' = ForHost(w)
                                  /\ Shows(w, p, q)' = Shows(w, p, q)
  BY <1>1 DEF ForHost, Shows
<1> QED BY <1>2, <1>3 DEF Fed

\* The answers are read after the question, and both as long as it runs.
LEMMA FeedState ==
  ASSUME ViewsSound, AnswersTypeOK, RecordsMatch,
         NEW p \in Players, NEW q \in Questions, Fed(p, q), q \in Bank,
         verdict[p][q] # "none", Running(q),
         NEW v \in Viewers, StateRoom(v) \/ StateQuestion(v) \/ StateDetails(v)
  PROVE  Fed(p, q)'
<1>0. view \in [Viewers -> ViewStates] /\ view[v] \in ViewStates BY DEF ViewsSound
<1>1. UNCHANGED <<verdict, submit, update, failed, fed, served, registered>>
  BY DEF StateRoom, StateQuestion, StateDetails, hostVars, vars, answerVars
<1>2. CASE StateRoom(v)
  <2> DEFINE new == [view[v] EXCEPT !.pc = "question"]
  <2>1. view' = [view EXCEPT ![v] = new] BY <1>2 DEF StateRoom, Running
  <2>2. view'[v].pc = "question" BY <1>0, <2>1 DEF ViewStates
  <2> HIDE DEF new
  <2>3. Shows(v, p, q)' BY <2>2 DEF Shows
  <2> QED BY <1>1, <2>1, <2>3, FeedShown
<1>3. CASE StateQuestion(v)
  <2> DEFINE new == [view[v] EXCEPT !.q = q, !.ended = FALSE,
                       !.scores = IF view[v].forHost THEN score ELSE @,
                       !.pc = IF view[v].forHost THEN "details" ELSE "send"]
  <2>1. view' = [view EXCEPT ![v] = new] BY <1>3 DEF StateQuestion, Running
  <2>2. /\ new.forHost = view[v].forHost /\ new.q = q
        /\ view[v].forHost => new.pc = "details" /\ new.scores = score
    BY <1>0 DEF ViewStates
  <2>3. score[p][q] > 0 <=> verdict[p][q] = "right"
    BY BankNotWithdrawn DEF AnswersTypeOK, TypeOK, RecordsMatch
  <2> HIDE DEF new
  <2>4. view'[v] = new BY <1>0, <2>1
  <2>5. ForHost(v)' => Shows(v, p, q)' BY <1>1, <2>2, <2>3, <2>4 DEF ForHost, Shows
  <2> QED BY <1>1, <2>1, <2>5, FeedShown
<1>4. CASE StateDetails(v)
  <2> DEFINE told == {<<r, view[v].q, view[v].scores[r][view[v].q] > 0>> :
                        r \in {x \in Players : verdict[x][view[v].q] # "none"}}
             new == [view[v] EXCEPT !.told = told, !.scores = NoView.scores, !.pc = "send"]
             right == view[v].scores[p][q] > 0
  <2>1. view' = [view EXCEPT ![v] = new] /\ view[v].pc = "details"
    BY <1>4 DEF StateDetails
  <2>2. view[v].q = q => <<p, q, right>> \in told OBVIOUS
  <2>3. right \in BOOLEAN OBVIOUS
  <2>4. Shows(v, p, q) => view[v].q = q /\ (right <=> verdict[p][q] = "right")
    BY <2>1 DEF Shows
  <2> HIDE DEF told, right
  <2>5. new.forHost = view[v].forHost /\ new.pc = "send" /\ new.told = told
    BY <1>0 DEF ViewStates
  <2> HIDE DEF new
  <2>6. view'[v] = new BY <1>0, <2>1
  <2>7. ASSUME Shows(v, p, q) PROVE Shows(v, p, q)'
    <3>1. right = (verdict[p][q] = "right") BY <2>3, <2>4, <2>7
    <3>2. <<p, q, verdict[p][q] = "right">> \in told BY <2>2, <2>4, <2>7, <3>1
    <3>3. <<p, q, verdict'[p][q] = "right">> \in view'[v].told
      BY <1>1, <2>5, <2>6, <3>2
    <3> QED BY <2>5, <2>6, <3>3 DEF Shows
  <2>8. registered /\ ForHost(v)' => Followed(p, q) \/ Shows(v, p, q)'
    BY <2>1, <2>5, <2>6, <2>7 DEF ForHost, Fed
  <2> QED BY <1>1, <2>1, <2>8, FeedShown
<1> QED BY <1>2, <1>3, <1>4

\* The state is sent: from then on the host was told of what it shows.
LEMMA FeedSent ==
  ASSUME ViewsSound, NEW p \in Players, NEW q \in Questions, Fed(p, q),
         NEW v \in Viewers, StateSend(v) \/ SendResults(v)
  PROVE  Fed(p, q)'
<1>0. view \in [Viewers -> ViewStates] BY DEF ViewsSound
<1>1. UNCHANGED <<verdict, submit, update, failed>>
  <2>1. Ranks => UNCHANGED <<verdict, submit>> BY DEF Ranks, answerVars
  <2>2. UNCHANGED vars => UNCHANGED <<verdict, submit>> BY DEF vars, answerVars
  <2>3. CASE StateSend(v) BY <2>1, <2>2, <2>3 DEF StateSend
  <2>4. CASE SendResults(v) BY <2>1, <2>4 DEF SendResults, hostVars
  <2> QED BY <2>3, <2>4
<1>2. PICK new : view' = [view EXCEPT ![v] = new] /\ new.pc \in {"idle", "results"}
  <2>1. NoView.pc = "idle" BY DEF NoView
  <2>2. CASE SendResults(v) BY <2>1, <2>2 DEF SendResults
  <2>3. CASE StateSend(v)
    <3> DEFINE sent == [NoView EXCEPT !.pc = IF view[v].over THEN "results" ELSE "idle",
                                      !.forHost = view[v].over /\ view[v].forHost]
    <3>1. sent.pc \in {"idle", "results"} BY DEF NoView
    <3>2. view' = [view EXCEPT ![v] = sent] BY <2>3 DEF StateSend
    <3> QED BY <3>1, <3>2
  <2> QED BY <2>2, <2>3
<1>3. ~ ForHost(v)' BY <1>0, <1>2 DEF ForHost
<1>4. CASE UNCHANGED <<served, registered, fed>>
  BY <1>1, <1>2, <1>3, <1>4, FeedShown
<1>5. CASE StateSend(v) /\ view[v].forHost
  <2>0. CASE ~ registered
    <3>1. ~ registered' BY <1>5, <2>0 DEF StateSend
    <3> QED BY <1>1, <3>1 DEF Fed
  <2> SUFFICES ASSUME registered PROVE Fed(p, q)'
    BY <2>0
  <2>1. /\ fed' = fed \cup view[v].told /\ view[v].pc = "send"
    BY <1>5 DEF StateSend, Reached
  <2>2. ASSUME Followed(p, q) PROVE Followed(p, q)'
    BY <1>1, <2>1, <2>2, FollowedKept DEF KeepsUp
  <2>3. Followed(p, q)'
    <3>1. CASE Shows(v, p, q)
      <4>1. <<p, q, verdict[p][q] = "right">> \in view[v].told BY <2>1, <3>1 DEF Shows
      <4>2. <<p, q, verdict'[p][q] = "right">> \in fed' BY <1>1, <2>1, <4>1
      <4> QED BY <4>2 DEF Followed
    <3> QED BY <1>5, <2>1, <2>2, <3>1 DEF Fed, ForHost
  <2> QED BY <1>1, <2>3 DEF Fed
<1>6. \/ UNCHANGED <<served, registered, fed>>
      \/ StateSend(v) /\ view[v].forHost
  BY DEF StateSend, SendResults, hostVars
<1> QED BY <1>4, <1>5, <1>6

\* Who leaves unregisters the host: there is nothing to show before the next one.
LEMMA FeedUnregistered ==
  ASSUME NEW p \in Players, NEW q \in Questions, Fed(p, q), HostLeaves
  PROVE  Fed(p, q)'
<1>1. ~ registered' /\ UNCHANGED <<verdict, update>>
  BY DEF HostLeaves, vars, answerVars
<1> QED BY <1>1 DEF Fed

\* What was to be followed up and cannot be is put down as failed; a host whose state
\* cannot be sent has to connect again.
LEMMA FeedFails ==
  ASSUME ViewsSound, AnswersTypeOK, RestTypeOK,
         NEW p \in Players, NEW q \in Questions, Fed(p, q), Running(q),
         verdict'[p][q] = verdict[p][q],
         ViewsCrash \/ SubmitFails \/ UpdateFails \/ ViewFails
  PROVE  Fed(p, q)'
<1>0. /\ view \in [Viewers -> ViewStates] /\ update \in [Sockets -> UpdateStates]
      /\ submit \in [Sockets -> SubmitStates]
      /\ NoView.pc = "idle" /\ NoUpdate.pc = "idle" /\ Resting.pc = "idle"
  BY DEF ViewsSound, RestTypeOK, AnswersTypeOK, NoView, NoUpdate, Resting
<1>1. CASE ViewsCrash
  <2>1. /\ ~ served' /\ \A v \in Viewers : view'[v].pc = "idle"
        /\ \A s \in Sockets : update'[s].pc = "idle"
    BY <1>0, <1>1 DEF ViewsCrash
  <2> QED BY <2>1 DEF Fed, ForHost
<1>2. CASE SubmitFails
  <2>1. /\ UNCHANGED <<view, update, served, registered, fed>> /\ failed \subseteq failed'
        /\ \A s \in Sockets : submit'[s] = submit[s] \/ submit'[s] = Resting
    BY <1>0, <1>2 DEF SubmitFails, SubmitRaises, hostVars
  <2>2. \A s \in Sockets : submit[s].pc = "mark" /\ submit'[s] = Resting =>
             <<Owner[s], submit[s].q>> \in failed'
    BY <1>0, <1>2 DEF SubmitFails
  <2>3. \A s \in Sockets : Owner[s] = p => KeepsUp(s, p, q)
    BY <2>1, <2>2 DEF KeepsUp
  <2>4. Followed(p, q) => Followed(p, q)' BY <2>1, <2>3, FollowedKept
  <2>5. \A v \in Viewers : /\ ForHost(v)' = ForHost(v)
                           /\ Shows(v, p, q) => Shows(v, p, q)'
    BY <2>1 DEF ForHost, Shows
  <2> QED BY <2>1, <2>4, <2>5 DEF Fed
<1>3. CASE UpdateFails
  <2>1. PICK s \in Sockets : /\ update' = [update EXCEPT ![s] = NoUpdate]
                             /\ failed' = failed \cup {<<Owner[s], update[s].q>>}
    BY <1>3 DEF UpdateFails
  <2>2. UNCHANGED <<view, served, registered, fed, submit, verdict>>
    BY <1>3 DEF UpdateFails, answerVars, hostVars
  <2>3. \A r \in Sockets : update'[r] = update[r] \/ (r = s /\ update'[r].pc = "idle")
    BY <1>0, <2>1
  <2>4. \A r \in Sockets : Owner[r] = p => KeepsUp(r, p, q)
    BY <2>1, <2>2, <2>3 DEF KeepsUp
  <2>5. Followed(p, q) => Followed(p, q)' BY <2>1, <2>2, <2>4, FollowedKept
  <2>6. \A v \in Viewers : /\ ForHost(v)' = ForHost(v)
                           /\ Shows(v, p, q) => Shows(v, p, q)'
    BY <2>2 DEF ForHost, Shows
  <2> QED BY <2>2, <2>3, <2>5, <2>6 DEF Fed
<1>4. CASE ViewFails
  <2>1. PICK v \in Viewers : /\ view' = [view EXCEPT ![v] = NoView]
                             /\ served' = (served /\ ~ view[v].forHost)
                             /\ registered' => registered
    BY <1>4 DEF ViewFails
  <2>2. UNCHANGED <<update, fed, failed, submit, verdict>>
    BY <1>4 DEF ViewFails, answerVars
  <2>3. ~ ForHost(v)' BY <1>0, <2>1 DEF ForHost
  <2> QED BY <2>1, <2>2, <2>3, FeedShown
<1> QED BY <1>1, <1>2, <1>3, <1>4

LEMMA FeedKept ==
  ASSUME OneHost, OneSocket, TurnInv, AnswersTypeOK, AnswersTypeOK', AnswersInTurn,
         ViewsSound, RestTypeOK, RecordsMatch, FeedInv, [ViewsNext]_viewsVars
  PROVE  FeedInv'
<1> SUFFICES ASSUME NEW q \in Questions, NEW p \in Players,
                    Running(q)', verdict'[p][q] # "none"
             PROVE  Fed(p, q)'
  BY DEF FeedInv
<1>0. [Next]_vars \/ Aside BY Beneath DEF viewsVars
<1>1. ASSUME NEW s \in Sockets, SubmitCommit(s), Owner[s] = p, submit[s].q = q,
             submit'[s].pc = "mark", submit'[s].q = q
      PROVE  Fed(p, q)'
  <2>1. submit[s].pc = "commit" BY <1>1 DEF SubmitCommit
  <2>2. UNCHANGED viewVars BY <1>1, <2>1, CommitsAlone
  <2> QED BY <1>1, <2>1, <2>2, FeedOfNewAnswer
<1>2. CASE verdict'[p][q] = verdict[p][q]
  <2>1. Running(q) /\ q \in Bank
    BY <1>0, <1>2, RunsOn DEF AnswersTypeOK
  <2>2. Fed(p, q) BY <1>2, <2>1 DEF FeedInv
  <2>3. CASE \/ AnswersNext /\ UNCHANGED viewVars
             \/ \E s \in Sockets : SubmitNext(s)
             \/ UNCHANGED viewsVars
    BY <1>2, <2>2, <2>3, FeedBeneath
  <2>4. ASSUME NEW s \in Sockets, SubmitReturns(s) \/ UpdateRead(s) \/ UpdateSend(s)
        PROVE  Fed(p, q)'
    BY <1>2, <2>1, <2>2, <2>4, FeedFollowUp
  <2>5. ASSUME NEW v \in Viewers, ViewStep(v) PROVE Fed(p, q)'
    BY <1>2, <2>1, <2>2, <2>5, FeedConnect, FeedState, FeedSent DEF ViewStep
  <2>6. CASE ViewsCrash \/ SubmitFails \/ UpdateFails \/ ViewFails
    BY <1>2, <2>1, <2>2, <2>6, FeedFails
  <2>7. CASE HostLeaves
    BY <2>2, <2>7, FeedUnregistered
  <2> QED BY <2>3, <2>4, <2>5, <2>6, <2>7 DEF ViewsNext
<1> QED BY <1>0, <1>1, <1>2, RecordedBefore

-----------------------------------------------------------------------------
(* Theorems.                                                               *)

LEMMA InitSound == ViewsInit => ViewsSound /\ RestTypeOK /\ HiddenInv
<1> SUFFICES ASSUME ViewsInit PROVE ViewsSound /\ RestTypeOK /\ HiddenInv
  OBVIOUS
<1>1. NoView.pc = "idle" /\ ~ NoView.ended /\ NoUpdate.pc = "idle"
  BY DEF NoView, NoUpdate
<1>2. \A v \in Viewers : view[v] = NoView
  BY DEF ViewsInit
<1>3. ViewsSound BY <1>1, <1>2, ViewNames DEF ViewsInit, ViewsSound, ViewSound
<1>4. RestTypeOK
  <2>1. former \in 0..MaxFormer BY FormerAssumption DEF ViewsInit
  <2> QED BY <1>1, <2>1, ViewNames DEF ViewsInit, RestTypeOK, FollowUp
<1>5. HiddenInv BY <1>1, <1>2 DEF ViewsInit, HiddenInv
<1> QED BY <1>3, <1>4, <1>5

LEMMA RestKept ==
  ASSUME AnswersTypeOK, ViewsSound, RestTypeOK, [ViewsNext]_viewsVars
  PROVE  RestTypeOK'
<1>1. CASE AnswersNext /\ UNCHANGED viewVars
  BY <1>1, RestStaysAtRest DEF viewVars, hostVars, RestTypeOK, FollowUp
<1>2. CASE UNCHANGED viewsVars
  BY <1>2 DEF viewsVars, vars, answerVars, viewVars, hostVars, RestTypeOK, FollowUp
<1> QED
  BY <1>1, <1>2, FollowUpTypeOK, ViewStepTypeOK, LeaveTypeOK, FailureTypeOK DEF ViewsNext

\* RoomViews: whatever a ROOM_STATE or a HOST_ANSWER_UPDATE is put together from is of
\* its type at every step; the host is told only of players' answers to questions.
THEOREM ViewsTypeCorrect == ViewsSpec => []ViewsTypeOK
<1> DEFINE TypeInv == AnswersTypeOK /\ ViewsSound /\ RestTypeOK
<1>1. ViewsInit => TypeInv
  BY InitTypeOK, InitSound DEF ViewsInit
<1>2. TypeInv /\ [ViewsNext]_viewsVars => TypeInv'
  <2> SUFFICES ASSUME TypeInv, [ViewsNext]_viewsVars PROVE TypeInv'
    OBVIOUS
  <2>1. [Next]_vars \/ Aside BY Beneath DEF viewsVars
  <2>2. AnswersTypeOK' BY <2>1, StepTypeOK, AsideTypeOK
  <2> QED BY <2>2, StepViewsSound, RestKept
<1>3. TypeInv => ViewsTypeOK
  BY DEF ViewsTypeOK, ViewsSound, ViewSound, RestTypeOK, FollowUp
<1> HIDE DEF TypeInv
<1> QED BY <1>1, <1>2, <1>3, PTL DEF ViewsSpec

\* RoomViews: no ROOM_STATE has carried the correct answers of the running question,
\* for any number of sockets that connect while the room moves on: the status and the
\* index that decide it come from one reading, and what has ended stays so.
THEOREM NoAnswersWhileRunningHolds ==
  ASSUME OneHost
  PROVE  ViewsSpec => []NoAnswersWhileRunning
<1> DEFINE TurnsInv == AnswersTypeOK /\ TurnInv /\ AnswersInTurn /\ ViewsSound /\ HiddenInv
<1>1. ViewsInit => TurnsInv
  BY InitTypeOK, InitInTurn, InitSound DEF ViewsInit
<1>2. TurnsInv /\ [ViewsNext]_viewsVars => TurnsInv'
  <2> SUFFICES ASSUME TurnsInv, [ViewsNext]_viewsVars PROVE TurnsInv'
    OBVIOUS
  <2>1. AnswersTypeOK' /\ TurnInv' /\ AnswersInTurn' BY BeneathInTurn
  <2> QED BY <2>1, StepViewsSound, HiddenKept
<1>3. TurnsInv => NoAnswersWhileRunning
  <2> SUFFICES ASSUME TurnsInv, status = "question", CurrentQuestion \in disclosed
               PROVE  FALSE
    BY DEF NoAnswersWhileRunning
  <2>1. Past(CurrentQuestion) BY DEF HiddenInv
  <2>2. CurrentQuestion # 0
    BY <2>1, QuestionsAssumption DEF Past, AnswersTypeOK, TypeOK
  <2> QED BY <2>1, <2>2 DEF Past, CurrentQuestion, Slot
<1> HIDE DEF TurnsInv
<1> QED BY <1>1, <1>2, <1>3, PTL DEF ViewsSpec

\* RoomViews: a host that reloads its page is told of every answer to the running
\* question, with the points it earned, though its state is put together from four
\* readings while answers are submitted, followed up or lost, as long as no former
\* socket of the host, leaving late, has unregistered the new one.
THEOREM FeedCompleteHolds ==
  ASSUME OneHost, OneSocket
  PROVE  ViewsSpec => []FeedComplete
<1> DEFINE TypesInv == AnswersTypeOK /\ ViewsSound /\ RestTypeOK
           TurnsInv == TurnInv /\ AnswersInTurn
           TellsInv == LedgerInv /\ RecordsMatch /\ FeedInv
<1>1. ViewsInit => TypesInv /\ TurnsInv /\ TellsInv
  <2> SUFFICES ASSUME ViewsInit PROVE TypesInv /\ TurnsInv /\ TellsInv
    OBVIOUS
  <2>1. TypesInv /\ TurnsInv
    BY InitTypeOK, InitInTurn, InitSound DEF ViewsInit
  <2>2. LedgerInv BY <2>1 DEF ViewsInit, Init, LedgerInv, Resting
  <2>3. RecordsMatch /\ FeedInv
    BY DEF ViewsInit, Init, RecordsMatch, FeedInv, NoPoints
  <2> QED BY <2>1, <2>2, <2>3
<1>2. TypesInv /\ TurnsInv /\ TellsInv /\ [ViewsNext]_viewsVars
          => (TypesInv /\ TurnsInv /\ TellsInv)'
  <2> SUFFICES ASSUME TypesInv, TurnsInv, TellsInv, [ViewsNext]_viewsVars
               PROVE  (TypesInv /\ TurnsInv /\ TellsInv)'
    OBVIOUS
  <2>1. AnswersTypeOK' /\ TurnsInv' BY BeneathInTurn
  <2>2. ViewsSound' /\ RestTypeOK' BY StepViewsSound, RestKept
  <2>3. LedgerInv' /\ RecordsMatch'
    BY <2>1, Beneath, RecordsKept DEF viewsVars
  <2>4. FeedInv' BY <2>1, FeedKept
  <2> QED BY <2>1, <2>2, <2>3, <2>4
<1>3. TypesInv /\ FeedInv => FeedComplete
  <2> SUFFICES ASSUME AnswersTypeOK, FeedInv, registered, served, status = "question",
                      CurrentQuestion # 0, NEW p \in Players,
                      verdict[p][CurrentQuestion] # "none"
               PROVE  Followed(p, CurrentQuestion)
    BY DEF FeedComplete, Followed
  <2>1. CurrentQuestion \in Questions BY CurrentQuestionType DEF AnswersTypeOK
  <2>2. Running(CurrentQuestion) BY DEF Running
  <2> QED BY <2>1, <2>2 DEF FeedInv, Fed
<1> HIDE DEF TypesInv, TurnsInv
<1>4. TypesInv /\ TellsInv => FeedComplete BY <1>3
<1> HIDE DEF TellsInv
<1> QED BY <1>1, <1>2, <1>4, PTL DEF ViewsSpec

=============================================================================
