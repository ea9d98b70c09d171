--------------------------- MODULE GameRoomProofs ---------------------------
(***************************************************************************)
(* With one host socket, a game room opens its questions one by one, each  *)
(* once and with one timer of its own, times answers from their question's *)
(* start, and accepts them for questions it opened alone: whatever timers, *)
(* players, edits and disruptions come in between, and however many.       *)
(* Unless the process dies or a call raises, a game under way always has   *)
(* somebody about to take it further.                                      *)
(***************************************************************************)
EXTENDS GameAnswersProofs, FiniteSetTheorems

USE DEF row, keys, history

\* The host has one socket, which runs one message at a time.
OneHost == \A g, h \in Hosts : g = h

Distinct(ids) == \A i, j \in DOMAIN ids : ids[i] = ids[j] => i = j

\* The questions opened so far are the first ones of the order, while it is held.
OrderKept ==
    order.held => /\ Distinct(order.ids) /\ index <= Len(order.ids)
                  /\ opened = {order.ids[i] : i \in 1..index}

\* The start key is that of the running question once the question was broadcast.
StartKept ==
    order.held /\ index \in DOMAIN order.ids /\ order.ids[index] \in shown
        => startKey \in {0, index}

RoomInTurn ==
    /\ OrderKept /\ StartKept
    /\ IsFiniteSet(opened) /\ Cardinality(opened) = index
    /\ shown \subseteq opened /\ ended \subseteq opened
    /\ status \in {"waiting", "starting"} => index = 0

\* What the host's handler relies on between its steps, though timers and
\* disruptions change the room meanwhile.
HostInTurn(h) ==
    /\ host[h].pc \in {"start_commit", "start_order", "countdown"} => index = 0
    /\ host[h].pc \in {"start_commit", "start_order"} => Distinct(host[h].ids)
    /\ host[h].pc = "start_commit" => status \in {"waiting", "gone"}
    /\ host[h].pc \notin {"idle", "start_commit"} => status # "waiting"
    /\ host[h].pc \in {"start_order", "countdown", "advance", "open"}
           => status \in {"starting", "revealing", "gone"}
    /\ host[h].pc \in {"advance", "open"} => host[h].target = index + 1
    /\ host[h].pc = "open" =>
           /\ host[h].at = index /\ host[h].q \notin opened
           /\ host[h].seen \in {"starting", "revealing"}
           /\ order.held => host[h].target <= Len(order.ids)
                            /\ order.ids[host[h].target] = host[h].q
    /\ host[h].pc \in {"start_key", "send"} =>
           /\ host[h].target = index /\ index > 0
           /\ \A t \in Timers : Live(t) => timer[t].index # index
    /\ host[h].pc \in {"start_key", "send", "reveal", "board", "cast"} => host[h].q \in opened
    /\ host[h].pc = "send" => startKey \in {0, index}

TimersInTurn ==
    /\ \A t \in Timers : timer[t].pc \in {"board", "cast"} => timer[t].q \in opened
    /\ OneTimerPerQuestion

\* None of the properties below is inductive: each follows from this invariant.
TurnInv ==
    /\ TypeOK /\ RoomInTurn
    /\ \A h \in Hosts : HostInTurn(h)
    /\ TimersInTurn

-----------------------------------------------------------------------------
(* What steps leave alone.                                                 *)

\* A room that opens nothing stays in turn, even if it loses its keys.
LEMMA RoomKept ==
  ASSUME RoomInTurn, UNCHANGED <<index, opened, shown>>,
         order' \in {order, Lost}, startKey' \in {startKey, 0, index},
         ended' \subseteq opened, status' \in {"waiting", "starting"} => index = 0
  PROVE  RoomInTurn'
<1>1. OrderKept' BY DEF RoomInTurn, OrderKept, Lost
<1>2. StartKept' BY DEF RoomInTurn, StartKept, Lost
<1> QED BY <1>1, <1>2 DEF RoomInTurn

\* A handler between its steps, while a timer ends a question or a room its life.
LEMMA HostKept ==
  ASSUME NEW h \in Hosts, HostInTurn(h), host'[h] = host[h],
         UNCHANGED <<index, opened>>, order' \in {order, Lost}, startKey' \in {startKey, 0},
         status' \in {status, "gone"} \/ (status' = "revealing" /\ index > 0),
         \A t \in Timers : Live(t)' => Live(t) /\ timer'[t].index = timer[t].index
  PROVE  HostInTurn(h)'
<1>1. order'.held => order' = order BY DEF Lost
<1> QED BY <1>1 DEF HostInTurn

\* Timers that are not started or move on by a question that was opened.
LEMMA TimersKept ==
  ASSUME TimersInTurn, UNCHANGED <<index, opened>>,
         \A t \in Timers : Live(t)' => Live(t) /\ timer'[t].index = timer[t].index,
         \A t \in Timers : timer'[t].pc \in {"board", "cast"} => timer'[t].q \in opened
  PROVE  TimersInTurn'
BY DEF TimersInTurn, OneTimerPerQuestion

\* What get_current_question returns was opened.
LEMMA CurrentIsOpened ==
  ASSUME TypeOK, RoomInTurn, CurrentQuestion # 0
  PROVE  CurrentQuestion \in opened
<1>1. order.held /\ index \in DOMAIN order.ids /\ CurrentQuestion = order.ids[index]
  BY DEF CurrentQuestion
<1>2. order.ids \in Seq(Questions) /\ index \in Nat BY DEF TypeOK
<1>3. index \in 1..index BY <1>1, <1>2
<1> QED BY <1>1, <1>3 DEF RoomInTurn, OrderKept

\* A drawn order asks no question twice.
LEMMA OrdersAreDistinct ==
  ASSUME edition \in DOMAIN Editions, NEW ids \in Orders
  PROVE  Distinct(ids)
<1> DEFINE s == Editions[edition]
<1>1. ASSUME ids \in [DOMAIN s -> Bank],
             \A i, j \in DOMAIN s : ids[i] = ids[j] => i = j
      PROVE  Distinct(ids)
  BY <1>1 DEF Distinct
<1>2. Distinct(s) BY FreshIdsAssumption DEF Distinct
<1> QED BY <1>1, <1>2 DEF Orders

\* Where a handler is after Goto and Return.
LEMMA GotoMoves ==
  ASSUME TypeOK, NEW h \in Hosts, NEW step, Goto(h, step)
  PROVE  /\ host'[h].pc = step /\ host'[h].target = host[h].target
         /\ host'[h].q = host[h].q /\ host'[h].ids = host[h].ids /\ host'[h].at = host[h].at
BY DEF Goto, TypeOK, HandlerStates

LEMMA ReturnMoves ==
  ASSUME TypeOK, NEW h \in Hosts, Return(h)
  PROVE  host'[h].pc = "idle"
BY DEF Return, TypeOK, Idle

-----------------------------------------------------------------------------
(* Every step keeps the room in turn.                                      *)

\* The host's handlers: only advance_to_question opens a question.
LEMMA HostStepInTurn ==
  ASSUME OneHost, TurnInv, TypeOK', NEW h \in Hosts, HostMessage(h) \/ HostStep(h)
  PROVE  TurnInv'
<1>0. /\ TypeOK /\ RoomInTurn /\ HostInTurn(h) /\ TimersInTurn
      /\ index \in Nat /\ host[h].target \in Nat /\ host[h].at \in Nat
      /\ host \in [Hosts -> HandlerStates] /\ timer \in [Timers -> TimerStates]
      /\ order.ids \in Seq(Questions) /\ host[h].ids \in Seq(Questions)
  BY DEF TurnInv, TypeOK, HandlerStates
<1>1. SUFFICES RoomInTurn' /\ HostInTurn(h)' /\ TimersInTurn'
  BY DEF TurnInv, OneHost
<1>2. CASE StartRead(h)
  <2>1. UNCHANGED <<index, opened, shown, timer>> /\ order' = order
    BY <1>2 DEF StartRead
  <2>2. HostInTurn(h)'
    <3>1. PICK ids \in Orders :
             host' = [host EXCEPT ![h].pc = "start_commit", ![h].ids = ids]
      BY <1>2 DEF StartRead
    <3>2. host'[h].pc = "start_commit" /\ host'[h].ids = ids
      BY <1>0, <3>1 DEF HandlerStates
    <3>3. Distinct(ids) BY <1>0, OrdersAreDistinct DEF TypeOK
    <3>4. index' = 0 /\ status' = "waiting" BY <1>0, <1>2, <2>1 DEF StartRead, RoomInTurn
    <3> QED BY <3>2, <3>3, <3>4 DEF HostInTurn
  <2>8. RoomInTurn'
    BY <1>0, <1>2, <2>1, RoomKept DEF StartRead, RoomInTurn, HostInTurn, Write
  <2>9. TimersInTurn'
    BY <1>0, <2>1, TimersKept DEF Live, TimersInTurn
  <2> QED BY <1>1, <2>2, <2>8, <2>9
<1>3. CASE StartCommit(h)
  <2>1. UNCHANGED <<index, opened, shown, timer>> /\ order' = order
    BY <1>3 DEF StartCommit
  <2>2. HostInTurn(h)'
    <3>1. Goto(h, "start_order") BY <1>3 DEF StartCommit
    <3> QED BY <1>0, <1>3, <2>1, <3>1, GotoMoves DEF StartCommit, HostInTurn, Write, RoomInTurn
  <2>8. RoomInTurn'
    BY <1>0, <1>3, <2>1, RoomKept DEF StartCommit, RoomInTurn, HostInTurn, Write
  <2>9. TimersInTurn'
    BY <1>0, <2>1, TimersKept DEF Live, TimersInTurn
  <2> QED BY <1>1, <2>2, <2>8, <2>9
<1>4. CASE Countdown(h)
  <2>1. UNCHANGED <<index, opened, shown, timer>> /\ order' = order
    BY <1>4 DEF Countdown
  <2>2. HostInTurn(h)'
    <3>1. host'[h].pc = "advance" /\ host'[h].target = 1
      BY <1>0, <1>4 DEF Countdown, HandlerStates
    <3> QED BY <1>0, <1>4, <2>1, <3>1 DEF Countdown, HostInTurn
  <2>8. RoomInTurn'
    BY <1>0, <1>4, <2>1, RoomKept DEF Countdown, RoomInTurn, HostInTurn, Write
  <2>9. TimersInTurn'
    BY <1>0, <2>1, TimersKept DEF Live, TimersInTurn
  <2> QED BY <1>1, <2>2, <2>8, <2>9
<1>5. CASE NextRead(h)
  <2>1. UNCHANGED <<index, opened, shown, timer>> /\ order' = order
    BY <1>5 DEF NextRead
  <2>2. HostInTurn(h)'
    <3>1. \/ Goto(h, "refresh")
          \/ Goto(h, "end_read")
          \/ /\ status = "revealing"
             /\ host' = [host EXCEPT ![h].pc = "advance", ![h].target = index + 1]
      BY <1>5 DEF NextRead
    <3>2. \/ host'[h].pc \in {"refresh", "end_read"}
          \/ status = "revealing" /\ host'[h].pc = "advance" /\ host'[h].target = index + 1
      BY <1>0, <3>1, GotoMoves DEF HandlerStates
    <3> QED BY <1>0, <1>5, <2>1, <3>2 DEF NextRead, HostInTurn
  <2>8. RoomInTurn'
    BY <1>0, <1>5, <2>1, RoomKept DEF NextRead, RoomInTurn, HostInTurn, Write
  <2>9. TimersInTurn'
    BY <1>0, <2>1, TimersKept DEF Live, TimersInTurn
  <2> QED BY <1>1, <2>2, <2>8, <2>9
<1>6. CASE NextRefresh(h)
  <2>1. UNCHANGED <<index, opened, shown, timer>> /\ order' = order
    BY <1>6 DEF NextRefresh
  <2>2. HostInTurn(h)'
    <3>1. CASE Return(h)
      BY <1>0, <3>1, ReturnMoves DEF HostInTurn
    <3>2. CASE CurrentQuestion # 0
      <4>1. host'[h].pc = "reveal" /\ host'[h].q = CurrentQuestion
        BY <1>0, <1>6, <3>2 DEF NextRefresh, HandlerStates
      <4> QED BY <1>0, <1>6, <2>1, <3>2, <4>1, CurrentIsOpened DEF NextRefresh, HostInTurn
    <3> QED BY <1>6, <3>1, <3>2 DEF NextRefresh
  <2>8. RoomInTurn'
    BY <1>0, <1>6, <2>1, RoomKept DEF NextRefresh, RoomInTurn, HostInTurn, Write
  <2>9. TimersInTurn'
    BY <1>0, <2>1, TimersKept DEF Live, TimersInTurn
  <2> QED BY <1>1, <2>2, <2>8, <2>9
<1>7. CASE NextReveal(h)
  <2>1. UNCHANGED <<index, opened, shown, timer>> /\ order' = order
    BY <1>7 DEF NextReveal
  <2>2. HostInTurn(h)'
    <3>1. Goto(h, "board") BY <1>7 DEF NextReveal
    <3> QED BY <1>0, <1>7, <2>1, <3>1, GotoMoves DEF NextReveal, HostInTurn, Write, RoomInTurn
  <2>8. RoomInTurn'
    BY <1>0, <1>7, <2>1, RoomKept DEF NextReveal, RoomInTurn, HostInTurn, Write
  <2>9. TimersInTurn'
    BY <1>0, <2>1, TimersKept DEF Live, TimersInTurn
  <2> QED BY <1>1, <2>2, <2>8, <2>9
<1>8. CASE NextBoard(h)
  <2>1. UNCHANGED <<index, opened, shown, timer>> /\ order' = order
    BY <1>8 DEF NextBoard
  <2>2. HostInTurn(h)'
    <3>1. Goto(h, "cast") BY <1>8 DEF NextBoard
    <3> QED BY <1>0, <1>8, <2>1, <3>1, GotoMoves DEF NextBoard, HostInTurn, Write, RoomInTurn
  <2>8. RoomInTurn'
    BY <1>0, <1>8, <2>1, RoomKept DEF NextBoard, RoomInTurn, HostInTurn, Write
  <2>9. TimersInTurn'
    BY <1>0, <2>1, TimersKept DEF Live, TimersInTurn
  <2> QED BY <1>1, <2>2, <2>8, <2>9
<1>9. CASE NextCast(h)
  <2>1. UNCHANGED <<index, opened, shown, timer>> /\ order' = order
    BY <1>9 DEF NextCast
  <2>2. HostInTurn(h)'
    BY <1>0, <1>9, ReturnMoves DEF NextCast, HostInTurn
  <2>8. RoomInTurn'
    BY <1>0, <1>9, <2>1, RoomKept DEF NextCast, RoomInTurn, HostInTurn, Write
  <2>9. TimersInTurn'
    BY <1>0, <2>1, TimersKept DEF Live, TimersInTurn
  <2> QED BY <1>1, <2>2, <2>8, <2>9
<1>10. CASE AdvanceRead(h)
  <2>1. UNCHANGED <<index, opened, shown, timer>> /\ order' = order
    BY <1>10 DEF AdvanceRead
  <2>2. HostInTurn(h)'
    <3>1. \/ Goto(h, "end_read")
          \/ host' = [host EXCEPT ![h].pc = "close", ![h].seen = status]
          \/ /\ order.held /\ ~ (host[h].target > Len(order.ids))
             /\ host' = [host EXCEPT ![h].pc = "open", ![h].seen = status, ![h].at = index,
                                     ![h].q = order.ids[host[h].target]]
      BY <1>10 DEF AdvanceRead
    <3>2. CASE Goto(h, "end_read")
      BY <1>0, <1>10, <2>1, <3>2, GotoMoves DEF AdvanceRead, HostInTurn
    <3>3. CASE host' = [host EXCEPT ![h].pc = "close", ![h].seen = status]
      <4>1. host'[h].pc = "close" BY <1>0, <3>3 DEF HandlerStates
      <4> QED BY <1>0, <1>10, <2>1, <4>1 DEF AdvanceRead, HostInTurn
    <3>4. CASE /\ order.held /\ ~ (host[h].target > Len(order.ids))
               /\ host' = [host EXCEPT ![h].pc = "open", ![h].seen = status, ![h].at = index,
                                       ![h].q = order.ids[host[h].target]]
      <4>1. /\ host'[h].pc = "open" /\ host'[h].at = index /\ host'[h].target = index + 1
            /\ host'[h].seen = status /\ status \in {"starting", "revealing"}
            /\ host'[h].q = order.ids[index + 1]
        BY <1>0, <1>10, <3>4 DEF AdvanceRead, HostInTurn, HandlerStates
      <4>2. index + 1 <= Len(order.ids) /\ index + 1 \in DOMAIN order.ids
        BY <1>0, <1>10, <3>4 DEF AdvanceRead, HostInTurn
      <4>3. order.ids[index + 1] \notin opened
        <5>1. \A i \in 1..index : i \in DOMAIN order.ids /\ i # index + 1 BY <1>0, <4>2
        <5> QED BY <3>4, <1>0, <4>2, <5>1 DEF RoomInTurn, OrderKept, Distinct
      <4> QED BY <1>0, <1>10, <2>1, <4>1, <4>2, <4>3 DEF AdvanceRead, HostInTurn
    <3> QED BY <3>1, <3>2, <3>3, <3>4
  <2>8. RoomInTurn'
    BY <1>0, <1>10, <2>1, RoomKept DEF AdvanceRead, RoomInTurn, HostInTurn, Write
  <2>9. TimersInTurn'
    BY <1>0, <2>1, TimersKept DEF Live, TimersInTurn
  <2> QED BY <1>1, <2>2, <2>8, <2>9
<1>11. CASE AdvanceClose(h)
  <2>1. UNCHANGED <<index, opened, shown, timer>> /\ order' = order
    BY <1>11 DEF AdvanceClose
  <2>2. HostInTurn(h)'
    <3>1. Goto(h, "end_read") BY <1>11 DEF AdvanceClose
    <3> QED BY <1>0, <1>11, <2>1, <3>1, GotoMoves
      DEF AdvanceClose, HostInTurn, Write, RoomInTurn
  <2>8. RoomInTurn'
    BY <1>0, <1>11, <2>1, RoomKept DEF AdvanceClose, RoomInTurn, HostInTurn, Write
  <2>9. TimersInTurn'
    BY <1>0, <2>1, TimersKept DEF Live, TimersInTurn
  <2> QED BY <1>1, <2>2, <2>8, <2>9
<1>12. CASE EndRead(h)
  <2>1. UNCHANGED <<index, opened, shown, timer>> /\ order' = order
    BY <1>12 DEF EndRead
  <2>2. HostInTurn(h)'
    <3>1. host'[h].pc = "end_commit" BY <1>0, <1>12 DEF EndRead, HandlerStates
    <3> QED BY <1>0, <1>12, <2>1, <3>1 DEF EndRead, HostInTurn
  <2>8. RoomInTurn'
    BY <1>0, <1>12, <2>1, RoomKept DEF EndRead, RoomInTurn, HostInTurn, Write
  <2>9. TimersInTurn'
    BY <1>0, <2>1, TimersKept DEF Live, TimersInTurn
  <2> QED BY <1>1, <2>2, <2>8, <2>9
<1>13. CASE EndCommit(h)
  <2>1. UNCHANGED <<index, opened, shown, timer>> /\ order' = order
    BY <1>13 DEF EndCommit
  <2>2. HostInTurn(h)'
    <3>1. Goto(h, "end_board") BY <1>13 DEF EndCommit
    <3> QED BY <1>0, <1>13, <2>1, <3>1, GotoMoves DEF EndCommit, HostInTurn, Write, RoomInTurn
  <2>8. RoomInTurn'
    BY <1>0, <1>13, <2>1, RoomKept DEF EndCommit, RoomInTurn, HostInTurn, Write
  <2>9. TimersInTurn'
    BY <1>0, <2>1, TimersKept DEF Live, TimersInTurn
  <2> QED BY <1>1, <2>2, <2>8, <2>9
<1>14. CASE EndBoard(h)
  <2>1. UNCHANGED <<index, opened, shown, timer>> /\ order' = order
    BY <1>14 DEF EndBoard
  <2>2. HostInTurn(h)'
    <3>1. Goto(h, "end_cast") BY <1>14 DEF EndBoard
    <3> QED BY <1>0, <1>14, <2>1, <3>1, GotoMoves DEF EndBoard, HostInTurn, Write, RoomInTurn
  <2>8. RoomInTurn'
    BY <1>0, <1>14, <2>1, RoomKept DEF EndBoard, RoomInTurn, HostInTurn, Write
  <2>9. TimersInTurn'
    BY <1>0, <2>1, TimersKept DEF Live, TimersInTurn
  <2> QED BY <1>1, <2>2, <2>8, <2>9
<1>15. CASE EndCast(h)
  <2>1. UNCHANGED <<index, opened, shown, timer>> /\ order' = order
    BY <1>15 DEF EndCast
  <2>2. HostInTurn(h)'
    BY <1>0, <1>15, ReturnMoves DEF EndCast, HostInTurn
  <2>8. RoomInTurn'
    BY <1>0, <1>15, <2>1, RoomKept DEF EndCast, RoomInTurn, HostInTurn, Write
  <2>9. TimersInTurn'
    BY <1>0, <2>1, TimersKept DEF Live, TimersInTurn
  <2> QED BY <1>1, <2>2, <2>8, <2>9
<1>16. CASE HostGone(h)
  <2>1. UNCHANGED <<index, opened, shown, timer>> /\ order' = order
    BY <1>16 DEF HostGone
  <2>2. HostInTurn(h)'
    BY <1>0, <1>16, ReturnMoves DEF HostGone, HostInTurn
  <2>8. RoomInTurn'
    BY <1>0, <1>16, <2>1, RoomKept DEF HostGone, RoomInTurn, HostInTurn, Write
  <2>9. TimersInTurn'
    BY <1>0, <2>1, TimersKept DEF Live, TimersInTurn
  <2> QED BY <1>1, <2>2, <2>8, <2>9
<1>17. CASE StartOrder(h)
  <2>1. /\ UNCHANGED <<status, index, opened, shown, ended, startKey, timer>>
        /\ order' = [held |-> TRUE, ids |-> host[h].ids]
    BY <1>17 DEF StartOrder
  <2>2. index = 0 /\ Distinct(host[h].ids) /\ opened = {} /\ status # "waiting"
    BY <1>0, <1>17, FS_EmptySet DEF StartOrder, HostInTurn, RoomInTurn
  <2>3. host'[h].pc = "countdown" BY <1>0, <1>17 DEF StartOrder, Idle
  <2>4. HostInTurn(h)' BY <1>0, <1>17, <2>1, <2>2, <2>3 DEF StartOrder, HostInTurn
  <2>5. OrderKept' BY <1>0, <2>1, <2>2 DEF OrderKept
  <2>6. StartKept' BY <1>0, <2>1, <2>2 DEF StartKept
  <2>7. RoomInTurn' BY <1>0, <2>1, <2>2, <2>5, <2>6 DEF RoomInTurn
  <2>8. TimersInTurn' BY <1>0, <2>1, TimersKept DEF Live, TimersInTurn
  <2> QED BY <1>1, <2>4, <2>7, <2>8
<1>18. CASE AdvanceOpen(h)
  <2> DEFINE q == host[h].q
  <2>1. /\ UNCHANGED <<order, shown, ended, startKey, timer>>
        /\ index' = index + 1 /\ opened' = opened \cup {q} /\ q \notin opened
        /\ host[h].target = index + 1
        /\ order.held => index + 1 <= Len(order.ids) /\ order.ids[index + 1] = q
    BY <1>0, <1>18 DEF AdvanceOpen, HostInTurn, Write
  <2>2. host'[h].pc = "start_key" /\ host'[h].target = index + 1 /\ host'[h].q = q
    BY <1>0, <1>18, <2>1, GotoMoves DEF AdvanceOpen
  <2>3. status' = "question"
    BY <1>0, <1>18 DEF AdvanceOpen, HostInTurn, Write
  <2>4. \A t \in Timers : Live(t) => timer[t].index \in 1..index
    BY <1>0 DEF TimersInTurn, OneTimerPerQuestion
  <2>5. HostInTurn(h)'
    BY <1>0, <2>1, <2>2, <2>3, <2>4 DEF HostInTurn, Live
  <2>6. OrderKept'
    <3>1. 1..(index + 1) = (1..index) \cup {index + 1} BY <1>0
    <3> QED BY <1>0, <2>1, <3>1 DEF RoomInTurn, OrderKept
  <2>7. StartKept' BY <1>0, <2>1 DEF RoomInTurn, StartKept
  <2>8. IsFiniteSet(opened') /\ Cardinality(opened') = index'
    BY <1>0, <2>1, FS_AddElement DEF RoomInTurn
  <2>9. RoomInTurn' BY <1>0, <2>1, <2>3, <2>6, <2>7, <2>8 DEF RoomInTurn
  <2>10. TimersInTurn'
    BY <1>0, <2>1, <2>4 DEF TimersInTurn, OneTimerPerQuestion, Live
  <2> QED BY <1>1, <2>5, <2>9, <2>10
<1>19. CASE AdvanceStartKey(h)
  <2>1. UNCHANGED <<status, index, order, opened, shown, ended, timer>> /\ startKey' = index
    BY <1>0, <1>19 DEF AdvanceStartKey, HostInTurn
  <2>2. /\ host'[h].pc \in {"send", "end_read"} /\ host'[h].q = host[h].q
        /\ host'[h].target = host[h].target
    BY <1>0, <1>19, GotoMoves DEF AdvanceStartKey
  <2>3. HostInTurn(h)'
    BY <1>0, <1>19, <2>1, <2>2 DEF AdvanceStartKey, HostInTurn, Live
  <2>4. RoomInTurn' BY <1>0, <2>1, RoomKept DEF RoomInTurn
  <2>5. TimersInTurn' BY <1>0, <2>1, TimersKept DEF Live, TimersInTurn
  <2> QED BY <1>1, <2>3, <2>4, <2>5
<1>20. CASE SendQuestion(h)
  <2>1. /\ UNCHANGED <<status, index, order, opened, ended, startKey>>
        /\ shown' = shown \cup {host[h].q} /\ host[h].q \in opened
        /\ startKey \in {0, index} /\ host[h].target = index /\ index > 0
        /\ \A t \in Timers : Live(t) => timer[t].index # index
    BY <1>0, <1>20 DEF SendQuestion, HostInTurn
  <2>2. HostInTurn(h)' BY <1>0, <1>20, ReturnMoves DEF SendQuestion, HostInTurn
  <2>3. OrderKept' /\ StartKept' BY <1>0, <2>1 DEF RoomInTurn, OrderKept, StartKept
  <2>4. RoomInTurn' BY <1>0, <2>1, <2>3 DEF RoomInTurn
  <2>5. PICK t \in Timers :
           timer' = [timer EXCEPT ![t] = [pc |-> "asleep", index |-> index, q |-> 0]]
    BY <1>20, <2>1 DEF SendQuestion
  <2>6. /\ timer'[t].pc = "asleep" /\ timer'[t].index = index
        /\ \A s \in Timers : s # t => timer'[s] = timer[s]
    BY <1>0, <2>5
  <2>7. TimersInTurn'
    BY <1>0, <2>1, <2>6 DEF TimersInTurn, OneTimerPerQuestion, Live
  <2> QED BY <1>1, <2>2, <2>4, <2>7
<1> QED
  BY <1>2, <1>3, <1>4, <1>5, <1>6, <1>7, <1>8, <1>9, <1>10, <1>11, <1>12, <1>13, <1>14,
     <1>15, <1>16, <1>17, <1>18, <1>19, <1>20 DEF HostMessage, HostStep

\* A question timer, however late: it ends questions and opens none.
LEMMA TimerStepInTurn ==
  ASSUME TurnInv, TypeOK', NEW t \in Timers, TimerStep(t)
  PROVE  TurnInv'
<1>0. /\ TypeOK /\ RoomInTurn /\ TimersInTurn /\ timer \in [Timers -> TimerStates]
      /\ \A h \in Hosts : HostInTurn(h)
  BY DEF TurnInv, TypeOK
<1>a. /\ UNCHANGED <<index, order, opened, shown, startKey, host>>
      /\ status' = status \/ (status' = "revealing" /\ timer[t].pc # "free")
  BY DEF TimerStep, TimeoutRead, TimeoutReveal, TimeoutQuestion, TimeoutBoard, TimeoutCast,
         TimeoutGone
<1>b. timer[t].pc # "free" => index > 0
  BY <1>0 DEF TimersInTurn, OneTimerPerQuestion, Live, TypeOK, TimerStates
<1>1. /\ UNCHANGED <<index, order, opened, shown, startKey, host>>
      /\ status' = status \/ (status' = "revealing" /\ index > 0)
  BY <1>a, <1>b
<1>2. /\ \A s \in Timers : s # t => timer'[s] = timer[s]
      /\ Live(t) /\ (Live(t)' => timer'[t].index = timer[t].index)
      /\ timer'[t].pc \in {"board", "cast"} => timer'[t].q \in opened
  <2>1. CASE TimeoutRead(t)
    BY <1>0, <2>1 DEF TimeoutRead, Live, Free, TimerStates
  <2>2. CASE TimeoutReveal(t)
    BY <1>0, <2>2 DEF TimeoutReveal, Live, TimerStates
  <2>3. CASE TimeoutQuestion(t)
    <3>1. CASE CurrentQuestion = 0
      BY <1>0, <2>3, <3>1 DEF TimeoutQuestion, Live, Free, TimerStates
    <3>2. CASE CurrentQuestion # 0
      <4>1. timer' = [timer EXCEPT ![t].pc = "board", ![t].q = CurrentQuestion]
        BY <2>3, <3>2 DEF TimeoutQuestion
      <4>2. /\ timer'[t].pc = "board" /\ timer'[t].q = CurrentQuestion
            /\ timer'[t].index = timer[t].index
            /\ \A s \in Timers : s # t => timer'[s] = timer[s]
        BY <1>0, <4>1 DEF TimerStates
      <4> QED BY <1>0, <2>3, <3>2, <4>2, CurrentIsOpened DEF TimeoutQuestion, Live
    <3> QED BY <3>1, <3>2
  <2>4. CASE TimeoutBoard(t)
    BY <1>0, <2>4 DEF TimeoutBoard, Live, TimerStates, TimersInTurn
  <2>5. CASE TimeoutCast(t)
    BY <1>0, <2>5 DEF TimeoutCast, Live, Free, TimerStates
  <2>6. CASE TimeoutGone(t)
    BY <1>0, <2>6 DEF TimeoutGone, Live, Free, TimerStates
  <2> QED BY <2>1, <2>2, <2>3, <2>4, <2>5, <2>6 DEF TimerStep
<1>3. ended' \subseteq opened
  BY <1>0 DEF TimerStep, TimeoutRead, TimeoutReveal, TimeoutQuestion, TimeoutBoard,
              TimeoutCast, TimeoutGone, RoomInTurn, TimersInTurn
<1>4. RoomInTurn' BY <1>0, <1>1, <1>3, RoomKept DEF RoomInTurn
<1>5. \A s \in Timers : Live(s)' => Live(s) /\ timer'[s].index = timer[s].index
  BY <1>2 DEF Live
<1>6. ASSUME NEW h \in Hosts PROVE HostInTurn(h)'
  BY <1>0, <1>1, <1>5, HostKept
<1>7. TimersInTurn'
  <2>1. \A s \in Timers : timer'[s].pc \in {"board", "cast"} => timer'[s].q \in opened
    BY <1>0, <1>2 DEF TimersInTurn
  <2> QED BY <1>0, <1>1, <1>5, <2>1, TimersKept
<1> QED BY <1>4, <1>6, <1>7 DEF TurnInv

\* Lost keys, raising calls, a restart, an edited or a deleted quiz.
LEMMA DisruptionInTurn ==
  ASSUME TurnInv, TypeOK', KeysExpire \/ CallRaises \/ Crash \/ EditQuiz \/ DeleteQuiz
  PROVE  TurnInv'
<1>0. /\ TypeOK /\ RoomInTurn /\ TimersInTurn /\ timer \in [Timers -> TimerStates]
      /\ host \in [Hosts -> HandlerStates]
      /\ \A h \in Hosts : HostInTurn(h)
  BY DEF TurnInv, TypeOK
<1>1. /\ UNCHANGED <<index, opened, shown, ended>> /\ order' \in {order, Lost}
      /\ startKey' \in {startKey, 0} /\ status' \in {status, "gone"}
  BY DEF KeysExpire, CallRaises, Crash, EditQuiz, DeleteQuiz
<1>2. \A s \in Timers : timer'[s] = timer[s] \/ timer'[s] = Free
  BY <1>0 DEF KeysExpire, CallRaises, Crash, EditQuiz, DeleteQuiz
<1>3. \A h \in Hosts : host'[h] = host[h] \/ host'[h] = Idle
  BY <1>0 DEF KeysExpire, CallRaises, Crash, EditQuiz, DeleteQuiz, Return
<1>4. RoomInTurn'
  <2>1. startKey' \in {startKey, 0, index} /\ ended' \subseteq opened
    BY <1>0, <1>1 DEF RoomInTurn
  <2> QED BY <1>0, <1>1, <2>1, RoomKept DEF RoomInTurn
<1>5. \A s \in Timers : Live(s)' => Live(s) /\ timer'[s].index = timer[s].index
  BY <1>2 DEF Live, Free
<1>6. ASSUME NEW h \in Hosts PROVE HostInTurn(h)'
  <2>1. CASE host'[h] = host[h] BY <1>0, <1>1, <1>5, <2>1, HostKept
  <2>2. CASE host'[h] = Idle BY <2>2 DEF HostInTurn, Idle
  <2> QED BY <1>3, <2>1, <2>2
<1>7. TimersInTurn'
  <2>1. \A s \in Timers : timer'[s].pc \in {"board", "cast"} => timer'[s].q \in opened
    BY <1>0, <1>2 DEF TimersInTurn, Free
  <2> QED BY <1>0, <1>1, <1>5, <2>1, TimersKept
<1> QED BY <1>4, <1>6, <1>7 DEF TurnInv

\* A room of which the ranking and the count of disruptions alone may change.
LEMMA StutterInTurn ==
  ASSUME TurnInv, TypeOK', UNCHANGED <<row, order, startKey, host, timer, history>>
  PROVE  TurnInv'
BY DEF TurnInv, RoomInTurn, OrderKept, StartKept, HostInTurn, TimersInTurn, Live,
       OneTimerPerQuestion

LEMMA RoomInitInTurn == RoomInit => TurnInv
<1> SUFFICES ASSUME RoomInit PROVE TurnInv
  OBVIOUS
<1>1. TypeOK
  <2>1. 1 \in DOMAIN Editions BY EditionsAssumption
  <2>2. Carried BY DEF RoomInit, Carried, Idle, Free
  <2>3. /\ host \in [Hosts -> HandlerStates] /\ timer \in [Timers -> TimerStates]
        /\ order \in [held : BOOLEAN, ids : Seq(Questions)]
    BY IdleType DEF RoomInit
  <2>4. disrupted \in 0..MaxDisruptions BY ChoicesAssumption DEF RoomInit
  <2> QED BY <2>1, <2>2, <2>3, <2>4, Names DEF RoomInit, TypeOK
<1>2. RoomInTurn
  BY FS_EmptySet DEF RoomInit, RoomInTurn, OrderKept, StartKept, Lost
<1>3. \A h \in Hosts : HostInTurn(h) BY DEF RoomInit, HostInTurn, Idle
<1>4. TimersInTurn BY DEF RoomInit, TimersInTurn, OneTimerPerQuestion, Live, Free
<1> QED BY <1>1, <1>2, <1>3, <1>4 DEF TurnInv

LEMMA RoomStepInTurn ==
  ASSUME OneHost, TurnInv, [RoomNext]_roomVars
  PROVE  TurnInv'
<1>1. TypeOK' BY RoomTypeOK DEF TurnInv
<1>2. CASE UNCHANGED roomVars BY <1>1, <1>2, StutterInTurn DEF roomVars
<1>3. CASE RoomNext
  BY <1>1, <1>3, HostStepInTurn, TimerStepInTurn, DisruptionInTurn DEF RoomNext, Handlers
<1> QED BY <1>2, <1>3

\* An index that moves does so by advance_to_question, from where the handler found it.
LEMMA IndexMovesInTurn ==
  ASSUME OneHost, TurnInv, RoomNext, index' # index
  PROVE  index' = index + 1 /\ status \in {"starting", "revealing"}
<1>1. PICK h \in Hosts : AdvanceOpen(h)
  BY DEF RoomNext, Handlers, HostMessage, HostStep, TimerStep, StartRead, NextRead,
     StartCommit, StartOrder, Countdown, NextRefresh, NextReveal, NextBoard, NextCast,
     AdvanceRead, AdvanceClose, AdvanceStartKey, SendQuestion, EndRead, EndCommit, EndBoard,
     EndCast, HostGone, TimeoutRead, TimeoutReveal, TimeoutQuestion, TimeoutBoard,
     TimeoutCast, TimeoutGone, KeysExpire, CallRaises, Crash, EditQuiz, DeleteQuiz
<1> QED BY <1>1 DEF TurnInv, HostInTurn, AdvanceOpen, Write

LEMMA TurnInvariant ==
  ASSUME OneHost
  PROVE  RoomSpec => []TurnInv
<1>1. TurnInv /\ [RoomNext]_roomVars => TurnInv'
  BY RoomStepInTurn
<1> QED BY <1>1, RoomInitInTurn, PTL DEF RoomSpec

-----------------------------------------------------------------------------
(* The room's theorems.                                                    *)

\* GameRoom: the row, the keys, the handlers and the timers stay well typed, for any
\* number of host sockets.
THEOREM RoomTypeCorrect == RoomSpec => []TypeOK
<1>1. RoomInit => TypeOK
  BY RoomInitInTurn DEF TurnInv
<1> QED BY <1>1, RoomTypeOK, PTL DEF RoomSpec

\* GameRoom: as many questions were opened as the index says, and only their answers
\* were broadcast, whatever index a late timer reads and whatever happens to the quiz.
THEOREM OpenedOnceHolds ==
  ASSUME OneHost
  PROVE  RoomSpec => []OpenedOnce
<1>1. TurnInv => OpenedOnce BY DEF TurnInv, RoomInTurn, OpenedOnce
<1> QED BY <1>1, TurnInvariant, PTL

\* GameRoom: no two live timers watch one index, and none an index to come.
THEOREM OneTimerHolds ==
  ASSUME OneHost
  PROVE  RoomSpec => []OneTimerPerQuestion
<1>1. TurnInv => OneTimerPerQuestion BY DEF TurnInv, TimersInTurn
<1> QED BY <1>1, TurnInvariant, PTL

\* GameRoom: once a question was broadcast, answers to it are timed from its own start
\* or from none, though the state is committed before the key is stored.
THEOREM TimedFromOwnStartHolds ==
  ASSUME OneHost
  PROVE  RoomSpec => []TimedFromOwnStart
<1>1. TurnInv => TimedFromOwnStart
  <2> SUFFICES ASSUME TurnInv, CurrentQuestion \in shown PROVE startKey \in {0, index}
    BY DEF TimedFromOwnStart
  <2>1. CurrentQuestion # 0 BY QuestionsAssumption DEF TurnInv, TypeOK
  <2>2. order.held /\ index \in DOMAIN order.ids /\ CurrentQuestion = order.ids[index]
    BY <2>1 DEF CurrentQuestion
  <2> QED BY <2>2 DEF TurnInv, RoomInTurn, StartKept
<1> QED BY <1>1, TurnInvariant, PTL

\* GameRoom: the index moves by one, from the countdown or from a question that was
\* ended, though it is read in one session and written in another.
THEOREM QuestionsComeInTurn ==
  ASSUME OneHost
  PROVE  RoomSpec => QuestionsInTurn
<1>1. TurnInv /\ [RoomNext]_roomVars =>
          [index' # index => index' = index + 1 /\ status \in {"starting", "revealing"}]_roomVars
  BY IndexMovesInTurn
<1> QED BY <1>1, TurnInvariant, PTL DEF RoomSpec, QuestionsInTurn

-----------------------------------------------------------------------------
(* The lifecycle, its promises of progress aside.                          *)

\* A step of the host's handlers is a step of the lifecycle, or none.
LEMMA HostStepImplements ==
  ASSUME OneHost, TurnInv, NEW h \in Hosts, HostMessage(h) \/ HostStep(h)
  PROVE  [Lifecycle!Next]_Lifecycle!vars
<1>0. HostInTurn(h) /\ RoomInTurn /\ TypeOK /\ index \in Nat /\ status \in Statuses
  BY DEF TurnInv, TypeOK
<1>1. CASE StartCommit(h)
  <2>1. status = "waiting" BY <1>0, <1>1 DEF StartCommit, HostInTurn
  <2> QED BY <1>1, <2>1 DEF StartCommit, Lifecycle!Next, Lifecycle!Start
<1>2. CASE NextReveal(h)
  <2>1. index > 0
    <3>1. opened # {} BY <1>0, <1>2 DEF NextReveal, HostInTurn
    <3> QED BY <1>0, <3>1, FS_EmptySet DEF RoomInTurn
  <2>2. status \in {"question", "revealing", "finished"}
    BY <1>0, <1>2, <2>1 DEF NextReveal, RoomInTurn, Statuses
  <2>3. status' \in {status, "revealing"} /\ index' = index BY <1>2 DEF NextReveal, Write
  <2> QED BY <2>2, <2>3
    DEF Lifecycle!Next, Lifecycle!Reveal, Lifecycle!Reopen, Lifecycle!vars
<1>3. CASE AdvanceOpen(h)
  <2>1. /\ status \in {"starting", "revealing"} /\ status' = "question"
        /\ index' = index + 1
    BY <1>0, <1>3 DEF AdvanceOpen, HostInTurn, Write
  <2> QED BY <2>1 DEF Lifecycle!Next, Lifecycle!Ask
<1>4. CASE AdvanceClose(h) \/ EndCommit(h)
  <2>1. /\ status \in Statuses \ {"waiting", "gone"} /\ index' = index
        /\ status' \in {status, "finished"}
    BY <1>0, <1>4 DEF AdvanceClose, EndCommit, HostInTurn, Write
  <2> QED BY <2>1 DEF Statuses, Lifecycle!Next, Lifecycle!Finish, Lifecycle!vars
<1>5. CASE UNCHANGED <<status, index>>
  BY <1>5 DEF Lifecycle!vars
<1> QED
  BY <1>1, <1>2, <1>3, <1>4, <1>5 DEF HostMessage, HostStep, StartRead, NextRead, StartOrder,
     Countdown, NextRefresh, NextBoard, NextCast, AdvanceRead, AdvanceStartKey, SendQuestion,
     EndRead, EndBoard, EndCast, HostGone

\* So is a step of a timer, which may bring a finished room back (Reopen).
LEMMA TimerStepImplements ==
  ASSUME TurnInv, NEW t \in Timers, TimerStep(t)
  PROVE  [Lifecycle!Next]_Lifecycle!vars
<1>1. CASE TimeoutReveal(t)
  <2>1. index > 0 /\ status \in {"question", "revealing", "finished"}
    <3>1. timer[t].index \in 1..index /\ index \in Nat
      BY <1>1 DEF TimeoutReveal, TurnInv, TimersInTurn, OneTimerPerQuestion, Live, TypeOK
    <3> QED BY <1>1, <3>1 DEF TimeoutReveal, TurnInv, RoomInTurn, TypeOK, Statuses
  <2>2. status' = "revealing" /\ index' = index BY <1>1 DEF TimeoutReveal
  <2> QED BY <2>1, <2>2
    DEF Lifecycle!Next, Lifecycle!Reveal, Lifecycle!Reopen, Lifecycle!vars
<1>2. CASE UNCHANGED <<status, index>>
  BY <1>2 DEF Lifecycle!vars
<1> QED
  BY <1>1, <1>2 DEF TimerStep, TimeoutRead, TimeoutQuestion, TimeoutBoard, TimeoutCast,
     TimeoutGone

\* GameRoom implements the safety part of RoomLifecycle: questions are asked one after
\* the other, each is ended before the next, and only a late timer reopens a game.
THEOREM LifecycleImplemented ==
  ASSUME OneHost
  PROVE  RoomSpec => Lifecycle!Init /\ [][Lifecycle!Next]_Lifecycle!vars
<1>1. RoomInit => Lifecycle!Init BY DEF RoomInit, Lifecycle!Init
<1>2. TurnInv /\ [RoomNext]_roomVars => [Lifecycle!Next]_Lifecycle!vars
  <2> SUFFICES ASSUME TurnInv, [RoomNext]_roomVars PROVE [Lifecycle!Next]_Lifecycle!vars
    OBVIOUS
  <2>1. CASE Handlers
    BY <2>1, HostStepImplements, TimerStepImplements DEF Handlers
  <2>2. CASE UNCHANGED roomVars \/ KeysExpire \/ CallRaises \/ Crash \/ EditQuiz
    BY <2>2 DEF roomVars, KeysExpire, CallRaises, Crash, EditQuiz, Lifecycle!vars
  <2>3. CASE DeleteQuiz
    BY <2>3 DEF DeleteQuiz, Lifecycle!Next, Lifecycle!Remove
  <2> QED BY <2>1, <2>2, <2>3 DEF RoomNext
<1> QED BY <1>1, <1>2, TurnInvariant, PTL DEF RoomSpec

-----------------------------------------------------------------------------
(* A game under way is attended to.                                        *)

\* The process does not die and no call raises: after either nothing resumes a room.
Quiet == Disruptions \cap {"exception", "crash"} = {}

\* A handler that is about to end the countdown: what it read, if it is about to commit,
\* makes its commit write the row.
EndsCountdown(h) ==
    \/ host[h].pc \in {"start_order", "countdown", "advance", "close", "end_read"}
    \/ host[h].pc = "open" /\ host[h].seen # "question"
    \/ host[h].pc = "end_commit" /\ host[h].seen # "finished"

\* One that is about to give the running question its timer, or to end the game.
SetsTimer(h) ==
    \/ host[h].pc \in {"start_key", "send", "end_read"}
    \/ host[h].pc = "end_commit" /\ host[h].seen # "finished"

Watches(t) == timer[t].pc \in {"asleep", "reveal"} /\ timer[t].index = index

\* One that is about to announce the end.
Announces(h) == host[h].pc \in {"end_read", "end_commit", "end_board", "end_cast"}

CountdownInv == status = "starting" => \E h \in Hosts : EndsCountdown(h)
QuestionInv  == status = "question" =>
                    (\E t \in Timers : Watches(t)) \/ (\E h \in Hosts : SetsTimer(h))

\* A handler moves itself alone.
LEMMA HandlersMoveAlone ==
  ASSUME TypeOK, NEW g \in Hosts, HostMessage(g) \/ HostStep(g)
  PROVE  \A h \in Hosts : h # g => host'[h] = host[h]
BY DEF HostMessage, HostStep, StartRead, NextRead, StartCommit, StartOrder, Countdown,
   NextRefresh, NextReveal, NextBoard, NextCast, AdvanceRead, AdvanceClose, AdvanceOpen,
   AdvanceStartKey, SendQuestion, EndRead, EndCommit, EndBoard, EndCast, HostGone, Goto,
   Return, TypeOK

\* While the room stays in its countdown, who is about to end it stays so.
LEMMA CountdownGoesOn ==
  ASSUME TypeOK, NEW h \in Hosts, EndsCountdown(h), HostMessage(h) \/ HostStep(h),
         status = "starting", status' = "starting"
  PROVE  EndsCountdown(h)'
<1>0. host \in [Hosts -> HandlerStates] BY DEF TypeOK
<1>1. CASE StartOrder(h)
  BY <1>0, <1>1 DEF StartOrder, EndsCountdown, Idle
<1>2. CASE Countdown(h)
  BY <1>0, <1>2 DEF Countdown, EndsCountdown, HandlerStates
<1>3. CASE AdvanceRead(h)
  <2>1. \/ host'[h].pc \in {"end_read", "close"}
        \/ host'[h].pc = "open" /\ host'[h].seen = "starting"
    BY <1>0, <1>3 DEF AdvanceRead, Goto, HandlerStates
  <2> QED BY <2>1 DEF EndsCountdown
<1>4. CASE AdvanceClose(h)
  BY <1>4, GotoMoves DEF AdvanceClose, EndsCountdown
<1>5. CASE EndRead(h)
  <2>1. host'[h].pc = "end_commit" /\ host'[h].seen = "starting"
    BY <1>0, <1>5 DEF EndRead, HandlerStates
  <2> QED BY <2>1 DEF EndsCountdown
<1>6. ~ AdvanceOpen(h) /\ ~ EndCommit(h) /\ ~ HostGone(h)
  BY DEF AdvanceOpen, EndCommit, HostGone, EndsCountdown, Write
<1> QED
  BY <1>1, <1>2, <1>3, <1>4, <1>5, <1>6 DEF EndsCountdown, HostMessage, HostStep, StartRead,
     NextRead, StartCommit, NextRefresh, NextReveal, NextBoard, NextCast, AdvanceStartKey,
     SendQuestion, EndBoard, EndCast

\* A finished game is announced by whoever is about to.
LEMMA EndGoesOn ==
  ASSUME TypeOK, NEW h \in Hosts, Announces(h), HostMessage(h) \/ HostStep(h),
         status = "finished", ~ announced'
  PROVE  Announces(h)'
<1>0. host \in [Hosts -> HandlerStates] BY DEF TypeOK
<1>1. CASE EndRead(h) BY <1>0, <1>1 DEF EndRead, Announces, HandlerStates
<1>2. CASE EndCommit(h) \/ EndBoard(h)
  BY <1>2, GotoMoves DEF EndCommit, EndBoard, Announces
<1> QED
  BY <1>1, <1>2 DEF Announces, HostMessage, HostStep, StartRead, NextRead, StartCommit,
     StartOrder, Countdown, NextRefresh, NextReveal, NextBoard, NextCast, AdvanceRead,
     AdvanceClose, AdvanceOpen, AdvanceStartKey, SendQuestion, EndCast, HostGone

\* Only a handler brings the room into its countdown or to its end, and is then itself
\* about to go on.
LEMMA StatusComesFromHandlers ==
  ASSUME TypeOK, RoomNext
  PROVE  /\ status' = "starting" /\ status # "starting" =>
                \E g \in Hosts : host'[g].pc = "start_order"
         /\ status' = "finished" /\ status # "finished" =>
                \E g \in Hosts : host'[g].pc \in {"end_read", "end_board"}
         /\ status' = "question" /\ (status # "question" \/ index' # index) =>
                \E g \in Hosts : host'[g].pc = "start_key"
         /\ announced => announced'
<1>1. ASSUME NEW g \in Hosts,
             StartCommit(g) \/ AdvanceClose(g) \/ AdvanceOpen(g) \/ EndCommit(g)
      PROVE  /\ status' = "starting" /\ status # "starting" => host'[g].pc = "start_order"
             /\ status' = "finished" /\ status # "finished" =>
                    host'[g].pc \in {"end_read", "end_board"}
             /\ status' = "question" /\ (status # "question" \/ index' # index) =>
                    host'[g].pc = "start_key"
             /\ announced => announced'
  <2>1. CASE StartCommit(g)
    <3>1. host'[g].pc = "start_order" BY <2>1, GotoMoves DEF StartCommit
    <3> QED BY <2>1, <3>1 DEF StartCommit
  <2>2. CASE AdvanceClose(g)
    <3>1. host'[g].pc = "end_read" BY <2>2, GotoMoves DEF AdvanceClose
    <3>2. status' \in {status, "finished"} /\ index' = index /\ announced' = announced
      BY <2>2 DEF AdvanceClose, Write
    <3> QED BY <3>1, <3>2
  <2>3. CASE AdvanceOpen(g)
    <3>1. host'[g].pc = "start_key" BY <2>3, GotoMoves DEF AdvanceOpen
    <3>2. status' \in {status, "question"} /\ announced' = announced
      BY <2>3 DEF AdvanceOpen, Write
    <3> QED BY <3>1, <3>2
  <2>4. CASE EndCommit(g)
    <3>1. host'[g].pc = "end_board" BY <2>4, GotoMoves DEF EndCommit
    <3> QED BY <2>4, <3>1 DEF EndCommit, Write
  <2> QED BY <1>1, <2>1, <2>2, <2>3, <2>4
<1>2. ASSUME NEW g \in Hosts, HostMessage(g) \/ HostStep(g),
             ~ (StartCommit(g) \/ AdvanceClose(g) \/ AdvanceOpen(g) \/ EndCommit(g))
      PROVE  status' \in {status, "revealing"} /\ index' = index /\ (announced => announced')
  <2>1. CASE NextReveal(g) BY <2>1 DEF NextReveal, Write
  <2>2. CASE \/ StartRead(g) \/ NextRead(g) \/ StartOrder(g) \/ Countdown(g) \/ NextRefresh(g)
             \/ NextBoard(g) \/ NextCast(g) \/ AdvanceRead(g) \/ AdvanceStartKey(g)
    BY <2>2 DEF StartRead, NextRead, StartOrder, Countdown, NextRefresh, NextBoard, NextCast,
       AdvanceRead, AdvanceStartKey
  <2>3. CASE SendQuestion(g) \/ EndRead(g) \/ EndBoard(g) \/ EndCast(g) \/ HostGone(g)
    BY <2>3 DEF SendQuestion, EndRead, EndBoard, EndCast, HostGone
  <2> QED BY <1>2, <2>1, <2>2, <2>3 DEF HostMessage, HostStep
<1>3. ASSUME NEW t \in Timers, TimerStep(t)
      PROVE  status' \in {status, "revealing"} /\ index' = index /\ announced' = announced
  BY <1>3 DEF TimerStep, TimeoutRead, TimeoutReveal, TimeoutQuestion, TimeoutBoard,
     TimeoutCast, TimeoutGone
<1>4. CASE KeysExpire \/ CallRaises \/ Crash \/ EditQuiz \/ DeleteQuiz
  <2>1. status' \in {status, "gone"} /\ index' = index /\ announced' = announced
    BY <1>4 DEF KeysExpire, CallRaises, Crash, EditQuiz, DeleteQuiz
  <2> QED BY <2>1
<1> QED BY <1>1, <1>2, <1>3, <1>4 DEF RoomNext, Handlers

\* Steps of timers and what may happen to a room that loses no handler.
LEMMA OthersKeepHandlers ==
  ASSUME Quiet, RoomNext, ~ \E h \in Hosts : HostMessage(h) \/ HostStep(h)
  PROVE  host' = host
BY DEF Quiet, RoomNext, Handlers, TimerStep, TimeoutRead, TimeoutReveal, TimeoutQuestion,
   TimeoutBoard, TimeoutCast, TimeoutGone, KeysExpire, CallRaises, Crash, EditQuiz,
   DeleteQuiz, Disrupt

LEMMA CountdownAndEndStep ==
  ASSUME Quiet, TypeOK, CountdownInv, EndAttended, [RoomNext]_roomVars
  PROVE  CountdownInv' /\ EndAttended'
<1>1. CASE UNCHANGED roomVars
  BY <1>1 DEF roomVars, CountdownInv, EndsCountdown, EndAttended
<1>2. CASE RoomNext
  <2>1. ASSUME status' = "starting" PROVE \E h \in Hosts : EndsCountdown(h)'
    <3>1. CASE status # "starting"
      BY <1>2, <2>1, <3>1, StatusComesFromHandlers DEF EndsCountdown
    <3>2. CASE status = "starting"
      <4>1. PICK h \in Hosts : EndsCountdown(h) BY <3>2 DEF CountdownInv
      <4>2. CASE host'[h] = host[h] BY <4>1, <4>2 DEF EndsCountdown
      <4>3. CASE host'[h] # host[h]
        <5>1. HostMessage(h) \/ HostStep(h)
          BY <1>2, <4>3, HandlersMoveAlone, OthersKeepHandlers
        <5> QED BY <2>1, <3>2, <4>1, <5>1, CountdownGoesOn
      <4> QED BY <4>2, <4>3
    <3> QED BY <3>1, <3>2
  <2>2. ASSUME status' = "finished", ~ announced' PROVE \E h \in Hosts : Announces(h)'
    <3>1. CASE status # "finished"
      BY <1>2, <2>2, <3>1, StatusComesFromHandlers DEF Announces
    <3>2. CASE status = "finished"
      <4>1. PICK h \in Hosts : Announces(h)
        BY <1>2, <2>2, <3>2, StatusComesFromHandlers DEF EndAttended, Announces
      <4>2. CASE host'[h] = host[h] BY <4>1, <4>2 DEF Announces
      <4>3. CASE host'[h] # host[h]
        <5>1. HostMessage(h) \/ HostStep(h)
          BY <1>2, <4>3, HandlersMoveAlone, OthersKeepHandlers
        <5> QED BY <2>2, <3>2, <4>1, <5>1, EndGoesOn
      <4> QED BY <4>2, <4>3
    <3> QED BY <3>1, <3>2
  <2> QED BY <2>1, <2>2 DEF CountdownInv, EndAttended, Announces
<1> QED BY <1>1, <1>2

LEMMA CountdownAndEndInvariant ==
  ASSUME Quiet
  PROVE  RoomSpec => [](CountdownInv /\ EndAttended)
<1>1. RoomInit => CountdownInv /\ EndAttended BY DEF RoomInit, CountdownInv, EndAttended
<1>2. TypeOK /\ CountdownInv /\ EndAttended /\ [RoomNext]_roomVars
          => (CountdownInv /\ EndAttended)'
  BY CountdownAndEndStep
<1> QED BY <1>1, <1>2, RoomTypeCorrect, PTL DEF RoomSpec

\* GameRoom: for any number of host sockets, a room in its countdown has a handler that is
\* about to end it, and a finished game that was not announced one that is about to announce
\* it, however many handlers started the game or ended it side by side.
THEOREM CountdownAndEndAttended ==
  ASSUME Quiet
  PROVE  RoomSpec => [](CountdownAttended /\ EndAttended)
<1>1. CountdownInv => CountdownAttended
  BY DEF CountdownInv, EndsCountdown, CountdownAttended
<1> QED BY <1>1, CountdownAndEndInvariant, PTL

\* While a question runs and the index stays, its timer or who is about to set it is kept.
LEMMA QuestionGoesOn ==
  ASSUME OneHost, TurnInv, NEW h \in Hosts, SetsTimer(h), HostMessage(h) \/ HostStep(h),
         status = "question", status' = "question", index' = index
  PROVE  SetsTimer(h)' \/ \E t \in Timers : Watches(t)'
<1>0. host \in [Hosts -> HandlerStates] /\ timer \in [Timers -> TimerStates] /\ TypeOK
  BY DEF TurnInv, TypeOK
<1>1. CASE AdvanceStartKey(h)
  <2>1. host'[h].pc \in {"send", "end_read"} BY <1>0, <1>1, GotoMoves DEF AdvanceStartKey
  <2> QED BY <2>1 DEF SetsTimer
<1>2. CASE SendQuestion(h)
  <2>1. host[h].target = index BY <1>2 DEF SendQuestion, TurnInv, HostInTurn
  <2>2. PICK t \in Timers : timer'[t].pc = "asleep" /\ timer'[t].index = host[h].target
    BY <1>0, <1>2 DEF SendQuestion
  <2> QED BY <2>1, <2>2 DEF Watches
<1>3. CASE EndRead(h)
  <2>1. host'[h].pc = "end_commit" /\ host'[h].seen = "question"
    BY <1>0, <1>3 DEF EndRead, HandlerStates
  <2> QED BY <2>1 DEF SetsTimer
<1>4. ~ EndCommit(h) /\ ~ HostGone(h)
  BY DEF EndCommit, HostGone, SetsTimer, Write
<1> QED
  BY <1>1, <1>2, <1>3, <1>4 DEF SetsTimer, HostMessage, HostStep, StartRead, NextRead,
     StartCommit, StartOrder, Countdown, NextRefresh, NextReveal, NextBoard, NextCast,
     AdvanceRead, AdvanceClose, AdvanceOpen, EndBoard, EndCast

LEMMA WatchGoesOn ==
  ASSUME TypeOK, NEW t \in Timers, Watches(t), RoomNext, Quiet,
         status = "question", status' = "question", index' = index
  PROVE  Watches(t)'
<1>0. timer \in [Timers -> TimerStates] BY DEF TypeOK
<1>1. CASE TimerStep(t)
  <2>1. CASE TimeoutRead(t)
    <3>1. timer' = [timer EXCEPT ![t].pc = "reveal"] BY <2>1 DEF TimeoutRead, Watches
    <3> QED BY <1>0, <3>1 DEF Watches, TimerStates
  <2> QED
    BY <1>1, <2>1 DEF Watches, TimerStep, TimeoutReveal, TimeoutQuestion, TimeoutBoard,
       TimeoutCast, TimeoutGone
<1>2. ASSUME NEW s \in Timers, s # t, TimerStep(s) PROVE timer'[t] = timer[t]
  BY <1>0, <1>2 DEF TimerStep, TimeoutRead, TimeoutReveal, TimeoutQuestion, TimeoutBoard,
     TimeoutCast, TimeoutGone
<1>3. ASSUME NEW h \in Hosts, SendQuestion(h) PROVE timer'[t] = timer[t]
  BY <1>0, <1>3 DEF SendQuestion, Watches
<1>4. ASSUME NEW h \in Hosts, HostMessage(h) \/ HostStep(h), ~ SendQuestion(h)
      PROVE  timer' = timer
  BY <1>4 DEF HostMessage, HostStep, StartRead, NextRead, StartCommit, StartOrder, Countdown,
     NextRefresh, NextReveal, NextBoard, NextCast, AdvanceRead, AdvanceClose, AdvanceOpen,
     AdvanceStartKey, EndRead, EndCommit, EndBoard, EndCast, HostGone
<1>5. CASE KeysExpire \/ CallRaises \/ Crash \/ EditQuiz \/ DeleteQuiz
  <2>1. timer' = timer
    BY <1>5 DEF Quiet, KeysExpire, CallRaises, Crash, EditQuiz, DeleteQuiz, Disrupt
  <2> QED BY <2>1 DEF Watches
<1>6. timer'[t] = timer[t] => Watches(t)' BY DEF Watches
<1> QED BY <1>1, <1>2, <1>3, <1>4, <1>5, <1>6 DEF RoomNext, Handlers

LEMMA QuestionStep ==
  ASSUME OneHost, Quiet, TurnInv, QuestionInv, [RoomNext]_roomVars
  PROVE  QuestionInv'
<1>0. TypeOK BY DEF TurnInv
<1>1. CASE UNCHANGED roomVars
  BY <1>1 DEF roomVars, QuestionInv, Watches, SetsTimer
<1>2. CASE RoomNext
  <2> SUFFICES ASSUME status' = "question"
               PROVE  (\E t \in Timers : Watches(t)') \/ (\E h \in Hosts : SetsTimer(h)')
    BY DEF QuestionInv
  <2>1. CASE status # "question" \/ index' # index
    BY <1>0, <1>2, <2>1, StatusComesFromHandlers DEF SetsTimer
  <2>2. CASE status = "question" /\ index' = index
    <3>1. CASE \E t \in Timers : Watches(t) BY <1>0, <1>2, <2>2, <3>1, WatchGoesOn
    <3>2. ASSUME NEW h \in Hosts, SetsTimer(h)
          PROVE  (\E t \in Timers : Watches(t)') \/ SetsTimer(h)'
      <4>1. CASE host'[h] = host[h] BY <3>2, <4>1 DEF SetsTimer
      <4>2. CASE host'[h] # host[h]
        <5>1. HostMessage(h) \/ HostStep(h)
          BY <1>0, <1>2, <4>2, HandlersMoveAlone, OthersKeepHandlers
        <5> QED BY <2>2, <3>2, <5>1, QuestionGoesOn
      <4> QED BY <4>1, <4>2
    <3> QED BY <2>2, <3>1, <3>2 DEF QuestionInv
  <2> QED BY <2>1, <2>2
<1> QED BY <1>1, <1>2

\* GameRoom: a game under way is attended to. Beside its countdown and its end, a question
\* that runs has its timer or a handler about to set it, so that it ends without the host:
\* the safety part of what the lifecycle promises of progress, for any number of timers,
\* edits and lost keys.
THEOREM AttendedHolds ==
  ASSUME OneHost, Quiet
  PROVE  RoomSpec => []Attended
<1>1. RoomInit => QuestionInv BY DEF RoomInit, QuestionInv
<1>2. TurnInv /\ QuestionInv /\ [RoomNext]_roomVars => QuestionInv'
  BY QuestionStep
<1>3. CountdownAttended /\ EndAttended /\ QuestionInv => Attended
  BY DEF Attended, QuestionInv, Watches, SetsTimer, QuestionAttended
<1> QED BY <1>1, <1>2, <1>3, TurnInvariant, CountdownAndEndAttended, PTL DEF RoomSpec

-----------------------------------------------------------------------------
(* Answers to the questions in turn.                                       *)

\* The order has a question at the index.
Slot == order.held /\ index \in DOMAIN order.ids

\* A mark may be stored under an index that has passed; only one under the present
\* index turns answers away.  ToCome and not Bank: see CreditInv.
MarksInTurn ==
    /\ \A m \in answered : m[1] <= index
    /\ \A p \in Players :
        <<index, p>> \in answered /\ Slot /\ order.ids[index] \in ToCome
            => verdict[p][order.ids[index]] # "none"

SubmitInTurn(s) ==
    /\ submit[s].index <= index
    /\ submit[s].pc = "commit" => submit[s].q \in opened
    /\ submit[s].pc \in {"commit", "mark"} /\ submit[s].index = index /\ Slot
           => order.ids[index] = submit[s].q
    /\ submit[s].pc = "mark" /\ submit[s].q \in ToCome
           => verdict[Owner[s]][submit[s].q] # "none"

AnswersInTurn ==
    /\ AnswersOnlyToOpened /\ MarksInTurn
    /\ \A s \in Sockets : SubmitInTurn(s)

\* Whatever the room does, the present question is replaced only by another index.
LEMMA SlotKept ==
  ASSUME OneHost, TurnInv, TypeOK', [RoomNext]_roomVars
  PROVE  /\ index' \in {index, index + 1} /\ opened \subseteq opened'
         /\ index' = index /\ Slot' => Slot /\ order' = order
<1>1. index' \in {index, index + 1}
  BY IndexMovesInTurn DEF roomVars
<1>2. opened \subseteq opened'
  BY DEF RoomNext, Handlers, HostMessage, HostStep, TimerStep, StartRead, NextRead,
     StartCommit, StartOrder, Countdown, NextRefresh, NextReveal, NextBoard, NextCast,
     AdvanceRead, AdvanceClose, AdvanceOpen, AdvanceStartKey, SendQuestion, EndRead,
     EndCommit, EndBoard, EndCast, HostGone, TimeoutRead, TimeoutReveal, TimeoutQuestion,
     TimeoutBoard, TimeoutCast, TimeoutGone, KeysExpire, CallRaises, Crash, EditQuiz,
     DeleteQuiz, roomVars
<1>3. order' \in {order, Lost} \/ index = 0
  <2>1. ASSUME NEW h \in Hosts, StartOrder(h) PROVE index = 0
    BY <2>1 DEF StartOrder, TurnInv, HostInTurn
  <2> QED
    BY <2>1 DEF RoomNext, Handlers, HostMessage, HostStep, TimerStep, StartRead, NextRead,
     StartCommit, Countdown, NextRefresh, NextReveal, NextBoard, NextCast,
     AdvanceRead, AdvanceClose, AdvanceOpen, AdvanceStartKey, SendQuestion, EndRead,
     EndCommit, EndBoard, EndCast, HostGone, TimeoutRead, TimeoutReveal, TimeoutQuestion,
     TimeoutBoard, TimeoutCast, TimeoutGone, KeysExpire, CallRaises, Crash, EditQuiz,
     DeleteQuiz, roomVars
<1>4. order'.ids \in Seq(Questions) BY DEF TypeOK
<1>5. index' = index /\ Slot' => index # 0
  BY <1>4 DEF Slot
<1> QED BY <1>1, <1>2, <1>3, <1>5 DEF Slot, Lost

\* Steps of the room that leave the answers alone.
LEMMA RoomKeepsAnswers ==
  ASSUME OneHost, TurnInv, AnswersTypeOK, AnswersInTurn, TypeOK', [RoomNext]_roomVars,
         ToCome' \subseteq ToCome, UNCHANGED answerVars
  PROVE  AnswersInTurn'
<1>0. /\ index \in Nat /\ answered \subseteq Nat \X Players
      /\ submit \in [Sockets -> SubmitStates]
      /\ \A s \in Sockets : submit[s].index \in Nat
  BY DEF AnswersTypeOK, TypeOK, SubmitStates
<1>1. AnswersOnlyToOpened'
  BY SlotKept DEF AnswersInTurn, AnswersOnlyToOpened, answerVars
<1>2. CASE index' = index
  <2>1. MarksInTurn' BY <1>2, SlotKept DEF AnswersInTurn, MarksInTurn, answerVars
  <2>2. ASSUME NEW s \in Sockets PROVE SubmitInTurn(s)'
    BY <1>2, SlotKept DEF AnswersInTurn, SubmitInTurn, answerVars
  <2> QED BY <1>1, <2>1, <2>2 DEF AnswersInTurn
<1>3. CASE index' = index + 1
  <2>1. \A m \in answered : m[1] <= index' /\ m[1] # index'
    BY <1>0, <1>3 DEF AnswersInTurn, MarksInTurn
  <2>2. MarksInTurn'
    <3>1. \A p \in Players : <<index', p>> \notin answered BY <2>1
    <3> QED BY <2>1, <3>1 DEF MarksInTurn, answerVars
  <2>3. ASSUME NEW s \in Sockets PROVE SubmitInTurn(s)'
    <3>1. submit[s].index <= index' /\ submit[s].index # index'
      BY <1>0, <1>3 DEF AnswersInTurn, SubmitInTurn
    <3> QED BY <3>1, SlotKept DEF AnswersInTurn, SubmitInTurn, answerVars
  <2> QED BY <1>1, <2>2, <2>3 DEF AnswersInTurn
<1> QED BY <1>2, <1>3, SlotKept

\* submit_answer: the room is as it was; the answer goes to the question of the
\* second reading of the index, the mark under the first.
LEMMA SubmitStepInTurn ==
  ASSUME TurnInv, AnswersTypeOK, AnswersInTurn, NEW s \in Sockets, SubmitStep(s)
  PROVE  AnswersInTurn'
<1> DEFINE p == Owner[s]
           q == submit[s].q
<1>0. /\ index \in Nat /\ answered \subseteq Nat \X Players
      /\ submit \in [Sockets -> SubmitStates] /\ submit[s].index \in Nat
      /\ verdict \in [Players -> [Questions -> Verdicts]]
      /\ p \in Players /\ Owner \in [Sockets -> Players]
      /\ AnswersOnlyToOpened /\ MarksInTurn /\ SubmitInTurn(s)
      /\ \A r \in Sockets : SubmitInTurn(r)
      /\ TypeOK /\ RoomInTurn
      /\ submit[s].pc # "idle" => q # 0
      /\ \A r \in Sockets : submit[r].pc # "idle" => submit[r].q \in Questions
  BY OwnerAssumption DEF AnswersTypeOK, TypeOK, SubmitStates, AnswersInTurn, TurnInv
<1>1. /\ UNCHANGED <<status, index, edition, order, opened>>
      /\ ToCome' = ToCome /\ Slot' = Slot
  BY DEF SubmitStep, SubmitRead, SubmitCheck, SubmitQuestion, SubmitCommit, SubmitMark,
         roomVars, ToCome, Slot
<1>2. ASSUME submit' = [submit EXCEPT ![s] = Resting], UNCHANGED <<verdict, answered>>
      PROVE  AnswersInTurn'
  <2>1. submit'[s].pc = "idle" /\ submit'[s].index = 0 BY <1>0, <1>2 DEF Resting
  <2>2. \A r \in Sockets : r # s => submit'[r] = submit[r] BY <1>0, <1>2
  <2>3. ASSUME NEW r \in Sockets PROVE SubmitInTurn(r)'
    BY <1>0, <1>1, <1>2, <2>1, <2>2 DEF SubmitInTurn
  <2> QED BY <1>0, <1>1, <1>2, <2>3 DEF AnswersInTurn, AnswersOnlyToOpened, MarksInTurn
<1>3. CASE SubmitRead(s)
  <2>1. PICK new \in Questions :
           submit' = [submit EXCEPT ![s].pc = "check", ![s].q = new, ![s].index = index]
    BY <1>3 DEF SubmitRead
  <2>2. submit'[s].pc = "check" /\ submit'[s].index = index BY <1>0, <2>1 DEF SubmitStates
  <2>3. \A r \in Sockets : r # s => submit'[r] = submit[r] BY <1>0, <2>1
  <2>4. UNCHANGED <<verdict, answered>> BY <1>3 DEF SubmitRead
  <2>5. ASSUME NEW r \in Sockets PROVE SubmitInTurn(r)'
    BY <1>0, <1>1, <2>2, <2>3, <2>4 DEF SubmitInTurn
  <2> QED BY <1>0, <1>1, <2>4, <2>5 DEF AnswersInTurn, AnswersOnlyToOpened, MarksInTurn
<1>4. CASE SubmitCheck(s) /\ submit' # [submit EXCEPT ![s] = Resting]
  <2>1. submit' = [submit EXCEPT ![s].pc = "question"] BY <1>4 DEF SubmitCheck
  <2>2. submit'[s].pc = "question" /\ submit'[s].index = submit[s].index
    BY <1>0, <2>1 DEF SubmitStates
  <2>3. \A r \in Sockets : r # s => submit'[r] = submit[r] BY <1>0, <2>1
  <2>4. UNCHANGED <<verdict, answered>> BY <1>4 DEF SubmitCheck
  <2>5. ASSUME NEW r \in Sockets PROVE SubmitInTurn(r)'
    BY <1>0, <1>1, <2>2, <2>3, <2>4 DEF SubmitInTurn
  <2> QED BY <1>0, <1>1, <2>4, <2>5 DEF AnswersInTurn, AnswersOnlyToOpened, MarksInTurn
<1>5. CASE SubmitQuestion(s) /\ submit' # [submit EXCEPT ![s] = Resting]
  <2>1. /\ q = CurrentQuestion /\ submit[s].pc = "question" /\ q # 0
        /\ \E right \in BOOLEAN :
              submit' = [submit EXCEPT ![s].pc = "commit", ![s].right = right,
                                       ![s].score = score[p]]
    BY <1>0, <1>5 DEF SubmitQuestion
  <2>2. /\ submit'[s].pc = "commit" /\ submit'[s].q = q
        /\ submit'[s].index = submit[s].index
    BY <1>0, <2>1 DEF SubmitStates
  <2>3. \A r \in Sockets : r # s => submit'[r] = submit[r] BY <1>0, <2>1
  <2>4. UNCHANGED <<verdict, answered>> BY <1>5 DEF SubmitQuestion
  <2>5. q \in opened BY <1>0, <2>1, CurrentIsOpened
  <2>6. order.ids[index] = q BY <2>1 DEF CurrentQuestion
  <2>7. ASSUME NEW r \in Sockets PROVE SubmitInTurn(r)'
    BY <1>0, <1>1, <2>2, <2>3, <2>4, <2>5, <2>6 DEF SubmitInTurn
  <2> QED BY <1>0, <1>1, <2>4, <2>7 DEF AnswersInTurn, AnswersOnlyToOpened, MarksInTurn
<1>6. CASE SubmitCommit(s) /\ submit' # [submit EXCEPT ![s] = Resting]
  <2> DEFINE v == IF submit[s].right THEN "right" ELSE "wrong"
  <2>1. /\ submit[s].pc = "commit" /\ q \in Bank
        /\ verdict' = [verdict EXCEPT ![p][q] = v] /\ answered' = answered
        /\ submit' = [submit EXCEPT ![s] = [submit[s] EXCEPT !.pc = "mark",
                                                            !.score = NoPoints]]
    BY <1>6 DEF SubmitCommit
  <2>2. q \in Questions /\ q \in opened
    BY <1>0, <2>1, BankType DEF SubmitInTurn, TypeOK
  <2>3. /\ submit'[s].pc = "mark" /\ submit'[s].q = q
        /\ submit'[s].index = submit[s].index
    BY <1>0, <2>1 DEF SubmitStates
  <2>4. \A r \in Sockets : r # s => submit'[r] = submit[r] BY <1>0, <2>1
  <2>5. v # "none" OBVIOUS
  <2> HIDE DEF p, q, v
  <2>6. verdict'[p][q] # "none" BY <1>0, <2>1, <2>2, <2>5
  <2>7. \A x \in Players, y \in Questions :
           verdict'[x][y] = verdict[x][y] \/ (x = p /\ y = q)
    BY <1>0, <2>1, <2>2
  <2>8. \A x \in Players, y \in Questions :
           verdict[x][y] # "none" => verdict'[x][y] # "none"
    BY <1>0, <2>1, <2>2, <2>5
  <2>9. AnswersOnlyToOpened'
    BY <1>0, <1>1, <2>2, <2>7 DEF AnswersOnlyToOpened
  <2>10. MarksInTurn' BY <1>0, <1>1, <2>1, <2>8 DEF MarksInTurn
  <2>11. ASSUME NEW r \in Sockets PROVE SubmitInTurn(r)'
    <3>1. CASE r = s
      BY <1>0, <1>1, <2>1, <2>3, <2>6, <3>1 DEF SubmitInTurn, p, q
    <3>2. CASE r # s
      BY <1>0, <1>1, <2>4, <2>8, <3>2 DEF SubmitInTurn
    <3> QED BY <3>1, <3>2
  <2> QED BY <2>9, <2>10, <2>11 DEF AnswersInTurn
<1>7. CASE SubmitMark(s)
  <2>1. /\ submit[s].pc = "mark" /\ answered' = answered \cup {<<submit[s].index, p>>}
        /\ verdict' = verdict /\ submit' = [submit EXCEPT ![s] = Resting]
    BY <1>7 DEF SubmitMark
  <2>2. submit'[s].pc = "idle" /\ submit'[s].index = 0 BY <1>0, <2>1 DEF Resting
  <2>3. \A r \in Sockets : r # s => submit'[r] = submit[r] BY <1>0, <2>1
  <2>4. ASSUME NEW r \in Sockets PROVE SubmitInTurn(r)'
    BY <1>0, <1>1, <2>1, <2>2, <2>3 DEF SubmitInTurn
  <2>5. ASSUME submit[s].index = index, Slot, order.ids[index] \in ToCome
        PROVE  verdict[p][order.ids[index]] # "none"
    BY <1>0, <2>1, <2>5 DEF SubmitInTurn
  <2>6. MarksInTurn'
    <3>1. \A m \in answered' : m[1] <= index BY <1>0, <2>1 DEF MarksInTurn, SubmitInTurn
    <3>2. ASSUME NEW x \in Players, <<index, x>> \in answered', Slot,
                 order.ids[index] \in ToCome
          PROVE  verdict[x][order.ids[index]] # "none"
      <4>1. <<index, x>> \in answered \/ (index = submit[s].index /\ x = p)
        BY <2>1, <3>2
      <4> QED BY <1>0, <2>5, <3>2, <4>1 DEF MarksInTurn
    <3> QED BY <1>1, <2>1, <3>1, <3>2 DEF MarksInTurn
  <2> QED BY <1>0, <1>1, <2>1, <2>4, <2>6 DEF AnswersInTurn, AnswersOnlyToOpened
<1> QED
  <2>1. (SubmitCheck(s) \/ SubmitQuestion(s) \/ SubmitCommit(s))
            /\ submit' = [submit EXCEPT ![s] = Resting]
           => UNCHANGED <<verdict, answered>>
    <3>1. SubmitCommit(s) /\ submit' = [submit EXCEPT ![s] = Resting] => UNCHANGED verdict
      <4> DEFINE marked == [submit[s] EXCEPT !.pc = "mark", !.score = NoPoints]
      <4>1. marked.pc # Resting.pc BY <1>0 DEF SubmitStates, Resting
      <4>2. [submit EXCEPT ![s] = marked] # [submit EXCEPT ![s] = Resting]
        <5>1. /\ [submit EXCEPT ![s] = marked][s] = marked
              /\ [submit EXCEPT ![s] = Resting][s] = Resting
          <6> HIDE DEF marked
          <6> QED BY <1>0
        <5>2. marked # Resting BY <4>1
        <5> HIDE DEF marked
        <5> QED BY <5>1, <5>2
      <4> QED BY <4>2 DEF SubmitCommit
    <3> QED BY <3>1 DEF SubmitCheck, SubmitQuestion, SubmitCommit
  <2> QED BY <1>2, <1>3, <1>4, <1>5, <1>6, <1>7, <2>1 DEF SubmitStep

\* Disruptions of the room and of submit_answer.
LEMMA AnswersDisruptionInTurn ==
  ASSUME OneHost, TurnInv, AnswersTypeOK, AnswersInTurn, TypeOK',
         AnsweredExpire \/ SubmitRaises \/ CrashAll \/ EditCascade \/ DeleteCascade
  PROVE  AnswersInTurn'
<1>0. /\ AnswersOnlyToOpened /\ MarksInTurn
      /\ \A r \in Sockets : SubmitInTurn(r)
      /\ index \in Nat /\ edition \in DOMAIN Editions
      /\ submit \in [Sockets -> SubmitStates]
      /\ Owner \in [Sockets -> Players]
      /\ \A r \in Sockets : submit[r].pc # "idle" => submit[r].q \in Questions
  BY OwnerAssumption DEF AnswersInTurn, AnswersTypeOK, TypeOK, SubmitStates
<1>1. /\ UNCHANGED <<index, opened>> /\ order' \in {order, Lost}
      /\ Slot' => Slot /\ order' = order
  BY DEF AnsweredExpire, SubmitRaises, CrashAll, EditCascade, DeleteCascade, KeysExpire,
         Crash, EditQuiz, DeleteQuiz, Slot, Lost
<1>2. \A r \in Sockets : submit'[r] = submit[r] \/ submit'[r] = Resting
  BY <1>0 DEF AnsweredExpire, SubmitRaises, CrashAll, EditCascade, DeleteCascade
<1>3. answered' \subseteq answered
  BY DEF AnsweredExpire, SubmitRaises, CrashAll, EditCascade, DeleteCascade
<1>4. /\ ToCome' \subseteq ToCome
      /\ \A p \in Players, q \in Questions : verdict'[p][q] \in {verdict[p][q], "none"}
      /\ \A p \in Players, q \in Questions : q \in ToCome' => verdict'[p][q] = verdict[p][q]
  <2>1. CASE AnsweredExpire \/ SubmitRaises \/ CrashAll
    BY <2>1 DEF AnsweredExpire, SubmitRaises, CrashAll, KeysExpire, Crash, ToCome
  <2>2. CASE EditCascade
    <3>1. ToCome' \subseteq ToCome /\ ToCome' \cap Bank = {}
      BY <1>0, <2>2, EditsWithdraw DEF EditCascade
    <3> QED BY <2>2, <3>1 DEF EditCascade
  <2>3. CASE DeleteCascade
    BY <2>3 DEF DeleteCascade, DeleteQuiz, ToCome
  <2> QED BY <2>1, <2>2, <2>3
<1>5. AnswersOnlyToOpened' BY <1>0, <1>1, <1>4 DEF AnswersOnlyToOpened
<1>6. MarksInTurn'
  <2>1. Slot' /\ order.ids[index] \in ToCome' => order.ids[index] \in Questions
    BY <1>1 DEF Slot, TurnInv, TypeOK
  <2> QED BY <1>0, <1>1, <1>3, <1>4, <2>1 DEF MarksInTurn
<1>7. ASSUME NEW r \in Sockets PROVE SubmitInTurn(r)'
  <2>1. CASE submit'[r] = Resting
    BY <1>0, <1>1, <2>1 DEF SubmitInTurn, Resting
  <2>2. CASE submit'[r] = submit[r]
    BY <1>0, <1>1, <1>4, <2>2 DEF SubmitInTurn
  <2> QED BY <1>2, <2>1, <2>2
<1> QED BY <1>5, <1>6, <1>7 DEF AnswersInTurn

\* The room and its answers together, for any number of players and of their sockets.
LEMMA InitInTurn == Init => TurnInv /\ AnswersInTurn
<1> SUFFICES ASSUME Init PROVE TurnInv /\ AnswersInTurn
  OBVIOUS
<1>1. TurnInv BY RoomInitInTurn DEF Init
<1>2. AnswersOnlyToOpened BY DEF Init, AnswersOnlyToOpened
<1>3. MarksInTurn BY DEF Init, MarksInTurn
<1>4. \A s \in Sockets : SubmitInTurn(s)
  BY DEF Init, RoomInit, SubmitInTurn, Resting
<1> QED BY <1>1, <1>2, <1>3, <1>4 DEF AnswersInTurn

LEMMA StepInTurn ==
  ASSUME OneHost, TurnInv, AnswersTypeOK, AnswersTypeOK', AnswersInTurn, [Next]_vars
  PROVE  TurnInv' /\ AnswersInTurn'
<1>0. TypeOK /\ TypeOK' BY DEF AnswersTypeOK
<1>1. CASE UNCHANGED vars
  <2>1. UNCHANGED roomVars /\ UNCHANGED answerVars BY <1>1 DEF vars
  <2>2. ToCome' = ToCome BY <2>1 DEF roomVars, ToCome
  <2> QED BY <1>0, <2>1, <2>2, RoomStepInTurn, RoomKeepsAnswers
<1>2. CASE (Handlers \/ CallRaises) /\ UNCHANGED answerVars
  <2>1. [RoomNext]_roomVars BY <1>2 DEF RoomNext
  <2>2. edition' = edition /\ (status = "gone" => status' = "gone")
    BY <1>0, <1>2, HandlersKeepQuiz DEF CallRaises
  <2>3. ToCome' \subseteq ToCome BY <2>2 DEF ToCome
  <2> QED BY <1>0, <1>2, <2>1, <2>3, RoomStepInTurn, RoomKeepsAnswers
<1>3. ASSUME NEW s \in Sockets, SubmitStep(s) PROVE TurnInv' /\ AnswersInTurn'
  <2>1. UNCHANGED roomVars
    BY <1>3 DEF SubmitStep, SubmitRead, SubmitCheck, SubmitQuestion, SubmitCommit, SubmitMark
  <2>2. TurnInv' BY <1>0, <2>1, StutterInTurn DEF roomVars
  <2>3. AnswersInTurn' BY <1>3, SubmitStepInTurn
  <2> QED BY <2>2, <2>3
<1>4. CASE AnsweredExpire \/ SubmitRaises \/ CrashAll \/ EditCascade \/ DeleteCascade
  <2>1. AnswersInTurn' BY <1>0, <1>4, AnswersDisruptionInTurn
  <2>2. ASSUME SubmitRaises PROVE TurnInv'
    BY <1>0, <2>2, StutterInTurn DEF SubmitRaises
  <2>3. ASSUME AnsweredExpire \/ CrashAll \/ EditCascade \/ DeleteCascade PROVE TurnInv'
    BY <1>0, <2>3, DisruptionInTurn
    DEF AnsweredExpire, CrashAll, EditCascade, DeleteCascade
  <2>4. TurnInv' BY <1>4, <2>2, <2>3
  <2> QED BY <2>1, <2>4
<1> QED BY <1>1, <1>2, <1>3, <1>4 DEF Next

LEMMA AnswersInvariant ==
  ASSUME OneHost
  PROVE  Spec => [](TurnInv /\ AnswersTypeOK /\ AnswersInTurn)
<1>1. TurnInv /\ AnswersTypeOK /\ AnswersTypeOK' /\ AnswersInTurn /\ [Next]_vars
          => TurnInv' /\ AnswersInTurn'
  BY StepInTurn
<1> QED BY <1>1, InitInTurn, TypeCorrect, PTL DEF Spec

\* GameAnswers: answers are recorded for questions that the room has opened, and no
\* others, though the status is read one await before the index.
THEOREM AnswersOnlyToOpenedHolds ==
  ASSUME OneHost
  PROVE  Spec => []AnswersOnlyToOpened
<1>1. AnswersInTurn => AnswersOnlyToOpened BY DEF AnswersInTurn
<1> QED BY <1>1, AnswersInvariant, PTL

\* GameAnswers: a player marked as having answered the running question did answer it,
\* though the mark may be stored after the room has moved on.
THEOREM NoWrongLockoutHolds ==
  ASSUME OneHost
  PROVE  Spec => []NoWrongLockout
<1>1. TurnInv /\ AnswersInTurn => NoWrongLockout
  <2> SUFFICES ASSUME TurnInv, AnswersInTurn, CurrentQuestion # 0, NEW p \in Players,
                      <<index, p>> \in answered
               PROVE  verdict[p][CurrentQuestion] # "none"
    BY DEF NoWrongLockout
  <2>1. Slot /\ CurrentQuestion = order.ids[index] /\ CurrentQuestion \in Bank
    BY DEF CurrentQuestion, Slot
  <2>2. CurrentQuestion \in ToCome BY <2>1, BankToCome DEF TurnInv, TypeOK
  <2> QED BY <2>1, <2>2 DEF AnswersInTurn, MarksInTurn
<1> QED BY <1>1, AnswersInvariant, PTL

=============================================================================
