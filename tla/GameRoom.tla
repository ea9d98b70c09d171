------------------------------ MODULE GameRoom ------------------------------
(***************************************************************************)
(* One game room: the game_sessions row, the Redis keys of the room, the   *)
(* host's WebSocket handlers and the detached question timers             *)
(* (app/game/router.py, app/game/services.py).                             *)
(*                                                                         *)
(* The process is one asyncio event loop: a step is what runs between two  *)
(* awaits whose interleaving matters, so a handler is a program counter    *)
(* with the locals it carries across its awaits.  Consecutive awaits that  *)
(* only read (get_current_question's row, order and question) are one      *)
(* step.  A commit writes the columns that differ from what the handler    *)
(* read, not the columns of a locked row.                                  *)
(***************************************************************************)
EXTENDS Naturals, Sequences, FiniteSets

CONSTANTS
    Hosts,               \* the host's sockets; each runs one message at a time
    Timers,              \* bound: question timers alive at once
    Questions,           \* question ids
    Editions,            \* the quiz's questions by position, edit after edit
    RandomizeQuestions,  \* game_sessions.randomize_questions
    Disruptions,         \* the kinds of disruption this instance allows
    MaxDisruptions       \* bound: how many of them

DisruptionKinds == {"expiry", "exception", "crash", "edit", "delete"}

ASSUME QuestionsAssumption == Questions \subseteq Nat \ {0}
ASSUME EditionsAssumption  == Editions \in Seq(Seq(Questions)) /\ Len(Editions) > 0
\* update_quiz deletes the questions and inserts new rows, so no id comes back.
ASSUME FreshIdsAssumption  ==
    \A d, e \in DOMAIN Editions : \A i \in DOMAIN Editions[d], j \in DOMAIN Editions[e] :
        Editions[d][i] = Editions[e][j] => d = e /\ i = j
ASSUME ChoicesAssumption   ==
    /\ RandomizeQuestions \in BOOLEAN
    /\ Disruptions \subseteq DisruptionKinds
    /\ MaxDisruptions \in Nat

VARIABLES
    status,     \* game_sessions.status; "gone" once the row is deleted
    index,      \* game_sessions.current_question_index
    edition,    \* which of Editions the quiz_questions table holds
    order,      \* Redis game:questions:{room}: the order, held or expired
    startKey,   \* Redis game:question_start:{room}: whose start; 0 if absent
    ranking,    \* Redis game:prev_ranking:{room}: index ranked at; 0 if absent
    host,       \* the handler each host socket is running
    timer,      \* the question_timeout tasks
    opened,     \* history: questions committed as the running one
    shown,      \* history: questions broadcast in QUESTION
    ended,      \* history: questions broadcast in QUESTION_ENDED
    announced,  \* history: GAME_FINISHED was sent
    disrupted   \* how many disruptions happened

row      == <<status, index, edition>>
keys     == <<order, startKey, ranking>>
history  == <<opened, shown, ended, announced>>
roomVars == <<row, keys, host, timer, history, disrupted>>

Statuses  == {"waiting", "starting", "question", "revealing", "finished", "gone"}
HostSteps == {"idle", "start_commit", "start_order", "countdown", "advance",
              "open", "close", "start_key", "send", "refresh", "reveal",
              "board", "cast", "end_read", "end_commit", "end_board", "end_cast"}
TimerSteps == {"free", "asleep", "reveal", "question", "board", "cast"}

Idle == [pc |-> "idle", ids |-> <<>>, target |-> 0, seen |-> "waiting",
         at |-> 0, q |-> 0]
Free == [pc |-> "free", index |-> 0, q |-> 0]
Lost == [held |-> FALSE, ids |-> <<>>]

\* The ids of the questions the quiz has now; none once it is deleted.
Bank == IF status = "gone" THEN {}
        ELSE {Editions[edition][i] : i \in DOMAIN Editions[edition]}

\* The play orders start_game may draw from the quiz's questions.
Orders ==
    LET s == Editions[edition] IN
    IF RandomizeQuestions
    THEN {t \in [DOMAIN s -> Bank] : \A i, j \in DOMAIN s : t[i] = t[j] => i = j}
    ELSE {s}

\* What get_current_question returns (0 for None).
CurrentQuestion ==
    IF order.held /\ index \in DOMAIN order.ids /\ order.ids[index] \in Bank
    THEN order.ids[index] ELSE 0

\* A commit writes a column only if its value differs from the one read before.
Write(column, read, new) == IF read = new THEN column ELSE new

Goto(h, step) == host' = [host EXCEPT ![h].pc = step]
Return(h)     == host' = [host EXCEPT ![h] = Idle]

HandlerStates == [pc : HostSteps, ids : Seq(Questions), target : Nat, seen : Statuses,
                  at : Nat, q : Questions \cup {0}]
TimerStates   == [pc : TimerSteps, index : Nat, q : Questions \cup {0}]

\* What a handler holds by the step it has reached.
Carried ==
    /\ \A h \in Hosts :
        /\ host[h].pc = "advance" => host[h].target > 0
        /\ host[h].pc \in {"open", "start_key", "send", "reveal", "board", "cast"}
               => host[h].q > 0
    /\ \A t \in Timers : timer[t].pc \in {"board", "cast"} => timer[t].q > 0

TypeOK ==
    /\ status \in Statuses
    /\ index \in Nat
    /\ edition \in DOMAIN Editions
    /\ order \in [held : BOOLEAN, ids : Seq(Questions)]
    /\ startKey \in Nat /\ ranking \in Nat
    /\ host \in [Hosts -> HandlerStates]
    /\ timer \in [Timers -> TimerStates]
    /\ opened \subseteq Questions /\ shown \subseteq Questions /\ ended \subseteq Questions
    /\ announced \in BOOLEAN
    /\ disrupted \in 0..MaxDisruptions
    /\ Carried

RoomInit ==
    /\ status = "waiting" /\ index = 0 /\ edition = 1
    /\ order = Lost /\ startKey = 0 /\ ranking = 0
    /\ host = [h \in Hosts |-> Idle]
    /\ timer = [t \in Timers |-> Free]
    /\ opened = {} /\ shown = {} /\ ended = {} /\ announced = FALSE
    /\ disrupted = 0

-----------------------------------------------------------------------------
(* Faulty variants of steps below, in no specification: each shows that a   *)
(* property notices the bug it names.                                       *)

\* start_game without its check that the room is waiting.
StartReadAnyStatus(h) ==
    /\ host[h].pc = "idle" /\ status # "gone"
    /\ \E ids \in Orders :
           host' = [host EXCEPT ![h].pc = "start_commit", ![h].ids = ids]
    /\ UNCHANGED <<row, keys, timer, history, disrupted>>

\* handle_next_question that sends the index it read, not the one after.
NextReadSameIndex(h) ==
    /\ host[h].pc = "idle"
    /\ \/ status = "question" /\ Goto(h, "refresh")
       \/ /\ status = "revealing"
          /\ host' = [host EXCEPT ![h].pc = "advance", ![h].target = index]
    /\ UNCHANGED <<row, keys, timer, history, disrupted>>

\* handle_next_question that moves on without ending the running question.
NextReadNoReveal(h) ==
    /\ host[h].pc = "idle" /\ status \in {"question", "revealing"}
    /\ host' = [host EXCEPT ![h].pc = "advance", ![h].target = index + 1]
    /\ UNCHANGED <<row, keys, timer, history, disrupted>>

\* get_current_question's None taken for a question.
NextRefreshUnchecked(h) ==
    /\ host[h].pc = "refresh" /\ status # "gone"
    /\ host' = [host EXCEPT ![h].pc = "reveal", ![h].seen = status, ![h].q = CurrentQuestion]
    /\ UNCHANGED <<row, keys, timer, history, disrupted>>

\* advance_to_question that keeps a start key it finds (SET NX).
AdvanceStartKeyKept(h) ==
    /\ host[h].pc = "start_key"
    /\ startKey' = IF startKey = 0 THEN host[h].target ELSE startKey
    /\ Goto(h, IF host[h].q \in Bank THEN "send" ELSE "end_read")
    /\ UNCHANGED <<row, order, ranking, timer, history, disrupted>>

\* A game that ends past its last question without end_game.
AdvanceCloseSilent(h) ==
    /\ host[h].pc = "close" /\ status # "gone"
    /\ status' = Write(status, host[h].seen, "finished")
    /\ Return(h)
    /\ UNCHANGED <<index, edition, keys, timer, history, disrupted>>

\* question_timeout comparing a zero-based index with a one-based one.
TimeoutReadOffByOne(t) ==
    /\ timer[t].pc = "asleep"
    /\ timer' = IF status = "question" /\ index + 1 = timer[t].index
                THEN [timer EXCEPT ![t].pc = "reveal"]
                ELSE [timer EXCEPT ![t] = Free]
    /\ UNCHANGED <<row, keys, host, history, disrupted>>

\* A question deleted under the handler that opens it: it returns, as with no room.
AdvanceStartKeySilent(h) ==
    /\ host[h].pc = "start_key"
    /\ startKey' = host[h].target
    /\ IF host[h].q \in Bank THEN Goto(h, "send") ELSE Return(h)
    /\ UNCHANGED <<row, order, ranking, timer, history, disrupted>>

-----------------------------------------------------------------------------
(* handle_start_game: start_game, the countdown, then the first question.  *)

StartRead(h) ==
    /\ host[h].pc = "idle" /\ status = "waiting"
    /\ \E ids \in Orders :
           host' = [host EXCEPT ![h].pc = "start_commit", ![h].ids = ids]
    /\ UNCHANGED <<row, keys, timer, history, disrupted>>

StartCommit(h) ==
    /\ host[h].pc = "start_commit" /\ status # "gone"
    /\ status' = "starting"
    /\ Goto(h, "start_order")
    /\ UNCHANGED <<index, edition, keys, timer, history, disrupted>>

StartOrder(h) ==
    /\ host[h].pc = "start_order"
    /\ order' = [held |-> TRUE, ids |-> host[h].ids]
    /\ host' = [host EXCEPT ![h] = [Idle EXCEPT !.pc = "countdown"]]
    /\ UNCHANGED <<row, startKey, ranking, timer, history, disrupted>>

Countdown(h) ==
    /\ host[h].pc = "countdown"
    /\ host' = [host EXCEPT ![h].pc = "advance", ![h].target = 1]
    /\ UNCHANGED <<row, keys, timer, history, disrupted>>

-----------------------------------------------------------------------------
(* handle_next_question: end the running question, or move on.             *)

\* The index read here, plus one, is the question this message moves to.
NextRead(h) ==
    /\ host[h].pc = "idle"
    /\ \/ status = "question" /\ Goto(h, "refresh")
       \/ /\ status = "revealing"
          /\ IF index + 1 > Cardinality(Bank)
             THEN Goto(h, "end_read")
             ELSE host' = [host EXCEPT ![h].pc = "advance", ![h].target = index + 1]
    /\ UNCHANGED <<row, keys, timer, history, disrupted>>

\* get_current_question reloads the session row the handler commits next.
NextRefresh(h) ==
    /\ host[h].pc = "refresh" /\ status # "gone"
    /\ IF CurrentQuestion = 0
       THEN Return(h)
       ELSE host' = [host EXCEPT ![h].pc = "reveal", ![h].seen = status,
                                 ![h].q = CurrentQuestion]
    /\ UNCHANGED <<row, keys, timer, history, disrupted>>

NextReveal(h) ==
    /\ host[h].pc = "reveal" /\ status # "gone"
    /\ status' = Write(status, host[h].seen, "revealing")
    /\ Goto(h, "board")
    /\ UNCHANGED <<index, edition, keys, timer, history, disrupted>>

\* get_leaderboard stores the ranking it returns, unless the room is gone.
NextBoard(h) ==
    /\ host[h].pc = "board"
    /\ ranking' = IF status = "gone" THEN ranking ELSE index
    /\ Goto(h, "cast")
    /\ UNCHANGED <<row, order, startKey, timer, history, disrupted>>

NextCast(h) ==
    /\ host[h].pc = "cast"
    /\ ended' = ended \cup {host[h].q}
    /\ Return(h)
    /\ UNCHANGED <<row, keys, timer, opened, shown, announced, disrupted>>

-----------------------------------------------------------------------------
(* send_question: advance_to_question, the QUESTION message and its timer. *)

\* A missing order ends the game, as an index past its end does ("close").
AdvanceRead(h) ==
    /\ host[h].pc = "advance" /\ status # "gone"
    /\ LET n == host[h].target IN
       IF ~ order.held THEN Goto(h, "end_read")
       ELSE IF n > Len(order.ids)
            THEN host' = [host EXCEPT ![h].pc = "close", ![h].seen = status]
            ELSE host' = [host EXCEPT ![h].pc = "open", ![h].seen = status,
                                      ![h].at = index, ![h].q = order.ids[n]]
    /\ UNCHANGED <<row, keys, timer, history, disrupted>>

AdvanceClose(h) ==
    /\ host[h].pc = "close" /\ status # "gone"
    /\ status' = Write(status, host[h].seen, "finished")
    /\ Goto(h, "end_read")
    /\ UNCHANGED <<index, edition, keys, timer, history, disrupted>>

AdvanceOpen(h) ==
    /\ host[h].pc = "open" /\ status # "gone"
    /\ status' = Write(status, host[h].seen, "question")
    /\ index' = Write(index, host[h].at, host[h].target)
    /\ opened' = opened \cup {host[h].q}
    /\ Goto(h, "start_key")
    /\ UNCHANGED <<edition, keys, timer, shown, ended, announced, disrupted>>

\* The question is then read by its id: deleted since, it ends the game.
AdvanceStartKey(h) ==
    /\ host[h].pc = "start_key"
    /\ startKey' = host[h].target
    /\ Goto(h, IF host[h].q \in Bank THEN "send" ELSE "end_read")
    /\ UNCHANGED <<row, order, ranking, timer, history, disrupted>>

SendQuestion(h) ==
    /\ host[h].pc = "send"
    /\ shown' = shown \cup {host[h].q}
    /\ \E t \in Timers :
           /\ timer[t].pc = "free"
           /\ timer' = [timer EXCEPT ![t] = [pc |-> "asleep", index |-> host[h].target,
                                             q |-> 0]]
    /\ Return(h)
    /\ UNCHANGED <<row, keys, opened, ended, announced, disrupted>>

-----------------------------------------------------------------------------
(* end_game: finished, the final leaderboard, GAME_FINISHED, clean-up.     *)

EndRead(h) ==
    /\ host[h].pc = "end_read" /\ status # "gone"
    /\ host' = [host EXCEPT ![h].pc = "end_commit", ![h].seen = status]
    /\ UNCHANGED <<row, keys, timer, history, disrupted>>

EndCommit(h) ==
    /\ host[h].pc = "end_commit" /\ status # "gone"
    /\ status' = Write(status, host[h].seen, "finished")
    /\ Goto(h, "end_board")
    /\ UNCHANGED <<index, edition, keys, timer, history, disrupted>>

EndBoard(h) ==
    /\ host[h].pc = "end_board" /\ status # "gone"
    /\ ranking' = index
    /\ Goto(h, "end_cast")
    /\ UNCHANGED <<row, order, startKey, timer, history, disrupted>>

EndCast(h) ==
    /\ host[h].pc = "end_cast"
    /\ announced' = TRUE
    /\ ranking' = 0
    /\ Return(h)
    /\ UNCHANGED <<row, order, startKey, timer, opened, shown, ended, disrupted>>

\* Once the row is deleted its readers return early and its writers raise.
HostGone(h) ==
    /\ status = "gone"
    /\ host[h].pc \in {"start_commit", "advance", "open", "close", "refresh", "reveal",
                       "end_read", "end_commit", "end_board"}
    /\ Return(h)
    /\ UNCHANGED <<row, keys, timer, history, disrupted>>

-----------------------------------------------------------------------------
(* question_timeout, a task of its own for every question sent.            *)

\* It gives up unless its question is still the one running.
TimeoutRead(t) ==
    /\ timer[t].pc = "asleep"
    /\ timer' = IF status = "question" /\ index = timer[t].index
                THEN [timer EXCEPT ![t].pc = "reveal"]
                ELSE [timer EXCEPT ![t] = Free]
    /\ UNCHANGED <<row, keys, host, history, disrupted>>

\* The row was read as "question", so the commit always writes the column.
TimeoutReveal(t) ==
    /\ timer[t].pc = "reveal" /\ status # "gone"
    /\ status' = "revealing"
    /\ timer' = [timer EXCEPT ![t].pc = "question"]
    /\ UNCHANGED <<index, edition, keys, host, history, disrupted>>

\* get_current_question reads the index again, after the commit.
TimeoutQuestion(t) ==
    /\ timer[t].pc = "question"
    /\ timer' = IF CurrentQuestion = 0
                THEN [timer EXCEPT ![t] = Free]
                ELSE [timer EXCEPT ![t].pc = "board", ![t].q = CurrentQuestion]
    /\ UNCHANGED <<row, keys, host, history, disrupted>>

TimeoutBoard(t) ==
    /\ timer[t].pc = "board"
    /\ ranking' = IF status = "gone" THEN ranking ELSE index
    /\ timer' = [timer EXCEPT ![t].pc = "cast"]
    /\ UNCHANGED <<row, order, startKey, host, history, disrupted>>

TimeoutCast(t) ==
    /\ timer[t].pc = "cast"
    /\ ended' = ended \cup {timer[t].q}
    /\ timer' = [timer EXCEPT ![t] = Free]
    /\ UNCHANGED <<row, keys, host, opened, shown, announced, disrupted>>

TimeoutGone(t) ==
    /\ status = "gone" /\ timer[t].pc = "reveal"
    /\ timer' = [timer EXCEPT ![t] = Free]
    /\ UNCHANGED <<row, keys, host, history, disrupted>>

-----------------------------------------------------------------------------
(* Disruptions.                                                            *)

Disrupt(kind) ==
    /\ kind \in Disruptions /\ disrupted < MaxDisruptions
    /\ disrupted' = disrupted + 1

\* Keys outlive their TTL or Redis restarts: any of them may be gone.
KeysExpire ==
    /\ Disrupt("expiry")
    /\ order' \in {order, Lost} /\ startKey' \in {startKey, 0} /\ ranking' \in {ranking, 0}
    /\ UNCHANGED <<row, host, timer, history>>

\* The database or Redis call a handler makes next raises; broadcasts and the
\* countdown catch what they call.  The host is sent ERROR; a timer just dies.
CallRaises ==
    /\ Disrupt("exception")
    /\ \/ /\ \E h \in Hosts : /\ host[h].pc \notin {"idle", "countdown", "cast"}
                              /\ Return(h)
          /\ UNCHANGED timer
       \/ /\ \E t \in Timers : /\ timer[t].pc \in {"reveal", "question", "board"}
                               /\ timer' = [timer EXCEPT ![t] = Free]
          /\ UNCHANGED host
    /\ UNCHANGED <<row, keys, history>>

\* The process dies and restarts: handlers and timers are lost, rows and keys kept.
Crash ==
    /\ Disrupt("crash")
    /\ host' = [h \in Hosts |-> Idle]
    /\ timer' = [t \in Timers |-> Free]
    /\ UNCHANGED <<row, keys, history>>

\* update_quiz on a quiz set back to draft, which no check ties to its rooms.
EditQuiz ==
    /\ Disrupt("edit")
    /\ status # "gone" /\ edition < Len(Editions)
    /\ edition' = edition + 1
    /\ UNCHANGED <<status, index, keys, host, timer, history>>

\* delete_quiz deletes the quiz's game sessions with it.
DeleteQuiz ==
    /\ Disrupt("delete")
    /\ status # "gone" /\ status' = "gone"
    /\ UNCHANGED <<index, edition, keys, host, timer, history>>

-----------------------------------------------------------------------------
(* A message starts a handler; the event loop then runs its steps.         *)

HostMessage(h) == StartRead(h) \/ NextRead(h)

HostStep(h) ==
    \/ StartCommit(h) \/ StartOrder(h) \/ Countdown(h)
    \/ NextRefresh(h) \/ NextReveal(h) \/ NextBoard(h) \/ NextCast(h)
    \/ AdvanceRead(h) \/ AdvanceClose(h) \/ AdvanceOpen(h) \/ AdvanceStartKey(h)
    \/ SendQuestion(h)
    \/ EndRead(h) \/ EndCommit(h) \/ EndBoard(h) \/ EndCast(h) \/ HostGone(h)

TimerStep(t) ==
    \/ TimeoutRead(t) \/ TimeoutReveal(t) \/ TimeoutQuestion(t) \/ TimeoutBoard(t)
    \/ TimeoutCast(t) \/ TimeoutGone(t)

Handlers ==
    \/ \E h \in Hosts : HostMessage(h) \/ HostStep(h)
    \/ \E t \in Timers : TimerStep(t)

RoomNext ==
    \/ Handlers
    \/ KeysExpire \/ CallRaises \/ Crash \/ EditQuiz \/ DeleteQuiz

RoomSpec == RoomInit /\ [][RoomNext]_roomVars

\* asyncio runs every ready task and every sleep ends; clients owe no message.
RoomFairness ==
    /\ \A h \in Hosts : WF_roomVars(HostStep(h))
    /\ \A t \in Timers : WF_roomVars(TimerStep(t))

FairRoomSpec == RoomSpec /\ RoomFairness

-----------------------------------------------------------------------------
(* Properties.                                                             *)

Live(t) == timer[t].pc # "free"

\* The index moves by one question at a time, and only away from the countdown
\* or from a question that was ended: no late handler skips, repeats or rewinds
\* a question (the index of handle_next_question is read in another session
\* than the one advance_to_question commits it in).
QuestionsInTurn ==
    [][index' # index => index' = index + 1 /\ status \in {"starting", "revealing"}]_roomVars

\* Every move of the index opens a question no player has seen before, and
\* only such questions have their answers broadcast by QUESTION_ENDED, whatever
\* index a stale timer re-reads.
OpenedOnce == Cardinality(opened) = index /\ ended \subseteq opened

\* No two live timers watch the same index, and none a question still to come:
\* send_question starts one per question, whatever the handlers repeat.
OneTimerPerQuestion ==
    /\ \A t \in Timers : Live(t) => timer[t].index \in 1..index
    /\ \A s, t \in Timers : s # t /\ Live(s) /\ Live(t) => timer[s].index # timer[t].index

\* Once a question was broadcast, answers are timed from its own start or, if
\* the key expired, from none: never from the start of another question.
TimedFromOwnStart ==
    CurrentQuestion \in shown => startKey \in {0, index}

\* A finished game is announced to its clients unless the room is deleted.
FinishedIsAnnounced == status = "finished" ~> announced \/ status = "gone"

\* Attended, in its countdown: a handler sleeps or is on its way to the first question,
\* or to the end when the quiz or the order of its questions is gone.
CountdownAttended ==
    status = "starting" =>
        \E h \in Hosts : host[h].pc \in {"start_order", "countdown", "advance", "open", "close",
                                         "end_read", "end_commit"}

\* Attended, while a question runs: a timer of that question has still to end it, or
\* a handler has still to start one or to end the game.
QuestionAttended ==
    status = "question" =>
        \/ \E t \in Timers : timer[t].pc \in {"asleep", "reveal"} /\ timer[t].index = index
        \/ \E h \in Hosts : host[h].pc \in {"start_key", "send", "end_read", "end_commit"}

\* Attended, once finished: GAME_FINISHED was sent, or whoever ends the game has still
\* to send it, though another handler or the last question finished it first.
EndAttended ==
    status = "finished" /\ ~ announced =>
        \E h \in Hosts : host[h].pc \in {"end_read", "end_commit", "end_board", "end_cast"}

\* A game under way is attended to: unless the process died or a call raised, somebody
\* is about to end the countdown, the running question has its timer or is about to get
\* one, and a finished game that was not announced is about to be, whatever late timers
\* commit and whatever becomes of the keys and the quiz (nothing resumes a room later).
Attended == CountdownAttended /\ QuestionAttended /\ EndAttended

\* The room implements its lifecycle, the two promises of progress included.
Lifecycle == INSTANCE RoomLifecycle WITH phase <- status, position <- index
ImplementsLifecycle == Lifecycle!Spec

\* While a question runs, its correct answers have not been sent to the
\* players (build_room_state withholds them until the reveal).
NoEarlyReveal == ~ (status = "question" /\ CurrentQuestion \in ended)

=============================================================================
