----------------------------- MODULE RoomViews ------------------------------
(***************************************************************************)
(* What clients are told of a room beside its broadcasts: the ROOM_STATE   *)
(* that build_room_state (app/game/services.py) puts together for a socket *)
(* that connects, and the HOST_ANSWER_UPDATE with which handle_answer      *)
(* (app/game/router.py) follows up an answer, while the room, its timers   *)
(* and the players of GameAnswers go on.                                   *)
(*                                                                         *)
(* The state is read in several statements.  Each get_room refreshes the   *)
(* rows that the session holds already, so a row read before an await has  *)
(* its later contents after the next get_room; other statements do not.    *)
(*                                                                         *)
(* The host may open its page anew before the handler of its former socket *)
(* has run disconnect_host, which then unregisters the new one.  What      *)
(* send_to_host drops from then on reaches nobody here either.             *)
(***************************************************************************)
EXTENDS GameAnswers

CONSTANTS
    Viewers,   \* bound: sockets that are being connected at once
    MaxFormer  \* bound: former sockets of the host that have yet to leave

ASSUME FormerAssumption == MaxFormer \in Nat

VARIABLES
    view,      \* the endpoint's handler of each socket that is being connected
    update,    \* what handle_answer does on each player socket after its mark
    served,    \* the host's newest socket is past its ROOM_STATE, and open
    former,    \* earlier sockets of the host whose disconnect_host has yet to run
    registered, \* _hosts[room_code] is the newest socket; it is absent otherwise
    fed,       \* history: answers the newest socket was told of, by player and
               \* question, and whether with the points of the question
    failed,    \* history: answers whose follow-up failed, by player and question
    disclosed  \* history: questions whose correct answers a ROOM_STATE carried

hostVars  == <<served, former, registered, fed>>
viewVars  == <<view, update, hostVars, failed, disclosed>>
viewsVars == <<vars, viewVars>>

ViewSteps   == {"idle", "room", "question", "details", "send", "results"}
UpdateSteps == {"idle", "read", "send"}
Tellings    == Players \X Questions \X BOOLEAN

\* forHost: whether the socket is the host's; over: the game was finished when the
\* socket was admitted; ended: the question was being revealed; scores: the
\* players' rows as they were refreshed last; told: the host's answer feed.
NoView   == [pc |-> "idle", forHost |-> FALSE, over |-> FALSE, q |-> 0, ended |-> FALSE,
             scores |-> [p \in Players |-> NoPoints], told |-> {}]
NoUpdate == [pc |-> "idle", q |-> 0, right |-> FALSE]

ViewStates   == [pc : ViewSteps, forHost : BOOLEAN, over : BOOLEAN,
                 q : Questions \cup {0}, ended : BOOLEAN,
                 scores : [Players -> [Questions -> Nat]], told : SUBSET Tellings]
UpdateStates == [pc : UpdateSteps, q : Questions \cup {0}, right : BOOLEAN]

ViewsTypeOK ==
    /\ view \in [Viewers -> ViewStates]
    /\ update \in [Sockets -> UpdateStates]
    /\ served \in BOOLEAN /\ former \in 0..MaxFormer
    /\ registered \in BOOLEAN /\ fed \subseteq Tellings
    /\ failed \subseteq Players \X Questions /\ disclosed \subseteq Questions
    /\ \A v \in Viewers :
        /\ view[v].ended => view[v].q # 0
        /\ view[v].pc = "details" => view[v].forHost /\ view[v].q # 0
    /\ \A s \in Sockets : update[s].pc # "idle" => update[s].q # 0 /\ submit[s].pc = "idle"

ViewsInit ==
    /\ Init
    /\ view = [v \in Viewers |-> NoView]
    /\ update = [s \in Sockets |-> NoUpdate]
    /\ served = FALSE /\ former = 0 /\ registered = FALSE /\ fed = {}
    /\ failed = {} /\ disclosed = {}

\* send_to_host: a message reaches the socket that is registered, if any.
Reached(tellings) == IF registered THEN tellings ELSE {}

-----------------------------------------------------------------------------
(* Faulty variants of steps below, in no specification: each shows that a   *)
(* property notices the bug it names.                                       *)

\* get_current_question's None taken for a question.
StateQuestionUnchecked(v) ==
    /\ view[v].pc = "question"
    /\ view' = [view EXCEPT ![v].q = CurrentQuestion, ![v].ended = (status = "revealing"),
            ![v].scores = score, ![v].pc = IF view[v].forHost THEN "details" ELSE "send"]
    /\ UNCHANGED <<vars, update, hostVars, failed, disclosed>>

\* The correct answers asked for again, as question_timeout does.
StateSendReread(v) ==
    /\ view[v].pc = "send"
    /\ disclosed' = IF view[v].ended THEN disclosed \cup ({CurrentQuestion} \ {0})
                                        ELSE disclosed
    /\ IF view[v].forHost
       THEN /\ served' = TRUE /\ fed' = fed \cup Reached(view[v].told)
            /\ UNCHANGED <<former, registered>>
       ELSE UNCHANGED hostVars
    /\ view' = [view EXCEPT ![v] = NoView]
    /\ UNCHANGED <<vars, update, failed>>

\* The host's socket registered only when it is sent its state.
StateSendRegisters(v) ==
    /\ view[v].pc = "send"
    /\ disclosed' = IF view[v].ended THEN disclosed \cup {view[v].q} ELSE disclosed
    /\ IF view[v].forHost
       THEN served' = TRUE /\ registered' = TRUE /\ fed' = view[v].told /\ UNCHANGED former
       ELSE UNCHANGED hostVars
    /\ view' = [view EXCEPT ![v] = NoView]
    /\ UNCHANGED <<vars, update, failed>>

-----------------------------------------------------------------------------
(* The endpoints up to their loop: admission, the state of the room and, if *)
(* the game was over, its results.                                         *)

\* The admission check; then connect or connect_host registers the socket, so that
\* from here on the host's is sent every update.  A socket of the host that is being
\* served is a former one from here on.  Bounds: one page of the host loads at a time,
\* and MaxFormer.
Connect(v) ==
    /\ view[v].pc = "idle" /\ status # "gone"
    /\ \E forHost \in BOOLEAN :
        /\ forHost => /\ \A w \in Viewers : ~ view[w].forHost
                      /\ served => former < MaxFormer
        /\ view' = [view EXCEPT ![v] = [NoView EXCEPT !.pc = "room", !.forHost = forHost,
                                                      !.over = (status = "finished")]]
        /\ IF forHost
           THEN /\ registered' = TRUE /\ served' = FALSE /\ fed' = {}
                /\ former' = IF served THEN former + 1 ELSE former
           ELSE UNCHANGED hostVars
    /\ UNCHANGED <<vars, update, failed, disclosed>>

\* A question is spoken of only if one is running or being revealed; a room that is
\* gone has neither state nor results.
StateRoom(v) ==
    /\ view[v].pc = "room"
    /\ view' = IF status = "gone" THEN [view EXCEPT ![v] = NoView]
               ELSE [view EXCEPT ![v].pc = IF status \in {"question", "revealing"}
                                           THEN "question" ELSE "send"]
    /\ UNCHANGED <<vars, update, hostVars, failed, disclosed>>

\* get_current_question refreshes the row: the question is the one of its index, and
\* whether it has ended is asked of the same reading, not of the one before.
StateQuestion(v) ==
    LET q == CurrentQuestion
        revealed == q # 0 /\ status = "revealing" IN
    /\ view[v].pc = "question"
    /\ view' = [view EXCEPT ![v].q = q, ![v].ended = revealed,
            ![v].scores = IF view[v].forHost /\ q # 0 THEN score ELSE @,
            ![v].pc = IF q # 0 /\ view[v].forHost THEN "details" ELSE "send"]
    /\ UNCHANGED <<vars, update, hostVars, failed, disclosed>>

\* The answers recorded by now, beside the players' rows as they were read before.
StateDetails(v) ==
    LET q == view[v].q IN
    /\ view[v].pc = "details"
    /\ view' = [view EXCEPT
            ![v].told = {<<p, q, view[v].scores[p][q] > 0>> :
                             p \in {r \in Players : verdict[r][q] # "none"}},
            ![v].scores = NoView.scores, ![v].pc = "send"]
    /\ UNCHANGED <<vars, update, hostVars, failed, disclosed>>

\* get_leaderboard stores the ranking it returns, whoever asks.
Ranks ==
    /\ ranking' = IF status = "gone" THEN ranking ELSE index
    /\ UNCHANGED <<row, order, startKey, host, timer, history, disrupted, answerVars>>

\* With the leaderboard, if the question has ended, the state is complete and sent; its
\* answers are disclosed, whoever is registered.
StateSend(v) ==
    /\ view[v].pc = "send"
    /\ IF view[v].ended
       THEN Ranks /\ disclosed' = disclosed \cup {view[v].q}
       ELSE UNCHANGED <<vars, disclosed>>
    /\ IF view[v].forHost
       THEN /\ served' = TRUE /\ fed' = fed \cup Reached(view[v].told)
            /\ UNCHANGED <<former, registered>>
       ELSE UNCHANGED hostVars
    /\ view' = [view EXCEPT ![v] = [NoView EXCEPT
                   !.pc = IF view[v].over THEN "results" ELSE "idle",
                   !.forHost = view[v].over /\ view[v].forHost]]
    /\ UNCHANGED <<update, failed>>

\* build_game_finished ranks the players once more.
SendResults(v) ==
    /\ view[v].pc = "results"
    /\ Ranks
    /\ view' = [view EXCEPT ![v] = NoView]
    /\ UNCHANGED <<update, hostVars, failed, disclosed>>

\* disconnect_host of a former socket, or of the newest one when its page is closed:
\* both drop the room's entry, whichever socket it holds.
HostLeaves ==
    /\ \/ former > 0 /\ former' = former - 1 /\ UNCHANGED <<served, fed>>
       \/ served /\ (\A v \in Viewers : ~ view[v].forHost) /\ served' = FALSE /\ fed' = {}
          /\ UNCHANGED former
    /\ registered' = FALSE
    /\ UNCHANGED <<vars, view, update, failed, disclosed>>

ViewStep(v) ==
    \/ Connect(v) \/ StateRoom(v) \/ StateQuestion(v) \/ StateDetails(v)
    \/ StateSend(v) \/ SendResults(v)

-----------------------------------------------------------------------------
(* handle_answer after submit_answer has returned.                         *)

\* A socket's next message is handled after this one.
SubmitNext(s) == update[s].pc = "idle" /\ SubmitRead(s) /\ UNCHANGED viewVars

SubmitReturns(s) ==
    /\ SubmitMark(s)
    /\ update' = [update EXCEPT ![s] = [pc |-> "read", q |-> submit[s].q, right |-> FALSE]]
    /\ UNCHANGED <<view, hostVars, failed, disclosed>>

\* get_room refreshes the player's row; there is nothing to send if it is gone.
UpdateRead(s) ==
    /\ update[s].pc = "read"
    /\ update' = IF status = "gone" THEN [update EXCEPT ![s] = NoUpdate]
                 ELSE [update EXCEPT ![s].pc = "send",
                          ![s].right = score[Owner[s]][update[s].q] > 0]
    /\ UNCHANGED <<vars, view, hostVars, failed, disclosed>>

UpdateSend(s) ==
    /\ update[s].pc = "send"
    /\ fed' = fed \cup Reached({<<Owner[s], update[s].q, update[s].right>>})
    /\ update' = [update EXCEPT ![s] = NoUpdate]
    /\ UNCHANGED <<vars, view, served, former, registered, failed, disclosed>>

-----------------------------------------------------------------------------
(* The specification.                                                      *)

\* The process dies with its sockets, and with it what was to follow an answer.
ViewsCrash ==
    /\ CrashAll
    /\ view' = [v \in Viewers |-> NoView]
    /\ update' = [s \in Sockets |-> NoUpdate]
    /\ served' = FALSE /\ former' = 0 /\ registered' = FALSE /\ fed' = {}
    /\ failed' = failed \cup {<<Owner[s], submit[s].q>> :
                               s \in {o \in Sockets : submit[o].pc = "mark"}}
                         \cup {<<Owner[s], update[s].q>> :
                               s \in {o \in Sockets : update[o].pc # "idle"}}
    /\ UNCHANGED disclosed

\* An answer that was committed already is recorded, and the host not told.
SubmitFails ==
    /\ SubmitRaises
    /\ failed' = failed \cup {<<Owner[s], submit[s].q>> :
                   s \in {o \in Sockets : submit[o].pc = "mark" /\ submit'[o].pc = "idle"}}
    /\ UNCHANGED <<view, update, hostVars, disclosed>>

UpdateFails ==
    /\ Disrupt("exception")
    /\ \E s \in Sockets :
        /\ update[s].pc = "read"
        /\ update' = [update EXCEPT ![s] = NoUpdate]
        /\ failed' = failed \cup {<<Owner[s], update[s].q>>}
    /\ UNCHANGED <<row, keys, host, timer, history, answerVars, view, hostVars,
                   disclosed>>

\* A socket whose state or results cannot be read is closed; the host's is disconnected
\* before only if it is the state that could not be read.
ViewFails ==
    /\ Disrupt("exception")
    /\ \E v \in Viewers : /\ view[v].pc # "idle"
                          /\ view' = [view EXCEPT ![v] = NoView]
                          /\ served' = (served /\ ~ view[v].forHost)
                          /\ registered' = (registered /\
                                 (view[v].forHost => view[v].pc = "results"))
    /\ UNCHANGED <<row, keys, host, timer, history, answerVars, update, former, fed,
                   failed, disclosed>>

AnswersNext ==
    \/ Handlers /\ UNCHANGED answerVars
    \/ \E s \in Sockets : SubmitCheck(s) \/ SubmitQuestion(s) \/ SubmitCommit(s)
    \/ AnsweredExpire \/ EditCascade \/ DeleteCascade
    \/ CallRaises /\ UNCHANGED answerVars

ViewsNext ==
    \/ AnswersNext /\ UNCHANGED viewVars
    \/ \E s \in Sockets : SubmitNext(s) \/ SubmitReturns(s) \/ UpdateRead(s) \/ UpdateSend(s)
    \/ (\E v \in Viewers : ViewStep(v)) \/ HostLeaves
    \/ ViewsCrash \/ SubmitFails \/ UpdateFails \/ ViewFails

ViewsSpec == ViewsInit /\ [][ViewsNext]_viewsVars

-----------------------------------------------------------------------------
(* Properties.                                                             *)

\* While a question runs, no ROOM_STATE has carried its correct answers, whenever
\* the socket connected and however the room moved on between the readings of
\* build_room_state: status and index must come from one of them.
NoAnswersWhileRunning == status = "question" => CurrentQuestion \notin disclosed

\* The answered count and the breakdown survive the host's reloading its page in the
\* middle of a question, as long as no former socket's disconnect_host has unregistered
\* the newest one: once that has its ROOM_STATE, it was told of every answer to the
\* running question, with the points it earned, by the state or by an update, or the
\* update is on its way, unless handling the answer failed midway.  The state alone may
\* show an answer without its points.  A host that was unregistered is told of nothing.
FeedComplete ==
    LET q == CurrentQuestion IN
    registered /\ served /\ status = "question" /\ q # 0 =>
        \A p \in Players : verdict[p][q] # "none" =>
            \/ <<p, q, verdict[p][q] = "right">> \in fed \/ <<p, q>> \in failed
            \/ \E s \in Sockets :
                /\ Owner[s] = p
                /\ \/ submit[s].pc = "mark" /\ submit[s].q = q
                   \/ update[s].pc # "idle" /\ update[s].q = q

=============================================================================
