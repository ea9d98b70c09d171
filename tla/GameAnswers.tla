----------------------------- MODULE GameAnswers ----------------------------
(***************************************************************************)
(* Players answering in a game room: handle_answer and submit_answer       *)
(* (app/game/router.py, app/game/services.py) running beside the host's    *)
(* handlers and the question timers of GameRoom.                           *)
(*                                                                         *)
(* A player may hold several sockets; each runs one message at a time.     *)
(* The points of an answer are abstracted to their question: a score is    *)
(* the number of times each question's points went into it, so adding      *)
(* points twice, losing them or crediting a wrong answer all show.         *)
(***************************************************************************)
EXTENDS GameRoom

CONSTANTS
    Players,   \* the players of the room
    Sockets,   \* bound: player sockets
    Owner      \* whose socket it is

ASSUME OwnerAssumption == Owner \in [Sockets -> Players]

VARIABLES
    verdict,   \* game_player_answers rows: is_correct of each player and question
    score,     \* game_players.score, as the questions whose points it holds
    answered,  \* Redis game:answered:{room}:{index}, as <<index, player>>
    submit     \* the submit_answer each socket is running

answerVars == <<verdict, score, answered, submit>>
vars       == <<roomVars, answerVars>>

Verdicts    == {"none", "right", "wrong"}
SubmitSteps == {"idle", "check", "question", "commit", "mark"}

NoPoints == [q \in Questions |-> 0]
Resting  == [pc |-> "idle", q |-> 0, right |-> FALSE, index |-> 0, score |-> NoPoints]

SubmitStates == [pc : SubmitSteps, q : Questions \cup {0}, right : BOOLEAN,
                 index : Nat, score : [Questions -> Nat]]

AnswersTypeOK ==
    /\ TypeOK
    /\ verdict \in [Players -> [Questions -> Verdicts]]
    /\ score \in [Players -> [Questions -> Nat]]
    /\ answered \subseteq Nat \X Players
    /\ submit \in [Sockets -> SubmitStates]
    /\ \A s \in Sockets : submit[s].pc # "idle" => submit[s].q > 0

Init ==
    /\ RoomInit
    /\ verdict = [p \in Players |-> [q \in Questions |-> "none"]]
    /\ score = [p \in Players |-> NoPoints]
    /\ answered = {}
    /\ submit = [s \in Sockets |-> Resting]

-----------------------------------------------------------------------------
(* Faulty variants of steps below, in no specification: each shows that a   *)
(* property notices the bug it names.                                       *)

\* An answer to whatever question runs, the submitted id unchecked.
SubmitQuestionAny(s) ==
    /\ submit[s].pc = "question"
    /\ IF CurrentQuestion # 0
       THEN \E right \in BOOLEAN :
                submit' = [submit EXCEPT ![s].pc = "commit", ![s].right = right,
                                         ![s].score = score[Owner[s]]]
       ELSE submit' = [submit EXCEPT ![s] = Resting]
    /\ UNCHANGED <<roomVars, verdict, score, answered>>

\* Points committed before the answer, and kept when it proves a duplicate.
SubmitCommitPointsFirst(s) ==
    LET p == Owner[s]  q == submit[s].q IN
    /\ submit[s].pc = "commit"
    /\ score' = IF submit[s].right
                THEN [score EXCEPT ![p] = [submit[s].score EXCEPT ![q] = @ + 1]]
                ELSE score
    /\ IF verdict[p][q] = "none" /\ q \in Bank
       THEN verdict' = [verdict EXCEPT ![p][q] = IF submit[s].right THEN "right" ELSE "wrong"]
       ELSE UNCHANGED verdict
    /\ submit' = [submit EXCEPT ![s] = Resting]
    /\ UNCHANGED <<roomVars, answered>>

\* No unique key on (player_id, question_id).
SubmitCommitNoUniqueKey(s) ==
    LET p == Owner[s]  q == submit[s].q IN
    /\ submit[s].pc = "commit" /\ q \in Bank
    /\ verdict' = [verdict EXCEPT ![p][q] = IF submit[s].right THEN "right" ELSE "wrong"]
    /\ score' = IF submit[s].right
                THEN [score EXCEPT ![p] = [submit[s].score EXCEPT ![q] = @ + 1]]
                ELSE score
    /\ submit' = [submit EXCEPT ![s] = [submit[s] EXCEPT !.pc = "mark", !.score = NoPoints]]
    /\ UNCHANGED <<roomVars, answered>>

\* The mark written under the index the room has by then.
SubmitMarkLateIndex(s) ==
    /\ submit[s].pc = "mark"
    /\ answered' = answered \cup {<<index, Owner[s]>>}
    /\ submit' = [submit EXCEPT ![s] = Resting]
    /\ UNCHANGED <<roomVars, verdict, score>>

\* The mark written for the socket instead of the player.
SubmitMarkSocket(s) ==
    /\ submit[s].pc = "mark"
    /\ answered' = answered \cup {<<submit[s].index, s>>}
    /\ submit' = [submit EXCEPT ![s] = Resting]
    /\ UNCHANGED <<roomVars, verdict, score>>

-----------------------------------------------------------------------------
(* submit_answer.                                                          *)

\* The client names the question it answers; the running one is not yet known.
SubmitRead(s) ==
    /\ submit[s].pc = "idle" /\ status = "question"
    /\ \E q \in Questions :
           submit' = [submit EXCEPT ![s].pc = "check", ![s].q = q, ![s].index = index]
    /\ UNCHANGED <<roomVars, verdict, score, answered>>

SubmitCheck(s) ==
    /\ submit[s].pc = "check"
    /\ submit' = IF <<submit[s].index, Owner[s]>> \in answered
                 THEN [submit EXCEPT ![s] = Resting]
                 ELSE [submit EXCEPT ![s].pc = "question"]
    /\ UNCHANGED <<roomVars, verdict, score, answered>>

\* get_current_question reads the room again, not its status but its index, and
\* reloads the players: the score added to below is the one read here.  Then
\* the answers are found to be the correct ones or not.
SubmitQuestion(s) ==
    /\ submit[s].pc = "question"
    /\ IF CurrentQuestion = submit[s].q
       THEN \E right \in BOOLEAN :
                submit' = [submit EXCEPT ![s].pc = "commit", ![s].right = right,
                                         ![s].score = score[Owner[s]]]
       ELSE submit' = [submit EXCEPT ![s] = Resting]
    /\ UNCHANGED <<roomVars, verdict, score, answered>>

\* One transaction adds the points and the answer; it is rolled back if the
\* answer is a duplicate (unique key) or its question is gone (foreign key).
SubmitCommit(s) ==
    LET p == Owner[s]  q == submit[s].q IN
    /\ submit[s].pc = "commit"
    /\ \/ /\ verdict[p][q] = "none" /\ q \in Bank
          /\ verdict' = [verdict EXCEPT ![p][q] = IF submit[s].right THEN "right" ELSE "wrong"]
          /\ score' = IF submit[s].right
                      THEN [score EXCEPT ![p] = [submit[s].score EXCEPT ![q] = @ + 1]]
                      ELSE score
          /\ submit' = [submit EXCEPT ![s] = [submit[s] EXCEPT !.pc = "mark", !.score = NoPoints]]
       \/ /\ verdict[p][q] # "none" \/ q \notin Bank
          /\ submit' = [submit EXCEPT ![s] = Resting]
          /\ UNCHANGED <<verdict, score>>
    /\ UNCHANGED <<roomVars, answered>>

SubmitMark(s) ==
    /\ submit[s].pc = "mark"
    /\ answered' = answered \cup {<<submit[s].index, Owner[s]>>}
    /\ submit' = [submit EXCEPT ![s] = Resting]
    /\ UNCHANGED <<roomVars, verdict, score>>

SubmitStep(s) ==
    SubmitRead(s) \/ SubmitCheck(s) \/ SubmitQuestion(s) \/ SubmitCommit(s) \/ SubmitMark(s)

-----------------------------------------------------------------------------
(* Disruptions of the room reach its players' answers as well.             *)

AnsweredExpire ==
    /\ KeysExpire
    /\ \E expired \in SUBSET (1..index) :
           answered' = {mark \in answered : mark[1] \notin expired}
    /\ UNCHANGED <<verdict, score, submit>>

SubmitRaises ==
    /\ Disrupt("exception")
    /\ \E s \in Sockets : submit[s].pc # "idle" /\ submit' = [submit EXCEPT ![s] = Resting]
    /\ UNCHANGED <<row, keys, host, timer, history, verdict, score, answered>>

CrashAll ==
    /\ Crash
    /\ submit' = [s \in Sockets |-> Resting]
    /\ UNCHANGED <<verdict, score, answered>>

\* Deleting a question deletes its answers, but nobody's points.
EditCascade ==
    /\ EditQuiz
    /\ verdict' = [p \in Players |-> [q \in Questions |->
                      IF q \in Bank THEN "none" ELSE verdict[p][q]]]
    /\ UNCHANGED <<score, answered, submit>>

\* Deleting the session deletes its players and their answers.
DeleteCascade ==
    /\ DeleteQuiz
    /\ verdict' = [p \in Players |-> [q \in Questions |-> "none"]]
    /\ score' = [p \in Players |-> NoPoints]
    /\ UNCHANGED <<answered, submit>>

Next ==
    \/ Handlers /\ UNCHANGED answerVars
    \/ \E s \in Sockets : SubmitStep(s)
    \/ AnsweredExpire \/ SubmitRaises \/ CrashAll \/ EditCascade \/ DeleteCascade
    \/ CallRaises /\ UNCHANGED answerVars

Spec == Init /\ [][Next]_vars

-----------------------------------------------------------------------------
(* Properties.                                                             *)

\* No question's points enter a score twice, nor without the right answer that
\* earned them being recorded, whatever sockets submit side by side and whatever
\* Redis forgets: the unique key guards both writes of submit_answer.
NoDoubleCredit ==
    \A p \in Players, q \in Questions :
        /\ score[p][q] <= 1
        /\ score[p][q] = 1 /\ q \in Bank => verdict[p][q] = "right"

\* A player marked as having answered the running question did answer it, so
\* the SISMEMBER fast path never turns away a first answer (the mark is written
\* under the index of submit_answer's first read, the answer under the second).
NoWrongLockout ==
    CurrentQuestion # 0 =>
        \A p \in Players :
            <<index, p>> \in answered => verdict[p][CurrentQuestion] # "none"

\* Answers are recorded only for questions that the room has opened.
AnswersOnlyToOpened ==
    \A p \in Players, q \in Questions : verdict[p][q] # "none" => q \in opened

\* With one socket for each player, answering implements the ledger: no update
\* of a score is lost, though it is read one await before it is written.
Withdrawn ==
    IF status = "gone" THEN Questions
    ELSE UNION {{Editions[e][i] : i \in DOMAIN Editions[e]} : e \in 1..(edition - 1)}
Ledger == INSTANCE AnswerLedger WITH credit <- score, withdrawn <- Withdrawn
ImplementsLedger == Ledger!Spec

=============================================================================
