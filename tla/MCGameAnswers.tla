---------------------------- MODULE MCGameAnswers ---------------------------
(* Instances of GameAnswers for TLC: two questions, then another one after   *)
(* an edit; one player holds all the sockets.                               *)
EXTENDS GameAnswers, TLC

MCQuestions == 1..3
MCEditions  == <<<<1, 2>>, <<3>>>>
MCTwo       == 1..2
MCOnce      == <<<<1, 2>>>>
MCUnedited  == {"expiry", "exception", "crash", "delete"}
MCAll       == DisruptionKinds
MCOwner     == [s \in Sockets |-> CHOOSE p \in Players : TRUE]

\* The remaining variables are read by no guard and, their type aside, by no
\* property of these runs.
Relevant == <<row, order, host, timer, opened, disrupted, answerVars>>

=============================================================================
