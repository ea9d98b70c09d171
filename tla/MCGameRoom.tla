----------------------------- MODULE MCGameRoom -----------------------------
(* Instances of GameRoom for TLC: two questions, replaced by three others    *)
(* when the quiz is edited, then by none.                                    *)
EXTENDS GameRoom, TLC

MCQuestions == 1..5
MCEditions  == <<<<1, 2>>, <<3, 4, 5>>, <<>>>>
MCAll       == DisruptionKinds
MCQuiet     == {"expiry", "edit", "delete"}

TimerSymmetry == Permutations(Timers)

=============================================================================
