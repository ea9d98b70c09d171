---------------------------- MODULE RoomLifecycle ---------------------------
(***************************************************************************)
(* What a room with one host socket promises: its questions are asked one  *)
(* after the other, each is ended before the next, and a game under way    *)
(* never rests in its countdown or in a running question.  GameRoom        *)
(* implements it (see the refinement in that module).                      *)
(***************************************************************************)
EXTENDS Naturals

VARIABLES
    phase,     \* the session's status
    position   \* the number of questions asked so far

vars == <<phase, position>>

Init == phase = "waiting" /\ position = 0

Start == phase = "waiting" /\ phase' = "starting" /\ UNCHANGED position

Ask ==
    /\ phase \in {"starting", "revealing"}
    /\ phase' = "question" /\ position' = position + 1

Reveal == phase = "question" /\ phase' = "revealing" /\ UNCHANGED position

Finish ==
    /\ phase \in {"starting", "question", "revealing"}
    /\ phase' = "finished" /\ UNCHANGED position

\* A timer that read its question as running commits after the game ended.
Reopen == phase = "finished" /\ phase' = "revealing" /\ UNCHANGED position

Remove == phase # "gone" /\ phase' = "gone" /\ UNCHANGED position

Next == Start \/ Ask \/ Reveal \/ Finish \/ Reopen \/ Remove

LeaveCountdown == phase = "starting" /\ (Ask \/ Finish \/ Remove)
EndQuestion    == phase = "question" /\ (Reveal \/ Finish \/ Remove)

Spec == Init /\ [][Next]_vars /\ WF_vars(LeaveCountdown) /\ WF_vars(EndQuestion)

=============================================================================
