----------------------------- MODULE MCRoomViews ----------------------------
(* Instance of RoomViews for TLC: two questions, one player with a socket,  *)
(* one socket at a time that connects, the host's or the player's.          *)
EXTENDS RoomViews, TLC

MCTwo   == 1..2
MCOnce  == <<<<1, 2>>>>
MCOwner == [s \in Sockets |-> CHOOSE p \in Players : TRUE]
MCFaults == {"exception", "crash", "delete"}

\* The remaining variables are read by no guard and by no property of this run.  Nor is
\* what was recorded of a question that is over, as none is opened again
\* (QuestionsInTurn) and no step reads it for what it writes of another question, or
\* what was disclosed or told of a question that runs no more (PastKept of
\* RoomViewsProofs: it never runs again).
Over(q)           == q # CurrentQuestion /\ q \in opened
Ended(q)          == q \in opened /\ ~ (status = "question" /\ q = CurrentQuestion)
Kept(f)           == [p \in Players |-> [q \in {r \in Questions : ~ Over(r)} |-> f[p][q]]]
Present(tellings) == {tell \in tellings : ~ Ended(tell[2])}
Shown(v) == [view[v] EXCEPT !.told = Present(@),
                            !.scores = [p \in Players |->
                                           [q \in {r \in Questions : ~ Ended(r)} |-> @[p][q]]]]
Relevant == <<row, order, host, timer, opened, disrupted, Kept(verdict), Kept(score), answered,
              submit, [v \in Viewers |-> Shown(v)], update, served, former, registered,
              Present(fed), Present(failed), {q \in disclosed : ~ Ended(q)}>>

=============================================================================
