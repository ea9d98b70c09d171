---------------------------- MODULE AnswerLedger ----------------------------
(***************************************************************************)
(* What submitting answers promises: an answer is recorded once, and at    *)
(* that very step the player is credited for it exactly if it is right.    *)
(* Recorded answers disappear only with their question, which never comes  *)
(* back, and credit only with the whole room.                              *)
(***************************************************************************)
EXTENDS Naturals

CONSTANTS Players, Questions

VARIABLES
    verdict,    \* the recorded answer of each player to each question
    credit,     \* how often each player's total holds each question's points
    withdrawn   \* questions that were deleted

vars == <<verdict, credit, withdrawn>>

Unanswered == [p \in Players |-> [q \in Questions |-> "none"]]
Nothing    == [p \in Players |-> [q \in Questions |-> 0]]

Init == verdict = Unanswered /\ credit = Nothing /\ withdrawn = {}

Record(p, q, v) ==
    /\ q \notin withdrawn /\ verdict[p][q] = "none"
    /\ verdict' = [verdict EXCEPT ![p][q] = v]
    /\ credit' = IF v = "right" THEN [credit EXCEPT ![p][q] = credit[p][q] + 1] ELSE credit
    /\ UNCHANGED withdrawn

Withdraw(qs) ==
    /\ withdrawn' = withdrawn \cup qs
    /\ verdict' = [p \in Players |-> [q \in Questions |->
                      IF q \in qs THEN "none" ELSE verdict[p][q]]]
    /\ UNCHANGED credit

Clear ==
    /\ withdrawn' = Questions
    /\ verdict' = Unanswered /\ credit' = Nothing

Next ==
    \/ \E p \in Players, q \in Questions, v \in {"right", "wrong"} : Record(p, q, v)
    \/ \E qs \in SUBSET Questions : Withdraw(qs)
    \/ Clear

Spec == Init /\ [][Next]_vars

=============================================================================
