---------------------------- MODULE LobbyProofs ----------------------------
(***************************************************************************)
(* What the lobby promises for any number of requests, codes, nicknames    *)
(* and tags.  A bound by the number of requests is proved by counting the  *)
(* ones that are already on their way together with what they will add;    *)
(* that one of them can always go on, by the fewest that wait for one      *)
(* another.                                                                *)
(***************************************************************************)
EXTENDS Lobby, FiniteSetTheorems, WellFoundedInduction, TLAPS

\* The names of the steps and operations, one by one.
LEMMA Names ==
  /\ "idle" \in Steps /\ "load" \in Steps /\ "tags" \in Steps /\ "set" \in Steps
  /\ "delete" \in Steps /\ "delete_commit" \in Steps
  /\ "create" \in Ops /\ "update" \in Ops /\ "delete" \in Ops
  /\ Statuses \subseteq Ops /\ "draft" \in Statuses /\ "published" \in Statuses
  /\ "keep" \in Edits /\ "empty" \in Edits /\ "list" \in Edits
  BY DEF Steps, Ops, Statuses, Edits

\* Nothing to do is the state of a request, and of a visit.
LEMMA DoneType == Done \in RequestState
  BY Names DEF Done, RequestState
LEMMA GoneType == Gone \in Visit
  BY LobbyAssumption DEF Gone, Visit
LEMMA NoRoomType == NoRoom \in Room
  BY DEF NoRoom, Room

\* A request that ended is typed and idle, and no other one moves.
LEMMA FinishMoves ==
  ASSUME request \in [Requests -> RequestState], NEW r \in Requests, Finish(r)
  PROVE  /\ request' \in [Requests -> RequestState]
         /\ request'[r] = Done
         /\ \A q \in Requests : q # r => request'[q] = request[q]
  BY DoneType DEF Finish

\* So is a visit that ended.
LEMMA LeaveMoves ==
  ASSUME visit \in [Requests -> Visit], NEW r \in Requests, Leave(r)
  PROVE  /\ visit' \in [Requests -> Visit]
         /\ visit'[r] = Gone
         /\ \A q \in Requests : q # r => visit'[q] = visit[q]
  BY GoneType DEF Leave

-----------------------------------------------------------------------------
(* Types.                                                                  *)

\* A request is at one thing, at a step that its operation has; a room is opened
\* with attempts left, and joined by somebody at a code.
AtStep(r) ==
    /\ request[r].pc = "load" => request[r].op # "create"
    /\ request[r].pc = "set" => request[r].op \in Statuses
    /\ request[r].pc = "idle" \/ visit[r].pc = "idle"
    /\ visit[r].pc = "insert" => visit[r].left # 0 /\ quiz.state # "none"
    /\ visit[r].pc \in {"players", "join"} => visit[r].code \in Codes /\ visit[r].nick \in Nicknames

TypeInv == TypeOK /\ \A r \in Requests : AtStep(r)

\* The catalogue's arrivals.
LEMMA ArrivalTyped ==
  ASSUME TypeInv, NEW r \in Requests, Idle(r), CatalogArrival(r), UNCHANGED lobbyVars
  PROVE  TypeInv'
<1>0. /\ request \in [Requests -> RequestState] /\ quiz \in Quiz
      /\ quiz.lists \in SUBSET Nat /\ quiz.status \in Statuses
  BY DEF TypeInv, TypeOK, CatalogTypeOK, Quiz
<1>1. PICK q \in RequestState :
         /\ request' = [request EXCEPT ![r] = q]
         /\ q.pc = "tags" \/ (q.pc = "load" /\ q.op # "create")
  <2>1. CASE CreateQuiz(r)
    <3>1. PICK want \in TagLists, edit \in {"empty", "list"} :
             request' = [request EXCEPT ![r] = [Done EXCEPT !.pc = "tags", !.want = want,
                                                            !.edit = edit]]
      BY <2>1 DEF CreateQuiz
    <3>2. [Done EXCEPT !.pc = "tags", !.want = want, !.edit = edit] \in RequestState
      BY DoneType, Names, TagListsAssumption DEF RequestState
    <3> QED BY <3>1, <3>2 DEF Done
  <2>2. CASE FetchQuiz(r)
    <3>1. PICK op \in Ops \ {"create"}, edit \in Edits, want \in TagLists :
             request' = [request EXCEPT ![r] = [Done EXCEPT !.pc = "load", !.op = op,
                              !.seen = quiz.status, !.edit = edit, !.want = want]]
      BY <2>2 DEF FetchQuiz
    <3>2. [Done EXCEPT !.pc = "load", !.op = op, !.seen = quiz.status, !.edit = edit,
                       !.want = want] \in RequestState
      BY <1>0, DoneType, Names, TagListsAssumption DEF RequestState
    <3> QED BY <3>1, <3>2 DEF Done
  <2> QED BY <2>1, <2>2 DEF CatalogArrival
<1>2. request' \in [Requests -> RequestState] BY <1>0, <1>1
<1>3. UNCHANGED <<quiz, written, tags, room, since, opened, visit>>
  BY DEF CatalogArrival, CreateQuiz, FetchQuiz, lobbyVars
<1>4. TypeOK' BY <1>2, <1>3 DEF TypeInv, TypeOK, CatalogTypeOK
<1>5. ASSUME NEW o \in Requests PROVE AtStep(o)'
  <2>1. CASE o # r
    <3>1. request'[o] = request[o] BY <1>0, <1>1, <2>1
    <3> QED BY <1>3, <3>1 DEF TypeInv, AtStep
  <2>2. CASE o = r
    <3>1. \/ request'[o].pc = "tags"
          \/ request'[o].pc = "load" /\ request'[o].op # "create"
      BY <1>0, <1>1, <2>2
    <3>2. visit'[o].pc = "idle" BY <1>3, <2>2 DEF Idle
    <3> QED BY <3>1, <3>2 DEF AtStep
  <2> QED BY <2>1, <2>2
<1> QED BY <1>4, <1>5 DEF TypeInv

\* The catalogue's own steps.
LEMMA CatalogTyped ==
  ASSUME TypeInv, NEW r \in Requests, CatalogStep(r), UNCHANGED lobbyVars
  PROVE  TypeInv'
<1>0. /\ request \in [Requests -> RequestState] /\ request[r] \in RequestState
      /\ quiz \in Quiz /\ quiz.lists \in SUBSET Nat /\ quiz.status \in Statuses
      /\ written \in Nat /\ since \in Nat /\ tags \subseteq Tags
      /\ room \in [Codes -> Room]
      /\ visit \in [Requests -> Visit] /\ visit' = visit /\ opened' = opened /\ opened \in Nat
  BY DEF TypeInv, TypeOK, CatalogTypeOK, Quiz, lobbyVars
<1>1. /\ request[r].rows \in SUBSET Nat /\ request[r].held \in SUBSET Tags
      /\ request[r].pending \in SUBSET Tags /\ request[r].op \in Ops
      /\ request[r].want \in Seq(Tags) /\ request[r].edit \in Edits
      /\ AtStep(r)
  BY <1>0 DEF RequestState, TypeInv
<1>2. Rewritten(quiz.lists, r) \in SUBSET Nat /\ Rewritten({}, r) \in SUBSET Nat
  BY <1>0, <1>1 DEF Rewritten, Edits
<1>3. Writes(r) => written' \in Nat BY <1>0 DEF Writes
<1>4. RoomIds \in SUBSET Nat BY <1>0 DEF RoomIds, Room
<1>5. ASSUME Finish(r),
             quiz' \in Quiz, quiz.state # "none" => quiz'.state # "none",
             written' \in Nat, since' \in Nat, tags' \subseteq Tags, room' \in [Codes -> Room]
      PROVE  TypeInv'
  <2>1. TypeOK' BY <1>0, <1>5, FinishMoves DEF TypeOK, CatalogTypeOK
  <2>2. ASSUME NEW o \in Requests PROVE AtStep(o)'
    <3>1. AtStep(o) BY DEF TypeInv
    <3>2. CASE o = r
      <4>1. request'[o].pc = "idle" BY <1>0, <1>5, <3>2, FinishMoves DEF Done
      <4> QED BY <1>0, <1>5, <3>1, <4>1 DEF AtStep
    <3>3. CASE o # r
      <4>1. request'[o] = request[o] BY <1>0, <1>5, <3>3, FinishMoves
      <4> QED BY <1>0, <1>5, <3>1, <4>1 DEF AtStep
    <3> QED BY <3>2, <3>3
  <2> QED BY <2>1, <2>2 DEF TypeInv
<1>6. ASSUME NEW q \in RequestState, request' = [request EXCEPT ![r] = q],
             visit[r].pc = "idle", q.pc # "load", q.pc = "set" => q.op \in Statuses,
             UNCHANGED <<quiz, written, tags, room, since>>
      PROVE  TypeInv'
  <2>1. TypeOK' BY <1>0, <1>6 DEF TypeInv, TypeOK, CatalogTypeOK
  <2>2. ASSUME NEW o \in Requests PROVE AtStep(o)'
    <3>1. AtStep(o) BY DEF TypeInv
    <3>2. CASE o = r
      <4>1. request'[o] = q BY <1>0, <1>6, <3>2
      <4> QED BY <1>0, <1>6, <3>1, <3>2, <4>1 DEF AtStep
    <3>3. CASE o # r
      <4>1. request'[o] = request[o] BY <1>0, <1>6, <3>3
      <4> QED BY <1>0, <1>6, <3>1, <4>1 DEF AtStep
    <3> QED BY <3>2, <3>3
  <2> QED BY <2>1, <2>2 DEF TypeInv
<1>7. CASE LoadQuestions(r)
  <2>1. CASE Finish(r) BY <1>0, <1>5, <1>7, <2>1 DEF LoadQuestions
  <2>2. CASE ~ Finish(r)
    <3>1. PICK step \in {"tags", "delete", "set"} :
             /\ request' = [request EXCEPT ![r].rows = quiz.lists, ![r].pc = step]
             /\ step = "set" => request[r].op \in Statuses
      <4>1. request[r].op \in {"update", "delete"} \cup Statuses
        BY <1>1, <1>7 DEF AtStep, LoadQuestions, Ops, Statuses
      <4>2. CASE request[r].op = "update" BY <1>7, <2>2, <4>2 DEF LoadQuestions, Statuses
      <4>3. CASE request[r].op = "delete" BY <1>7, <2>2, <4>3 DEF LoadQuestions, Statuses
      <4>4. CASE request[r].op \in Statuses BY <1>7, <2>2, <4>4 DEF LoadQuestions, Statuses
      <4> QED BY <4>1, <4>2, <4>3, <4>4
    <3>2. [request[r] EXCEPT !.rows = quiz.lists, !.pc = step] \in RequestState
      BY <1>0, <3>1, Names DEF RequestState
    <3>3. request' = [request EXCEPT ![r] = [request[r] EXCEPT !.rows = quiz.lists, !.pc = step]]
      BY <1>0, <3>1
    <3>4. /\ [request[r] EXCEPT !.rows = quiz.lists, !.pc = step].pc = step
          /\ [request[r] EXCEPT !.rows = quiz.lists, !.pc = step].op = request[r].op
      BY <1>0 DEF RequestState
    <3>5. visit[r].pc = "idle" BY <1>1, <1>7 DEF AtStep, LoadQuestions
    <3> QED BY <1>6, <1>7, <3>1, <3>2, <3>3, <3>4, <3>5 DEF LoadQuestions
  <2> QED BY <2>1, <2>2
<1>8. CASE TagLookup(r)
  <2>1. CASE Finish(r) BY <1>0, <1>5, <1>8, <2>1 DEF TagLookup
  <2>2. CASE ~ Finish(r)
    <3> DEFINE held == request[r].held \cup request[r].pending
               next == IF Head(request[r].want) \in tags \cup held
                       THEN {} ELSE {Head(request[r].want)}
               after == [request[r] EXCEPT !.held = held, !.want = Tail(request[r].want),
                                           !.pending = next]
    <3>1. request[r].want # <<>> /\ request[r].pc = "tags" BY <1>8 DEF TagLookup
    <3>2. Head(request[r].want) \in Tags /\ Tail(request[r].want) \in Seq(Tags)
      BY <1>1, <3>1
    <3>3. request' = [request EXCEPT ![r] = after]
      BY <1>0, <1>8, <2>2 DEF TagLookup
    <3>4. next \in SUBSET Tags /\ held \in SUBSET Tags BY <1>1, <3>2
    <3>5. after \in RequestState /\ after.pc = "tags"
      <4> HIDE DEF next, held
      <4> QED BY <1>0, <3>1, <3>2, <3>4 DEF RequestState
    <3>6. visit[r].pc = "idle" BY <1>1, <3>1 DEF AtStep
    <3> HIDE DEF after
    <3> QED BY <1>6, <1>8, <3>3, <3>5, <3>6 DEF TagLookup
  <2> QED BY <2>1, <2>2
<1>9. CASE DeleteSessions(r)
  <2>1. [request[r] EXCEPT !.pc = "delete_commit", !.victims = RoomIds] \in RequestState
    BY <1>0, <1>4, Names DEF RequestState
  <2>2. request' = [request EXCEPT ![r] = [request[r] EXCEPT !.pc = "delete_commit",
                                                             !.victims = RoomIds]]
    BY <1>0, <1>9 DEF DeleteSessions
  <2>3. [request[r] EXCEPT !.pc = "delete_commit", !.victims = RoomIds].pc = "delete_commit"
    BY <1>0 DEF RequestState
  <2>4. visit[r].pc = "idle" BY <1>1, <1>9 DEF AtStep, DeleteSessions
  <2> QED BY <1>6, <1>9, <2>1, <2>2, <2>3, <2>4 DEF DeleteSessions
<1>10. CASE CreateCommit(r)
  <2>1. quiz' \in Quiz /\ (quiz.state # "none" => quiz'.state # "none")
    <3>1. quiz' = quiz
          \/ quiz' = [state |-> "live", status |-> "draft", lists |-> Rewritten({}, r)]
      BY <1>10 DEF CreateCommit
    <3>2. [state |-> "live", status |-> "draft", lists |-> Rewritten({}, r)] \in Quiz
      BY <1>2, Names DEF Quiz
    <3>3. quiz' # quiz => quiz.state = "none" BY <1>10 DEF CreateCommit
    <3> QED BY <1>0, <3>1, <3>2, <3>3
  <2>2. written' \in Nat BY <1>0, <1>3, <1>10 DEF CreateCommit
  <2>3. tags' \subseteq Tags BY <1>0, <1>1, <1>10 DEF CreateCommit
  <2> QED BY <1>0, <1>5, <1>10, <2>1, <2>2, <2>3 DEF CreateCommit
<1>11. CASE UpdateCommit(r)
  <2>1. quiz' \in Quiz /\ (quiz.state # "none" => quiz'.state # "none")
    <3>1. quiz' = quiz \/ quiz' = [quiz EXCEPT !.lists = Rewritten(quiz.lists, r)]
      BY <1>11 DEF UpdateCommit
    <3>2. /\ [quiz EXCEPT !.lists = Rewritten(quiz.lists, r)] \in Quiz
          /\ [quiz EXCEPT !.lists = Rewritten(quiz.lists, r)].state = quiz.state
      BY <1>0, <1>2 DEF Quiz
    <3> QED BY <1>0, <3>1, <3>2
  <2>2. written' \in Nat BY <1>0, <1>3, <1>11 DEF UpdateCommit
  <2>3. tags' \subseteq Tags BY <1>0, <1>1, <1>11 DEF UpdateCommit
  <2>4. since' \in Nat BY <1>0, <1>11 DEF UpdateCommit
  <2> QED BY <1>0, <1>5, <1>11, <2>1, <2>2, <2>3, <2>4 DEF UpdateCommit
<1>12. CASE QuestionRefused(r) \/ DeadlockVictim(r)
  BY <1>0, <1>5, <1>12 DEF QuestionRefused, DeadlockVictim
<1>13. CASE SetCommit(r)
  <2>1. quiz' \in Quiz /\ quiz'.state = quiz.state
    <3>1. quiz' = quiz \/ quiz' = [quiz EXCEPT !.status = request[r].op]
      BY <1>13 DEF SetCommit
    <3>2. request[r].op \in Statuses BY <1>1, <1>13 DEF AtStep, SetCommit
    <3> QED BY <1>0, <3>1, <3>2 DEF Quiz
  <2>2. since' \in Nat BY <1>0, <1>13 DEF SetCommit
  <2> QED BY <1>0, <1>5, <1>13, <2>1, <2>2 DEF SetCommit
<1>14. CASE DeleteCommit(r)
  <2>1. quiz' \in Quiz /\ (quiz.state # "none" => quiz'.state # "none")
    <3>1. quiz' = quiz \/ quiz' = [quiz EXCEPT !.state = "deleted", !.lists = {}]
      BY <1>14 DEF DeleteCommit
    <3> QED BY <1>0, <3>1 DEF Quiz
  <2>2. room' \in [Codes -> Room] BY <1>0, <1>14, NoRoomType DEF DeleteCommit
  <2> QED BY <1>0, <1>5, <1>14, <2>1, <2>2 DEF DeleteCommit
<1> QED BY <1>7, <1>8, <1>9, <1>10, <1>11, <1>12, <1>13, <1>14 DEF CatalogStep

\* Whoever a room was opened for, or who joins it, is at no request.
LEMMA VisitTyped ==
  ASSUME TypeInv, NEW r \in Requests,
         CreateRoomRead(r) \/ JoinRead(r) \/ LobbyStep(r)
  PROVE  /\ TypeInv'
         /\ request[r].pc = "idle" /\ request' = request /\ quiz' = quiz
         /\ \A o \in Requests : o # r => visit'[o] = visit[o]
<1>0. /\ visit \in [Requests -> Visit] /\ visit[r] \in Visit
      /\ room \in [Codes -> Room] /\ opened \in Nat /\ since \in Nat
  BY DEF TypeInv, TypeOK, CatalogTypeOK
<1>1. AtStep(r) BY DEF TypeInv
<1>2. UNCHANGED <<quiz, written, tags, request>>
  BY DEF CreateRoomRead, JoinRead, LobbyStep, CreateRoomInsert, JoinPlayers, JoinCommit,
         catalogVars
<1>3. request[r].pc = "idle"
  BY <1>1 DEF CreateRoomRead, JoinRead, LobbyStep, CreateRoomInsert, JoinPlayers, JoinCommit,
              AtStep, Idle
<1>4. ASSUME NEW v \in Visit, visit' = [visit EXCEPT ![r] = v],
             v.pc = "insert" => (v.left # 0 /\ quiz.state # "none"),
             v.pc \in {"players", "join"} => (v.code \in Codes /\ v.nick \in Nicknames),
             room' \in [Codes -> Room], opened' \in Nat, since' \in Nat
      PROVE  TypeInv' /\ \A o \in Requests : o # r => visit'[o] = visit[o]
  <2>1. TypeOK' BY <1>0, <1>2, <1>4 DEF TypeInv, TypeOK, CatalogTypeOK
  <2>2. ASSUME NEW o \in Requests PROVE AtStep(o)'
    <3>1. AtStep(o) BY DEF TypeInv
    <3>2. CASE o = r
      <4>1. visit'[o] = v BY <1>0, <1>4, <3>2
      <4> QED BY <1>2, <1>3, <1>4, <3>1, <3>2, <4>1 DEF AtStep
    <3>3. CASE o # r
      <4>1. visit'[o] = visit[o] BY <1>0, <1>4, <3>3
      <4> QED BY <1>2, <3>1, <4>1 DEF AtStep
    <3> QED BY <3>2, <3>3
  <2>3. \A o \in Requests : o # r => visit'[o] = visit[o] BY <1>0, <1>4
  <2> QED BY <2>1, <2>2, <2>3 DEF TypeInv
<1>5. ASSUME Leave(r), room' \in [Codes -> Room], opened' \in Nat, since' \in Nat
      PROVE  TypeInv' /\ \A o \in Requests : o # r => visit'[o] = visit[o]
  <2>1. Gone.pc = "idle" BY DEF Gone
  <2> QED BY <1>4, <1>5, <2>1, GoneType DEF Leave
<1>6. CASE CreateRoomRead(r)
  <2> DEFINE v == [Gone EXCEPT !.pc = "insert", !.left = Attempts]
  <2>1. v \in Visit /\ v.pc = "insert" /\ v.left # 0
    <3>1. Attempts \in 0..Attempts /\ Attempts # 0 BY LobbyAssumption
    <3>2. v \in Visit BY <3>1, GoneType DEF Visit
    <3>3. v.pc = "insert" /\ v.left = Attempts BY GoneType DEF Visit
    <3> QED BY <3>1, <3>2, <3>3
  <2>2. visit' = [visit EXCEPT ![r] = v] /\ quiz.state # "none" /\ UNCHANGED <<room, opened, since>>
    BY <1>6 DEF CreateRoomRead, catalogVars
  <2> HIDE DEF v
  <2> QED BY <1>0, <1>2, <1>3, <1>4, <2>1, <2>2
<1>7. CASE CreateRoomInsert(r)
  <2>1. opened' \in Nat /\ since' \in Nat BY <1>0, <1>7 DEF CreateRoomInsert
  <2>2. room' \in [Codes -> Room]
    <3>1. [NoRoom EXCEPT !.id = opened + 1, !.status = "waiting"] \in Room
      <4>1. opened + 1 \in Nat BY <1>0
      <4> DEFINE next == opened + 1
      <4>2. next \in Nat BY <4>1
      <4> HIDE DEF next
      <4>3. [NoRoom EXCEPT !.id = next, !.status = "waiting"] \in Room
        BY <4>2, NoRoomType DEF Room
      <4> QED BY <4>3 DEF next
    <3>2. room' = room
          \/ \E c \in Codes : room' = [room EXCEPT ![c] = [NoRoom EXCEPT !.id = opened + 1,
                                                                  !.status = "waiting"]]
      BY <1>7 DEF CreateRoomInsert
    <3> QED BY <1>0, <3>1, <3>2
  <2>3. CASE Leave(r) BY <1>2, <1>3, <1>5, <2>1, <2>2, <2>3
  <2>4. CASE ~ Leave(r)
    <3> DEFINE v == [visit[r] EXCEPT !.left = visit[r].left - 1]
    <3>1. visit' = [visit EXCEPT ![r].left = visit[r].left - 1] /\ visit[r].left # 1
      BY <1>7, <2>4 DEF CreateRoomInsert
    <3>2. visit' = [visit EXCEPT ![r] = v] BY <1>0, <3>1
    <3>3. visit[r].left \in 0..Attempts /\ visit[r].left # 0 /\ quiz.state # "none"
      BY <1>0, <1>1, <1>7 DEF Visit, AtStep, CreateRoomInsert
    <3>4. visit[r].left - 1 \in 0..Attempts /\ visit[r].left - 1 # 0
      BY <3>1, <3>3, LobbyAssumption
    <3>5. v \in Visit /\ v.pc = "insert" /\ v.left # 0
      BY <1>0, <1>7, <3>4 DEF Visit, CreateRoomInsert
    <3> HIDE DEF v
    <3> QED BY <1>2, <1>3, <1>4, <2>1, <2>2, <3>2, <3>3, <3>5
  <2> QED BY <2>3, <2>4
<1>8. CASE JoinRead(r)
  <2>1. PICK c \in Codes, n \in Nicknames :
           visit' = [visit EXCEPT ![r] = [Gone EXCEPT !.pc = "players", !.code = c,
                                              !.id = room[c].id, !.nick = n]]
    BY <1>8 DEF JoinRead
  <2> DEFINE v == [Gone EXCEPT !.pc = "players", !.code = c, !.id = room[c].id, !.nick = n]
  <2>2. room[c].id \in Nat BY <1>0 DEF Room
  <2>3. v \in Visit /\ v.pc = "players" /\ v.code \in Codes /\ v.nick \in Nicknames
    BY <2>2, GoneType DEF Visit
  <2>4. visit' = [visit EXCEPT ![r] = v] /\ UNCHANGED <<room, opened, since>>
    BY <1>8, <2>1 DEF JoinRead, catalogVars
  <2> HIDE DEF v
  <2> QED BY <1>0, <1>2, <1>3, <1>4, <2>3, <2>4
<1>9. CASE JoinPlayers(r)
  <2>1. UNCHANGED <<room, opened, since>> BY <1>9 DEF JoinPlayers, catalogVars
  <2>2. CASE Leave(r) BY <1>0, <1>2, <1>3, <1>5, <2>1, <2>2
  <2>3. CASE ~ Leave(r)
    <3> DEFINE v == [visit[r] EXCEPT !.pc = "join"]
    <3>1. visit' = [visit EXCEPT ![r].pc = "join"] BY <1>9, <2>3 DEF JoinPlayers
    <3>2. visit' = [visit EXCEPT ![r] = v] BY <1>0, <3>1
    <3>3. visit[r].code \in Codes /\ visit[r].nick \in Nicknames
      BY <1>1, <1>9 DEF AtStep, JoinPlayers
    <3>4. v \in Visit /\ v.pc = "join" /\ v.code \in Codes /\ v.nick \in Nicknames
      BY <1>0, <3>3 DEF Visit
    <3> HIDE DEF v
    <3> QED BY <1>0, <1>2, <1>3, <1>4, <2>1, <3>2, <3>4
  <2> QED BY <2>2, <2>3
<1>10. CASE JoinCommit(r)
  <2> DEFINE c == visit[r].code
  <2>1. c \in Codes /\ visit[r].nick \in Nicknames BY <1>1, <1>10 DEF AtStep, JoinCommit
  <2>2. room' \in [Codes -> Room]
    <3> DEFINE joined == Append(room[c].players, visit[r].nick)
               late == IF room[c].status = "waiting" THEN room[c].late ELSE room[c].late + 1
               after == [room[c] EXCEPT !.players = joined, !.late = late]
    <3>1. room' = room \/ room' = [room EXCEPT ![c] = after]
      BY <1>0, <1>10, <2>1 DEF JoinCommit
    <3>2. room[c].players \in Seq(Nicknames) /\ room[c].late \in Nat BY <1>0, <2>1 DEF Room
    <3>3. joined \in Seq(Nicknames) /\ late \in Nat BY <2>1, <3>2
    <3>4. after \in Room
      <4> HIDE DEF joined, late
      <4> QED BY <1>0, <2>1, <3>3 DEF Room
    <3> HIDE DEF after
    <3> QED BY <1>0, <3>1, <3>4
  <2> QED BY <1>0, <1>2, <1>3, <1>5, <1>10, <2>2 DEF JoinCommit
<1> QED BY <1>6, <1>7, <1>8, <1>9, <1>10, <1>2, <1>3 DEF LobbyStep

\* Starting a room changes its status alone.
LEMMA StartTyped ==
  ASSUME TypeInv, NEW c \in Codes, Start(c)
  PROVE  /\ TypeInv' /\ UNCHANGED <<quiz, since, request, visit>>
         /\ room' = [room EXCEPT ![c] = [room[c] EXCEPT !.status = "starting"]]
<1>0. room \in [Codes -> Room] BY DEF TypeInv, TypeOK, CatalogTypeOK
<1>1. room' = [room EXCEPT ![c] = [room[c] EXCEPT !.status = "starting"]]
  BY <1>0 DEF Start
<1>2. [room[c] EXCEPT !.status = "starting"] \in Room BY <1>0 DEF Room
<1>3. UNCHANGED <<quiz, written, tags, since, request, opened, visit>> BY DEF Start, lobbyVars
<1>4. TypeOK' BY <1>0, <1>1, <1>2, <1>3 DEF TypeInv, TypeOK, CatalogTypeOK
<1>5. \A o \in Requests : AtStep(o)' BY <1>3 DEF TypeInv, AtStep
<1> QED BY <1>1, <1>3, <1>4, <1>5 DEF TypeInv

\* The typed state, with the step each request is at, is inductive.
LEMMA TypeInvariant == Spec => []TypeInv
<1>1. Init => TypeInv
  <2> SUFFICES ASSUME Init PROVE TypeInv OBVIOUS
  <2>1. quiz \in Quiz BY Names DEF Init, CatalogInit, Quiz
  <2>2. room \in [Codes -> Room] BY NoRoomType DEF Init, CatalogInit
  <2>3. request \in [Requests -> RequestState] /\ visit \in [Requests -> Visit]
    BY DoneType, GoneType DEF Init, CatalogInit
  <2>4. \A r \in Requests : AtStep(r) BY DEF Init, CatalogInit, AtStep, Done, Gone
  <2> QED BY <2>1, <2>2, <2>3, <2>4 DEF Init, CatalogInit, TypeInv, TypeOK, CatalogTypeOK
<1>2. TypeInv /\ [Next]_vars => TypeInv'
  <2> SUFFICES ASSUME TypeInv, [Next]_vars PROVE TypeInv' OBVIOUS
  <2>1. CASE \E r \in Requests : CatalogNext(r)
    BY <2>1, ArrivalTyped, CatalogTyped DEF CatalogNext
  <2>2. CASE \E r \in Requests : CreateRoomRead(r) \/ JoinRead(r) \/ LobbyStep(r)
    BY <2>2, VisitTyped
  <2>3. CASE \E c \in Codes : Start(c) BY <2>3, StartTyped
  <2>4. CASE UNCHANGED vars
    BY <2>4 DEF vars, catalogVars, lobbyVars, TypeInv, TypeOK, CatalogTypeOK, AtStep
  <2> QED BY <2>1, <2>2, <2>3, <2>4 DEF Next
<1> QED BY <1>1, <1>2, PTL DEF Spec

\* Lobby: rooms, visits, quiz and requests stay well typed, whichever steps of
\* create_room, join_room and the quiz service come between each other.
THEOREM TypeCorrect == Spec => []TypeOK
<1>1. TypeInv => TypeOK BY DEF TypeInv
<1> QED BY <1>1, TypeInvariant, PTL

-----------------------------------------------------------------------------
(* What a step does to a room and to those on their way to it.             *)

\* The room keeps who it has, and may start.
Same(c) ==
    /\ room'[c].id = room[c].id /\ room'[c].players = room[c].players
    /\ room'[c].late = room[c].late
    /\ room'[c].status \in {room[c].status, "starting"}

\* The room is gone, or new.
Cleared(c) == room'[c].players = <<>> /\ room'[c].late = 0

\* Nobody comes nearer to any room.
NobodyNearer ==
    \A q \in Requests : visit'[q] = visit[q] \/ visit'[q].pc \in {"idle", "insert"}

OnlyMoves(r) == \A q \in Requests : q # r => visit'[q] = visit[q]

\* It has read the room, found a place in it, or taken it.
Reads(r)  == /\ OnlyMoves(r) /\ visit'[r].pc = "players"
             /\ visit'[r].code \in Codes /\ room[visit'[r].code].status = "waiting"
Enters(r) == /\ OnlyMoves(r) /\ visit[r].pc = "players" /\ visit[r].code \in Codes
             /\ visit'[r] = [visit[r] EXCEPT !.pc = "join"]
             /\ Welcome(room[visit[r].code].players, visit[r].nick)
Takes(r)  == /\ OnlyMoves(r) /\ visit[r].pc = "join" /\ HasRoom(r)
             /\ visit'[r].pc = "idle"

\* Every step is one of these to a room.
LEMMA RoomSteps ==
  ASSUME TypeInv, [Next]_vars, NEW c \in Codes
  PROVE  \/ Cleared(c)
         \/ Same(c) /\ NobodyNearer
         \/ \E r \in Requests : Same(c) /\ Reads(r)
         \/ \E r \in Requests : Same(c) /\ Enters(r)
         \/ \E r \in Requests :
               /\ Takes(r) /\ visit[r].code = c
               /\ room'[c] = [room[c] EXCEPT !.players = Append(@, visit[r].nick),
                     !.late = IF room[c].status = "waiting" THEN @ ELSE @ + 1]
<1>0. room \in [Codes -> Room] /\ visit \in [Requests -> Visit]
  BY DEF TypeInv, TypeOK, CatalogTypeOK
<1>1. ASSUME NEW r \in Requests, CatalogNext(r)
      PROVE  Cleared(c) \/ (Same(c) /\ NobodyNearer)
  <2>1. visit' = visit BY <1>1 DEF CatalogNext, lobbyVars
  <2>2. room' = room \/ room' = [d \in Codes |-> NoRoom]
    BY <1>1 DEF CatalogNext, CatalogArrival, CatalogStep, CreateQuiz, FetchQuiz, LoadQuestions,
                TagLookup, CreateCommit, UpdateCommit, QuestionRefused, DeadlockVictim,
                SetCommit, DeleteSessions, DeleteCommit
  <2> QED BY <2>1, <2>2 DEF Cleared, Same, NobodyNearer, NoRoom
<1>2. ASSUME NEW r \in Requests, Leave(r)
      PROVE  OnlyMoves(r) /\ NobodyNearer /\ visit'[r].pc = "idle"
  BY <1>0, <1>2, LeaveMoves DEF OnlyMoves, NobodyNearer, Gone
<1>3. ASSUME NEW r \in Requests, CreateRoomRead(r)
      PROVE  Same(c) /\ NobodyNearer
  <2>1. visit'[r].pc = "insert"
    BY <1>0, <1>3, GoneType DEF CreateRoomRead, Visit
  <2>2. OnlyMoves(r) BY <1>3, VisitTyped DEF OnlyMoves
  <2> QED BY <1>3, <2>1, <2>2 DEF CreateRoomRead, catalogVars, Same, NobodyNearer, OnlyMoves
<1>4. ASSUME NEW r \in Requests, CreateRoomInsert(r)
      PROVE  Cleared(c) \/ (Same(c) /\ NobodyNearer)
  <2>1. visit'[r].pc \in {"idle", "insert"}
    BY <1>0, <1>2, <1>4 DEF CreateRoomInsert, Visit
  <2>2. NobodyNearer BY <1>4, <2>1, VisitTyped DEF NobodyNearer, LobbyStep
  <2>3. CASE room' = room BY <2>2, <2>3 DEF Same
  <2>4. CASE room' # room
    <3>1. PICK d \in Codes : room' = [room EXCEPT ![d] = [NoRoom EXCEPT !.id = opened + 1,
                                                                 !.status = "waiting"]]
      BY <1>4, <2>4 DEF CreateRoomInsert
    <3>2. CASE c = d
      <4>1. room'[c] = [NoRoom EXCEPT !.id = opened + 1, !.status = "waiting"]
        BY <1>0, <3>1, <3>2
      <4> QED BY <4>1 DEF Cleared, NoRoom
    <3>3. CASE c # d BY <1>0, <2>2, <3>1, <3>3 DEF Same
    <3> QED BY <3>2, <3>3
  <2> QED BY <2>3, <2>4
<1>5. ASSUME NEW r \in Requests, JoinRead(r)
      PROVE  Same(c) /\ Reads(r)
  <2>1. PICK d \in Codes, n \in Nicknames :
           /\ room[d].status = "waiting"
           /\ visit' = [visit EXCEPT ![r] = [Gone EXCEPT !.pc = "players", !.code = d,
                                              !.id = room[d].id, !.nick = n]]
    BY <1>5 DEF JoinRead
  <2>2. visit'[r].pc = "players" /\ visit'[r].code = d BY <1>0, <2>1, GoneType DEF Visit
  <2>3. OnlyMoves(r) /\ room' = room
    BY <1>5, VisitTyped DEF OnlyMoves, JoinRead, catalogVars
  <2> QED BY <2>1, <2>2, <2>3 DEF Same, Reads
<1>6. ASSUME NEW r \in Requests, JoinPlayers(r)
      PROVE  Same(c) /\ (NobodyNearer \/ Enters(r))
  <2>1. room' = room /\ OnlyMoves(r)
    BY <1>6, VisitTyped DEF JoinPlayers, catalogVars, OnlyMoves, LobbyStep
  <2>2. visit[r].code \in Codes BY <1>6 DEF TypeInv, AtStep, JoinPlayers
  <2>3. Leave(r) \/ Enters(r) BY <1>0, <1>6, <2>1, <2>2 DEF JoinPlayers, Enters
  <2> QED BY <1>2, <2>1, <2>3 DEF Same
<1>7. ASSUME NEW r \in Requests, JoinCommit(r)
      PROVE  \/ Same(c) /\ NobodyNearer
             \/ /\ Takes(r) /\ visit[r].code = c
                /\ room'[c] = [room[c] EXCEPT !.players = Append(@, visit[r].nick),
                     !.late = IF room[c].status = "waiting" THEN @ ELSE @ + 1]
  <2>0. Leave(r) /\ visit[r].pc = "join" BY <1>7 DEF JoinCommit
  <2>1. CASE HasRoom(r) /\ visit[r].code = c
    <3>1. Takes(r) BY <1>2, <2>0, <2>1 DEF Takes
    <3>2. room' = [room EXCEPT ![c].players = Append(room[c].players, visit[r].nick),
                     ![c].late = IF room[c].status = "waiting" THEN room[c].late
                                                               ELSE room[c].late + 1]
      BY <1>7, <2>1 DEF JoinCommit
    <3>3. room'[c] = [room[c] EXCEPT !.players = Append(@, visit[r].nick),
                     !.late = IF room[c].status = "waiting" THEN @ ELSE @ + 1]
      BY <1>0, <3>2
    <3> QED BY <2>1, <3>1, <3>3
  <2>2. CASE ~ (HasRoom(r) /\ visit[r].code = c)
    <3>1. room'[c] = room[c] BY <1>0, <1>7, <2>2 DEF JoinCommit
    <3> QED BY <1>2, <2>0, <3>1 DEF Same
  <2> QED BY <2>1, <2>2
<1>8. ASSUME NEW d \in Codes, Start(d) PROVE Same(c) /\ NobodyNearer
  <2>1. /\ room' = [room EXCEPT ![d] = [room[d] EXCEPT !.status = "starting"]]
        /\ visit' = visit
    BY <1>8, StartTyped
  <2> QED BY <1>0, <2>1 DEF Same, NobodyNearer, Room
<1>9. CASE UNCHANGED vars BY <1>9 DEF vars, catalogVars, lobbyVars, Same, NobodyNearer
<1> QED BY <1>1, <1>3, <1>4, <1>5, <1>6, <1>7, <1>8, <1>9 DEF Next, LobbyStep

\* Requests are counted: a part of them by a natural number, at most all of them.
LEMMA Counted ==
  /\ AtOnce \in Nat /\ AtOnce # 0
  /\ \A S \in SUBSET Requests :
        IsFiniteSet(S) /\ Cardinality(S) \in Nat /\ Cardinality(S) <= AtOnce
  /\ \A T \in SUBSET Requests : \A S \in SUBSET T : Cardinality(S) <= Cardinality(T)
  /\ \A T \in SUBSET Requests : \A r \in T : \A S \in SUBSET (T \ {r}) :
        Cardinality(S) <= Cardinality(T) - 1
<1>1. AtOnce \in Nat /\ AtOnce # 0
  BY RequestsAssumption, FS_CardinalityType, FS_EmptySet DEF AtOnce
<1>2. ASSUME NEW S \in SUBSET Requests
      PROVE  IsFiniteSet(S) /\ Cardinality(S) \in Nat /\ Cardinality(S) <= AtOnce
  BY RequestsAssumption, FS_Subset, FS_CardinalityType DEF AtOnce
<1>3. ASSUME NEW T \in SUBSET Requests, NEW S \in SUBSET T
      PROVE  Cardinality(S) <= Cardinality(T)
  BY <1>2, FS_Subset
<1>4. ASSUME NEW T \in SUBSET Requests, NEW r \in T, NEW S \in SUBSET (T \ {r})
      PROVE  Cardinality(S) <= Cardinality(T) - 1
  <2>1. Cardinality(T \ {r}) = Cardinality(T) - 1 BY <1>2, FS_RemoveElement
  <2>2. T \ {r} \in SUBSET Requests OBVIOUS
  <2> QED BY <1>3, <2>1, <2>2
<1> QED BY <1>1, <1>2, <1>3, <1>4

-----------------------------------------------------------------------------
(* Capacity.  The players of a room and those who found a place in it are  *)
(* counted together: only the sum is inductive.                            *)

Joining(c) == {r \in Requests : /\ visit[r].pc = "join" /\ visit[r].code = c
                                /\ visit[r].id = room[c].id}

Places(c) == Len(room[c].players) + Cardinality(Joining(c)) < MaxParticipants + AtOnce

\* Lobby: joins that overlap exceed max_participants by less than their number, as each
\* of them had counted the players before it inserted its own.
THEOREM RoomIsNotOverfull == Spec => []RoomNotOverfull
<1> DEFINE Inv == \A c \in Codes : Places(c)
<1>0. \A c \in Codes : Joining(c) \in SUBSET Requests BY DEF Joining
<1>1. Init => Inv
  <2> SUFFICES ASSUME Init, NEW c \in Codes PROVE Places(c) OBVIOUS
  <2>1. Len(room[c].players) = 0 BY DEF Init, CatalogInit, NoRoom
  <2>2. Cardinality(Joining(c)) = 0
    <3>1. Joining(c) = {} BY DEF Init, Joining, Gone
    <3> QED BY <3>1, FS_EmptySet
  <2> QED BY <2>1, <2>2, Counted, LobbyAssumption DEF Places
<1>2. TypeInv /\ TypeInv' /\ Inv /\ [Next]_vars => Inv'
  <2> SUFFICES ASSUME TypeInv, TypeInv', Inv, [Next]_vars, NEW c \in Codes
               PROVE  Places(c)'
    OBVIOUS
  <2>0. /\ room[c].players \in Seq(Nicknames) /\ room'[c].players \in Seq(Nicknames)
        /\ Len(room[c].players) \in Nat /\ Len(room'[c].players) \in Nat
    BY DEF TypeInv, TypeOK, CatalogTypeOK, Room
  <2>1. Joining(c)' \in SUBSET Requests /\ Places(c) BY DEF Joining
  <2>2. ASSUME Len(room'[c].players) < MaxParticipants PROVE Places(c)'
    BY <2>0, <2>1, <2>2, Counted, LobbyAssumption DEF Places, AtOnce
  <2>3. ASSUME Joining(c)' \subseteq Joining(c),
               Len(room'[c].players) <= Len(room[c].players)
        PROVE  Places(c)'
    <3>1. Cardinality(Joining(c)') <= Cardinality(Joining(c)) BY <1>0, <2>3, Counted
    <3>2. Cardinality(Joining(c)') \in Nat /\ Cardinality(Joining(c)) \in Nat
      BY <1>0, <2>1, Counted
    <3> QED BY <2>0, <2>1, <2>3, <3>1, <3>2, Counted, LobbyAssumption DEF Places, AtOnce
  <2>4. CASE Cleared(c) BY <2>2, <2>4, LobbyAssumption DEF Cleared
  <2>5. CASE Same(c) /\ NobodyNearer
    <3>1. Joining(c)' \subseteq Joining(c) BY <2>5 DEF Joining, Same, NobodyNearer
    <3> QED BY <2>0, <2>3, <2>5, <3>1 DEF Same
  <2>6. ASSUME NEW r \in Requests, Same(c), Reads(r) PROVE Places(c)'
    <3>1. Joining(c)' \subseteq Joining(c) BY <2>6 DEF Joining, Same, Reads, OnlyMoves
    <3> QED BY <2>0, <2>3, <2>6, <3>1 DEF Same
  <2>7. ASSUME NEW r \in Requests, Same(c), Enters(r) PROVE Places(c)'
    <3>1. CASE visit[r].code = c BY <2>2, <2>7, <3>1 DEF Enters, Welcome, Same
    <3>2. CASE visit[r].code # c
      <4>1. visit'[r].code = visit[r].code BY <2>7 DEF Enters
      <4>2. Joining(c)' \subseteq Joining(c)
        BY <2>7, <3>2, <4>1 DEF Joining, Same, Enters, OnlyMoves
      <4> QED BY <2>0, <2>3, <2>7, <4>2 DEF Same
    <3> QED BY <3>1, <3>2
  <2>8. ASSUME NEW r \in Requests, Takes(r), visit[r].code = c,
               room'[c] = [room[c] EXCEPT !.players = Append(@, visit[r].nick),
                     !.late = IF room[c].status = "waiting" THEN @ ELSE @ + 1]
        PROVE  Places(c)'
    <3>0. room[c] \in Room BY DEF TypeInv, TypeOK, CatalogTypeOK
    <3>1. room'[c].players = Append(room[c].players, visit[r].nick)
          /\ room'[c].id = room[c].id
      BY <2>8, <3>0 DEF Room
    <3>2. Len(room'[c].players) = Len(room[c].players) + 1 BY <2>0, <3>1
    <3>3. r \in Joining(c) BY <2>8 DEF Joining, Takes, HasRoom
    <3>4. Joining(c)' \subseteq Joining(c) \ {r}
      BY <2>8, <3>1 DEF Joining, Takes, OnlyMoves
    <3>5. Cardinality(Joining(c)') <= Cardinality(Joining(c)) - 1
      BY <1>0, <3>3, <3>4, Counted
    <3>6. Cardinality(Joining(c)') \in Nat /\ Cardinality(Joining(c)) \in Nat
      BY <1>0, <2>1, Counted
    <3> QED BY <2>0, <2>1, <3>2, <3>5, <3>6, Counted, LobbyAssumption DEF Places, AtOnce
  <2> QED BY <2>4, <2>5, <2>6, <2>7, <2>8, RoomSteps
<1>3. TypeInv /\ Inv => RoomNotOverfull
  <2> SUFFICES ASSUME TypeInv, Inv, NEW c \in Codes
               PROVE  Len(room[c].players) < MaxParticipants + AtOnce
    BY DEF RoomNotOverfull
  <2>1. Len(room[c].players) \in Nat BY DEF TypeInv, TypeOK, CatalogTypeOK, Room
  <2> QED BY <1>0, <2>1, Counted, LobbyAssumption DEF Places
<1> QED BY <1>1, <1>2, <1>3, TypeInvariant, PTL DEF Spec

-----------------------------------------------------------------------------
(* Nicknames: the namesakes in a room with those about to be.              *)

Named(s, n)      == {i \in DOMAIN s : s[i] = n}
Namesakes(c, n)  == Named(room[c].players, n)
JoiningAs(c, n)  == {r \in Joining(c) : visit[r].nick = n}
NamePlaces(c, n) == Cardinality(Namesakes(c, n)) + Cardinality(JoiningAs(c, n)) <= AtOnce

\* Namesakes are finitely many, and one joining adds one to them at most.
LEMMA NamesakesCounted ==
  ASSUME NEW s \in Seq(Nicknames), NEW n \in Nicknames
  PROVE  /\ Cardinality(Named(s, n)) \in Nat
         /\ \A m \in Nicknames :
               /\ Cardinality(Named(Append(s, m), n)) \in Nat
               /\ Cardinality(Named(Append(s, m), n)) <= Cardinality(Named(s, n)) + 1
               /\ m # n => Named(Append(s, m), n) = Named(s, n)
<1>1. ASSUME NEW t \in Seq(Nicknames)
      PROVE  IsFiniteSet(Named(t, n)) /\ Cardinality(Named(t, n)) \in Nat
  <2>1. Named(t, n) \subseteq 1..Len(t) /\ Len(t) \in Nat BY DEF Named
  <2>2. IsFiniteSet(1..Len(t)) BY <2>1, FS_Interval
  <2> QED BY <2>1, <2>2, FS_Subset, FS_CardinalityType
<1>2. ASSUME NEW m \in Nicknames
      PROVE  /\ Named(Append(s, m), n) \subseteq Named(s, n) \cup {Len(s) + 1}
             /\ m # n => Named(Append(s, m), n) = Named(s, n)
  BY DEF Named
<1>3. ASSUME NEW m \in Nicknames
      PROVE  Cardinality(Named(Append(s, m), n)) <= Cardinality(Named(s, n)) + 1
  <2> DEFINE A == Named(s, n)
             B == A \cup {Len(s) + 1}
             C == Named(Append(s, m), n)
  <2>1. IsFiniteSet(A) /\ Cardinality(A) \in Nat /\ C \subseteq B BY <1>1, <1>2
  <2>2. IsFiniteSet(B) /\ (Cardinality(B) = Cardinality(A) \/ Cardinality(B) = Cardinality(A) + 1)
    <3> HIDE DEF A
    <3> QED BY <2>1, FS_AddElement
  <2>3. Cardinality(C) <= Cardinality(B) /\ Cardinality(C) \in Nat
    <3> HIDE DEF A, B, C
    <3> QED BY <2>1, <2>2, FS_Subset, FS_CardinalityType
  <2> HIDE DEF A, B, C
  <2> QED BY <2>1, <2>2, <2>3 DEF A, C
<1>4. \A m \in Nicknames : Append(s, m) \in Seq(Nicknames) OBVIOUS
<1> QED BY <1>1, <1>2, <1>3, <1>4

\* Lobby: a nickname is taken more than once only by joins that overlap, each of which
\* had found it free.
THEOREM NicknamesAreBounded == Spec => []NicknamesBounded
<1> DEFINE Inv == \A c \in Codes, n \in Nicknames : NamePlaces(c, n)
<1>0. \A c \in Codes : Joining(c) \in SUBSET Requests BY DEF Joining
<1>00. \A c \in Codes, n \in Nicknames : JoiningAs(c, n) \in SUBSET Requests
  BY <1>0 DEF JoiningAs
<1>1. Init => Inv
  <2> SUFFICES ASSUME Init, NEW c \in Codes, NEW n \in Nicknames PROVE NamePlaces(c, n)
    OBVIOUS
  <2>1. Namesakes(c, n) = {} /\ JoiningAs(c, n) = {}
    BY DEF Init, CatalogInit, NoRoom, Namesakes, Named, JoiningAs, Joining, Gone
  <2>2. Cardinality(Namesakes(c, n)) = 0 /\ Cardinality(JoiningAs(c, n)) = 0
    BY <2>1, FS_EmptySet
  <2> QED BY <2>2, Counted DEF NamePlaces
<1>2. TypeInv /\ TypeInv' /\ Inv /\ [Next]_vars => Inv'
  <2> SUFFICES ASSUME TypeInv, TypeInv', Inv, [Next]_vars,
                      NEW c \in Codes, NEW n \in Nicknames
               PROVE  NamePlaces(c, n)'
    OBVIOUS
  <2>0. room[c].players \in Seq(Nicknames) /\ room'[c].players \in Seq(Nicknames)
    BY DEF TypeInv, TypeOK, CatalogTypeOK, Room
  <2>1. /\ Cardinality(Namesakes(c, n)) \in Nat /\ Cardinality(Namesakes(c, n)') \in Nat
    BY <2>0, NamesakesCounted DEF Namesakes
  <2>2. JoiningAs(c, n)' \in SUBSET Requests /\ NamePlaces(c, n) BY DEF JoiningAs, Joining
  <2>3. /\ Cardinality(JoiningAs(c, n)) \in Nat /\ Cardinality(JoiningAs(c, n)') \in Nat
        /\ Cardinality(JoiningAs(c, n)') <= AtOnce
    BY <1>00, <2>2, Counted
  <2>4. ASSUME Namesakes(c, n)' = {} PROVE NamePlaces(c, n)'
    <3>1. Cardinality(Namesakes(c, n)') = 0 BY <2>4, FS_EmptySet
    <3> QED BY <2>3, <3>1, Counted DEF NamePlaces, AtOnce
  <2>5. ASSUME JoiningAs(c, n)' \subseteq JoiningAs(c, n),
               Namesakes(c, n)' = Namesakes(c, n)
        PROVE  NamePlaces(c, n)'
    <3>1. Cardinality(JoiningAs(c, n)') <= Cardinality(JoiningAs(c, n))
      BY <1>00, <2>5, Counted
    <3> QED BY <2>1, <2>2, <2>3, <2>5, <3>1, Counted DEF NamePlaces, AtOnce
  <2>6. Same(c) => Namesakes(c, n)' = Namesakes(c, n) BY DEF Same, Namesakes
  <2>7. CASE Cleared(c)
    <3>1. Namesakes(c, n)' = {} BY <2>7 DEF Cleared, Namesakes, Named
    <3> QED BY <2>4, <3>1
  <2>8. CASE Same(c) /\ NobodyNearer
    <3>1. JoiningAs(c, n)' \subseteq JoiningAs(c, n)
      BY <2>8 DEF JoiningAs, Joining, Same, NobodyNearer
    <3> QED BY <2>5, <2>6, <2>8, <3>1
  <2>9. ASSUME NEW r \in Requests, Same(c), Reads(r) PROVE NamePlaces(c, n)'
    <3>1. JoiningAs(c, n)' \subseteq JoiningAs(c, n)
      BY <2>9 DEF JoiningAs, Joining, Same, Reads, OnlyMoves
    <3> QED BY <2>5, <2>6, <2>9, <3>1
  <2>10. ASSUME NEW r \in Requests, Same(c), Enters(r) PROVE NamePlaces(c, n)'
    <3>1. CASE visit[r].code = c /\ visit[r].nick = n
      <4>1. Namesakes(c, n) = {} BY <2>10, <3>1 DEF Enters, Welcome, Namesakes, Named
      <4> QED BY <2>4, <2>6, <2>10, <4>1
    <3>2. CASE ~ (visit[r].code = c /\ visit[r].nick = n)
      <4>1. visit'[r].code = visit[r].code /\ visit'[r].nick = visit[r].nick
        BY <2>10 DEF Enters
      <4>2. /\ \A q \in Requests : q # r => visit'[q] = visit[q]
            /\ room'[c].id = room[c].id
        BY <2>10 DEF Same, Enters, OnlyMoves
      <4>3. JoiningAs(c, n)' \subseteq JoiningAs(c, n)
        <5> SUFFICES ASSUME NEW q \in JoiningAs(c, n)' PROVE q \in JoiningAs(c, n)
          OBVIOUS
        <5>1. q \in Requests /\ visit'[q].code = c /\ visit'[q].nick = n
          BY DEF JoiningAs, Joining
        <5>2. q # r BY <3>2, <4>1, <5>1
        <5>3. visit'[q] = visit[q] BY <4>2, <5>1, <5>2
        <5> QED BY <4>2, <5>3 DEF JoiningAs, Joining
      <4> QED BY <2>5, <2>6, <2>10, <4>3
    <3> QED BY <3>1, <3>2
  <2>11. ASSUME NEW r \in Requests, Takes(r), visit[r].code = c,
               room'[c] = [room[c] EXCEPT !.players = Append(@, visit[r].nick),
                     !.late = IF room[c].status = "waiting" THEN @ ELSE @ + 1]
         PROVE  NamePlaces(c, n)'
    <3>0. room[c] \in Room BY DEF TypeInv, TypeOK, CatalogTypeOK
    <3>1. room'[c].players = Append(room[c].players, visit[r].nick)
          /\ room'[c].id = room[c].id
      BY <2>11, <3>0 DEF Room
    <3>2. visit[r].nick \in Nicknames BY <2>11 DEF TypeInv, AtStep, Takes
    <3>3. CASE visit[r].nick = n
      <4>1. r \in JoiningAs(c, n) BY <2>11, <3>3 DEF JoiningAs, Joining, Takes, HasRoom
      <4>2. JoiningAs(c, n)' \subseteq JoiningAs(c, n) \ {r}
        BY <2>11, <3>1 DEF JoiningAs, Joining, Takes, OnlyMoves
      <4>3. Cardinality(JoiningAs(c, n)') <= Cardinality(JoiningAs(c, n)) - 1
        BY <1>00, <4>1, <4>2, Counted
      <4>4. Cardinality(Namesakes(c, n)') <= Cardinality(Namesakes(c, n)) + 1
        BY <2>0, <3>1, <3>2, NamesakesCounted DEF Namesakes
      <4> QED BY <2>1, <2>2, <2>3, <4>3, <4>4, Counted DEF NamePlaces, AtOnce
    <3>4. CASE visit[r].nick # n
      <4>1. Namesakes(c, n)' = Namesakes(c, n)
        BY <2>0, <3>1, <3>2, <3>4, NamesakesCounted DEF Namesakes
      <4>2. JoiningAs(c, n)' \subseteq JoiningAs(c, n)
        BY <2>11, <3>1 DEF JoiningAs, Joining, Takes, OnlyMoves
      <4> QED BY <2>5, <4>1, <4>2
    <3> QED BY <3>3, <3>4
  <2> QED BY <2>7, <2>8, <2>9, <2>10, <2>11, RoomSteps
<1>3. TypeInv /\ Inv => NicknamesBounded
  <2> SUFFICES ASSUME TypeInv, Inv, NEW c \in Codes, NEW n \in Nicknames
               PROVE  Cardinality(Namesakes(c, n)) <= AtOnce
    BY DEF NicknamesBounded, Namesakes, Named
  <2>1. room[c].players \in Seq(Nicknames) BY DEF TypeInv, TypeOK, CatalogTypeOK, Room
  <2>2. Cardinality(Namesakes(c, n)) \in Nat BY <2>1, NamesakesCounted DEF Namesakes
  <2> QED BY <1>00, <2>2, Counted DEF NamePlaces
<1> QED BY <1>1, <1>2, <1>3, TypeInvariant, PTL DEF Spec

-----------------------------------------------------------------------------
(* Joining against starting.                                               *)

Readers(c) == {r \in Requests : /\ visit[r].pc \in {"players", "join"}
                                /\ visit[r].code = c /\ visit[r].id = room[c].id}

LatePlaces(c) == /\ room[c].late + Cardinality(Readers(c)) <= AtOnce
                 /\ room[c].status = "waiting" => room[c].late = 0

\* Lobby: those let in after the start had read the room before it, so they are at most
\* the requests that were on their way.
THEOREM LateJoinsAreBounded == Spec => []LateJoinsBounded
<1> DEFINE Inv == \A c \in Codes : LatePlaces(c)
<1>0. \A c \in Codes : Readers(c) \in SUBSET Requests BY DEF Readers
<1>1. Init => Inv
  <2> SUFFICES ASSUME Init, NEW c \in Codes PROVE LatePlaces(c) OBVIOUS
  <2>1. room[c].late = 0 /\ Readers(c) = {} BY DEF Init, CatalogInit, NoRoom, Readers, Gone
  <2>2. Cardinality(Readers(c)) = 0 BY <2>1, FS_EmptySet
  <2> QED BY <2>1, <2>2, Counted DEF LatePlaces
<1>2. TypeInv /\ TypeInv' /\ Inv /\ [Next]_vars => Inv'
  <2> SUFFICES ASSUME TypeInv, TypeInv', Inv, [Next]_vars, NEW c \in Codes
               PROVE  LatePlaces(c)'
    OBVIOUS
  <2>0. room[c].late \in Nat /\ room'[c].late \in Nat
    BY DEF TypeInv, TypeOK, CatalogTypeOK, Room
  <2>1. Readers(c)' \in SUBSET Requests /\ LatePlaces(c) BY DEF Readers
  <2>2. /\ Cardinality(Readers(c)) \in Nat /\ Cardinality(Readers(c)') \in Nat
        /\ Cardinality(Readers(c)') <= AtOnce
    BY <1>0, <2>1, Counted
  <2>3. ASSUME room'[c].late = 0 PROVE LatePlaces(c)'
    BY <2>2, <2>3, Counted DEF LatePlaces, AtOnce
  <2>4. ASSUME Readers(c)' \subseteq Readers(c), Same(c) PROVE LatePlaces(c)'
    <3>1. Cardinality(Readers(c)') <= Cardinality(Readers(c)) BY <1>0, <2>4, Counted
    <3>2. room'[c].late = room[c].late
          /\ (room'[c].status = "waiting" => room[c].status = "waiting")
      BY <2>4 DEF Same
    <3> QED BY <2>0, <2>1, <2>2, <3>1, <3>2, Counted DEF LatePlaces, AtOnce
  <2>5. CASE Cleared(c) BY <2>3, <2>5 DEF Cleared
  <2>6. CASE Same(c) /\ NobodyNearer
    <3>1. Readers(c)' \subseteq Readers(c) BY <2>6 DEF Readers, Same, NobodyNearer
    <3> QED BY <2>4, <2>6, <3>1
  <2>7. ASSUME NEW r \in Requests, Same(c), Reads(r) PROVE LatePlaces(c)'
    <3>1. CASE room[c].status = "waiting"
      BY <2>1, <2>3, <2>7, <3>1 DEF Same, LatePlaces
    <3>2. CASE room[c].status # "waiting"
      <4>1. Readers(c)' \subseteq Readers(c)
        BY <2>7, <3>2 DEF Readers, Same, Reads, OnlyMoves
      <4> QED BY <2>4, <2>7, <4>1
    <3> QED BY <3>1, <3>2
  <2>8. ASSUME NEW r \in Requests, Same(c), Enters(r) PROVE LatePlaces(c)'
    <3>1. visit'[r].code = visit[r].code /\ visit'[r].id = visit[r].id BY <2>8 DEF Enters
    <3>2. Readers(c)' \subseteq Readers(c)
      BY <2>8, <3>1 DEF Readers, Same, Enters, OnlyMoves
    <3> QED BY <2>4, <2>8, <3>2
  <2>9. ASSUME NEW r \in Requests, Takes(r), visit[r].code = c,
               room'[c] = [room[c] EXCEPT !.players = Append(@, visit[r].nick),
                     !.late = IF room[c].status = "waiting" THEN @ ELSE @ + 1]
        PROVE  LatePlaces(c)'
    <3>0. room[c] \in Room BY DEF TypeInv, TypeOK, CatalogTypeOK
    <3>1. CASE room[c].status = "waiting"
      <4>1. room'[c].late = room[c].late BY <2>9, <3>0, <3>1 DEF Room
      <4> QED BY <2>1, <2>3, <3>1, <4>1 DEF LatePlaces
    <3>2. CASE room[c].status # "waiting"
      <4>1. /\ room'[c].late = room[c].late + 1 /\ room'[c].id = room[c].id
            /\ room'[c].status = room[c].status
        BY <2>9, <3>0, <3>2 DEF Room
      <4>2. r \in Readers(c) BY <2>9 DEF Readers, Takes, HasRoom
      <4>3. Readers(c)' \subseteq Readers(c) \ {r}
        BY <2>9, <4>1 DEF Readers, Takes, OnlyMoves
      <4>4. Cardinality(Readers(c)') <= Cardinality(Readers(c)) - 1
        BY <1>0, <4>2, <4>3, Counted
      <4> QED BY <2>0, <2>1, <2>2, <3>2, <4>1, <4>4, Counted DEF LatePlaces, AtOnce
    <3> QED BY <3>1, <3>2
  <2> QED BY <2>5, <2>6, <2>7, <2>8, <2>9, RoomSteps
<1>3. TypeInv /\ Inv => LateJoinsBounded
  <2> SUFFICES ASSUME TypeInv, Inv, NEW c \in Codes PROVE room[c].late <= AtOnce
    BY DEF LateJoinsBounded
  <2>1. room[c].late \in Nat BY DEF TypeInv, TypeOK, CatalogTypeOK, Room
  <2> QED BY <1>0, <2>1, Counted DEF LatePlaces
<1> QED BY <1>1, <1>2, <1>3, TypeInvariant, PTL DEF Spec

-----------------------------------------------------------------------------
(* Rooms and their quiz.                                                   *)

\* Lobby: deleting a quiz leaves no room of it behind, not even one that was opened
\* between the deletion of its rooms and its own.
THEOREM RoomsAlwaysHaveQuiz == Spec => []RoomsHaveQuiz
<1>1. Init => RoomsHaveQuiz BY DEF Init, CatalogInit, NoRoom, RoomsHaveQuiz, Present
<1>2. TypeInv /\ TypeInv' /\ RoomsHaveQuiz /\ [Next]_vars => RoomsHaveQuiz'
  <2> SUFFICES ASSUME TypeInv, TypeInv', RoomsHaveQuiz, [Next]_vars,
                      NEW c \in Codes, room'[c].id # 0
               PROVE  quiz'.state = "live"
    BY DEF RoomsHaveQuiz, Present
  <2>0. quiz \in Quiz /\ room \in [Codes -> Room] BY DEF TypeInv, TypeOK, CatalogTypeOK
  <2>1. CASE \E r \in Requests : CatalogNext(r)
    <3>1. PICK r \in Requests : CatalogNext(r) BY <2>1
    <3>2. CASE DeleteCommit(r) /\ room' # room BY <3>2 DEF DeleteCommit, NoRoom
    <3>3. CASE room' = room
      <4>1. quiz.state = "live" BY <3>3 DEF RoomsHaveQuiz, Present
      <4>2. CASE DeleteCommit(r)
        <5>1. CASE quiz' = quiz BY <4>1, <5>1
        <5>2. CASE quiz' # quiz BY <4>2, <5>2 DEF DeleteCommit, NoRoom
        <5> QED BY <5>1, <5>2
      <4>3. CASE ~ DeleteCommit(r)
        <5>1. CASE UpdateCommit(r) BY <2>0, <4>1, <5>1 DEF UpdateCommit, Quiz
        <5>2. CASE SetCommit(r) BY <2>0, <4>1, <5>2 DEF SetCommit, Quiz
        <5>3. CASE ~ UpdateCommit(r) /\ ~ SetCommit(r)
          <6>1. quiz' = quiz
            BY <3>1, <4>1, <4>3, <5>3
            DEF CatalogNext, CatalogArrival, CatalogStep, CreateQuiz, FetchQuiz,
                LoadQuestions, TagLookup, CreateCommit, QuestionRefused, DeadlockVictim,
                DeleteSessions
          <6> QED BY <4>1, <6>1
        <5> QED BY <5>1, <5>2, <5>3
      <4> QED BY <4>2, <4>3
    <3>4. room' = room \/ DeleteCommit(r)
      BY <3>1 DEF CatalogNext, CatalogArrival, CatalogStep, CreateQuiz, FetchQuiz,
              LoadQuestions, TagLookup, CreateCommit, UpdateCommit, QuestionRefused,
              DeadlockVictim, SetCommit, DeleteSessions
    <3> QED BY <3>2, <3>3, <3>4
  <2>2. ASSUME NEW r \in Requests, CreateRoomRead(r) \/ JoinRead(r) \/ LobbyStep(r)
        PROVE  quiz'.state = "live"
    <3>1. quiz' = quiz BY <2>2, VisitTyped
    <3>2. CASE CreateRoomInsert(r) /\ room' # room
      <4>1. quiz.state # "deleted" BY <3>2 DEF CreateRoomInsert
      <4>2. quiz.state # "none" BY <3>2 DEF CreateRoomInsert, TypeInv, AtStep
      <4> QED BY <2>0, <3>1, <4>1, <4>2 DEF Quiz
    <3>3. CASE JoinCommit(r)
      <4>1. visit[r].code \in Codes BY <3>3 DEF JoinCommit, TypeInv, AtStep
      <4>2. room'[c].id = room[c].id
        <5> DEFINE d == visit[r].code
                   players == Append(room[d].players, visit[r].nick)
                   late == IF room[d].status = "waiting" THEN room[d].late
                                                         ELSE room[d].late + 1
        <5>1. room' = room \/ room' = [room EXCEPT ![d] = [room[d] EXCEPT !.players = players,
                                                                       !.late = late]]
          BY <2>0, <3>3, <4>1 DEF JoinCommit
        <5> HIDE DEF players, late
        <5> DEFINE new == [room[d] EXCEPT !.players = players, !.late = late]
        <5>2. new.id = room[d].id /\ d \in Codes BY <2>0, <4>1 DEF Room
        <5>3. room' = room \/ room' = [room EXCEPT ![d] = new] BY <5>1
        <5> HIDE DEF new, d
        <5> QED BY <2>0, <5>2, <5>3
      <4> QED BY <3>1, <4>2 DEF RoomsHaveQuiz, Present
    <3>4. CASE room' = room BY <3>1, <3>4 DEF RoomsHaveQuiz, Present
    <3> QED BY <2>2, <3>2, <3>3, <3>4
        DEF CreateRoomRead, JoinRead, LobbyStep, JoinPlayers, catalogVars
  <2>3. ASSUME NEW d \in Codes, Start(d) PROVE quiz'.state = "live"
    <3>1. quiz' = quiz /\ room' = [room EXCEPT ![d] = [room[d] EXCEPT !.status = "starting"]]
      BY <2>3, StartTyped
    <3>2. room'[c].id = room[c].id BY <2>0, <3>1 DEF Room
    <3> QED BY <3>1, <3>2 DEF RoomsHaveQuiz, Present
  <2>4. CASE UNCHANGED vars BY <2>4 DEF vars, catalogVars, RoomsHaveQuiz, Present
  <2> QED BY <2>1, <2>2, <2>3, <2>4 DEF Next
<1> QED BY <1>1, <1>2, TypeInvariant, PTL DEF Spec

-----------------------------------------------------------------------------
(* The status against the requests it was read by.                         *)

Updating == {r \in Requests : request[r].op = "update" /\ request[r].pc \in {"load", "tags"}}
Opening  == {r \in Requests : visit[r].pc = "insert"}

SinceInv ==
    /\ quiz.status = "published" => since + Cardinality(Updating) < AtOnce
    /\ quiz.status = "draft" => since + Cardinality(Opening) < AtOnce
    /\ quiz.state = "none" => quiz.status = "draft"

\* Parts of the requests, and what their numbers are.
LEMMA PartsCounted ==
  /\ Updating \in SUBSET Requests /\ Opening \in SUBSET Requests
  /\ Cardinality(Updating) \in Nat /\ Cardinality(Opening) \in Nat
  BY Counted DEF Updating, Opening

\* Where neither kind grows while its status is in force, nor since, the sums stay.
LEMMA SinceKept ==
  ASSUME TypeInv, TypeInv', SinceInv, since' = since,
         quiz'.status = quiz.status, quiz.state # "none" => quiz'.state # "none",
         quiz.status = "published" => Updating' \subseteq Updating,
         quiz.status = "draft" => Opening' \subseteq Opening
  PROVE  SinceInv'
<1>0. since \in Nat BY DEF TypeInv, TypeOK, CatalogTypeOK
<1>1. Updating' \in SUBSET Requests /\ Opening' \in SUBSET Requests BY DEF Updating, Opening
<1>2. Cardinality(Updating') \in Nat /\ Cardinality(Opening') \in Nat BY <1>1, Counted
<1>3. quiz.status = "published" => Cardinality(Updating') <= Cardinality(Updating)
  BY PartsCounted, Counted
<1>4. quiz.status = "draft" => Cardinality(Opening') <= Cardinality(Opening)
  BY PartsCounted, Counted
<1> QED BY <1>0, <1>2, <1>3, <1>4, PartsCounted, Counted DEF SinceInv, AtOnce

\* An edit of a quiz that was published meanwhile is one of those on their way.
LEMMA UpdateSince ==
  ASSUME TypeInv, TypeInv', SinceInv, NEW r \in Requests, UpdateCommit(r), visit' = visit
  PROVE  SinceInv'
<1>0. /\ request \in [Requests -> RequestState] /\ quiz \in Quiz /\ since \in Nat
  BY DEF TypeInv, TypeOK, CatalogTypeOK
<1>1. request'[r] = Done /\ \A q \in Requests : q # r => request'[q] = request[q]
  BY <1>0, FinishMoves DEF UpdateCommit
<1>2. Updating' \subseteq Updating \ {r} /\ Opening' = Opening
  BY <1>1 DEF Updating, Opening, Done
<1>3. r \in Updating BY DEF UpdateCommit, Updating
<1>4. quiz'.status = quiz.status /\ quiz'.state = quiz.state
  BY <1>0 DEF UpdateCommit, Quiz
<1>5. CASE since' = since
  BY <1>2, <1>4, <1>5, SinceKept
<1>6. CASE since' # since
  <2>1. quiz.status = "published" /\ since' = since + 1 BY <1>0, <1>6 DEF UpdateCommit
  <2>2. Cardinality(Updating') <= Cardinality(Updating) - 1
    BY <1>2, <1>3, PartsCounted, Counted
  <2>3. Updating' \in SUBSET Requests BY DEF Updating
  <2>4. Cardinality(Updating') \in Nat BY <2>3, Counted
  <2>5. since' + Cardinality(Updating') < AtOnce
    BY <1>0, <2>1, <2>2, <2>4, PartsCounted, Counted DEF SinceInv
  <2> QED BY <1>4, <2>1, <2>5 DEF SinceInv, AtOnce
<1> QED BY <1>5, <1>6

\* Whoever changes the status is at nothing else, so fewer than all others are.
LEMMA SetSince ==
  ASSUME TypeInv, TypeInv', SinceInv, NEW r \in Requests, SetCommit(r), visit' = visit
  PROVE  SinceInv'
<1>0. /\ request \in [Requests -> RequestState] /\ quiz \in Quiz /\ since \in Nat
      /\ request[r].op \in Statuses /\ visit[r].pc = "idle"
  BY DEF TypeInv, TypeOK, CatalogTypeOK, AtStep, SetCommit
<1>1. request'[r] = Done /\ \A q \in Requests : q # r => request'[q] = request[q]
  BY <1>0, FinishMoves DEF SetCommit
<1>2. Updating' \subseteq Updating /\ Opening' = Opening
  BY <1>1 DEF Updating, Opening, Done
<1>3. CASE since' = since /\ quiz'.status = quiz.status
  <2>1. quiz'.state = quiz.state BY <1>0 DEF SetCommit, Quiz
  <2> QED BY <1>2, <1>3, <2>1, SinceKept
<1>4. CASE ~ (since' = since /\ quiz'.status = quiz.status)
  <2>1. since' = 0 /\ quiz'.state = "live" BY <1>0, <1>4 DEF SetCommit, Quiz
  <2>2. Updating' \subseteq Requests \ {r} /\ Opening' \subseteq Requests \ {r}
    BY <1>0, <1>1, <1>2 DEF Updating, Opening, Done
  <2>3. /\ Cardinality(Updating') <= Cardinality(Requests) - 1
        /\ Cardinality(Opening') <= Cardinality(Requests) - 1
    BY <2>2, Counted
  <2>4. Cardinality(Updating') \in Nat /\ Cardinality(Opening') \in Nat
    BY <2>2, Counted
  <2>5. Cardinality(Requests) \in Nat BY Counted DEF AtOnce
  <2> QED BY <2>1, <2>3, <2>4, <2>5 DEF SinceInv, AtOnce
<1> QED BY <1>3, <1>4

\* The other steps of the catalogue.
LEMMA OtherSince ==
  ASSUME TypeInv, TypeInv', SinceInv, NEW r \in Requests, CatalogNext(r),
         ~ UpdateCommit(r), ~ SetCommit(r)
  PROVE  SinceInv'
<1>0. /\ request \in [Requests -> RequestState] /\ request[r] \in RequestState
      /\ quiz \in Quiz /\ since \in Nat
  BY DEF TypeInv, TypeOK, CatalogTypeOK
<1>1. visit' = visit BY DEF CatalogNext, lobbyVars
<1>2. /\ since' = since /\ quiz'.status = quiz.status
      /\ (quiz.state # "none" => quiz'.state # "none")
  <2>1. CASE CreateCommit(r) BY <1>0, <2>1 DEF CreateCommit, SinceInv
  <2>2. CASE DeleteCommit(r) BY <1>0, <2>2 DEF DeleteCommit, Quiz
  <2>3. CASE ~ CreateCommit(r) /\ ~ DeleteCommit(r)
    BY <2>3 DEF CatalogNext, CatalogArrival, CatalogStep, CreateQuiz, FetchQuiz,
                LoadQuestions, TagLookup, QuestionRefused, DeadlockVictim, DeleteSessions
  <2> QED BY <2>1, <2>2, <2>3
<1>3. ASSUME Finish(r) PROVE Updating' \subseteq Updating
  <2>1. request'[r] = Done /\ \A q \in Requests : q # r => request'[q] = request[q]
    BY <1>0, <1>3, FinishMoves
  <2> QED BY <2>1 DEF Updating, Done
<1>4. quiz.status = "published" => Updating' \subseteq Updating
  <2> SUFFICES ASSUME quiz.status = "published" PROVE Updating' \subseteq Updating
    OBVIOUS
  <2>1. CASE CreateQuiz(r) \/ FetchQuiz(r)
    <3>1. \A q \in Requests : q # r => request'[q] = request[q]
      BY <1>0, <2>1 DEF CreateQuiz, FetchQuiz
    <3>2. request'[r].op # "update"
      <4>1. CASE CreateQuiz(r) BY <1>0, <4>1 DEF CreateQuiz, Done
      <4>2. CASE FetchQuiz(r) BY <1>0, <4>2 DEF FetchQuiz, Done
      <4> QED BY <2>1, <4>1, <4>2
    <3> QED BY <3>1, <3>2 DEF Updating
  <2>2. CASE CatalogStep(r)
    <3>1. \A q \in Requests : q # r => request'[q] = request[q]
      BY <1>0, <2>2, FinishMoves
      DEF CatalogStep, LoadQuestions, TagLookup, CreateCommit, QuestionRefused,
          DeadlockVictim, DeleteSessions, DeleteCommit
    <3>2. CASE Finish(r) BY <1>3, <3>2
    <3>3. CASE ~ Finish(r)
      <4>1. LoadQuestions(r) \/ TagLookup(r) \/ DeleteSessions(r)
        BY <2>2, <3>3 DEF CatalogStep, CreateCommit, QuestionRefused, DeadlockVictim,
                          DeleteCommit
      <4>2. request'[r].op = request[r].op
        BY <1>0, <3>3, <4>1 DEF LoadQuestions, TagLookup, DeleteSessions, RequestState
      <4>3. request[r].pc \in {"load", "tags"} \/ DeleteSessions(r)
        BY <4>1 DEF LoadQuestions, TagLookup
      <4>4. DeleteSessions(r) => request'[r].pc = "delete_commit"
        BY <1>0 DEF DeleteSessions, RequestState
      <4> QED BY <3>1, <4>2, <4>3, <4>4 DEF Updating
    <3> QED BY <3>2, <3>3
  <2> QED BY <2>1, <2>2 DEF CatalogNext, CatalogArrival
<1>5. Opening' \subseteq Opening BY <1>1 DEF Opening
<1> QED BY <1>2, <1>4, <1>5, SinceKept

\* A room opened for a draft is one of those that found it published.
LEMMA VisitSince ==
  ASSUME TypeInv, TypeInv', SinceInv, NEW r \in Requests,
         CreateRoomRead(r) \/ JoinRead(r) \/ LobbyStep(r)
  PROVE  SinceInv'
<1>0. visit \in [Requests -> Visit] /\ quiz \in Quiz /\ since \in Nat
  BY DEF TypeInv, TypeOK, CatalogTypeOK
<1>1. /\ request' = request /\ quiz' = quiz
      /\ \A o \in Requests : o # r => visit'[o] = visit[o]
  BY VisitTyped
<1>2. Updating' = Updating BY <1>1 DEF Updating
<1>3. CASE CreateRoomRead(r)
  <2>1. quiz.status = "published" /\ since' = since BY <1>3 DEF CreateRoomRead, catalogVars
  <2> QED BY <1>1, <1>2, <2>1, SinceKept
<1>4. CASE CreateRoomInsert(r)
  <2>1. r \in Opening BY <1>4 DEF CreateRoomInsert, Opening
  <2>2. Opening' \subseteq Opening BY <1>1, <2>1 DEF Opening
  <2>3. CASE since' = since BY <1>1, <1>2, <2>2, <2>3, SinceKept
  <2>4. CASE since' # since
    <3>1. quiz.status = "draft" /\ since' = since + 1 /\ Leave(r)
      BY <1>4, <2>4 DEF CreateRoomInsert
    <3>2. Opening' \subseteq Opening \ {r}
      BY <1>0, <2>2, <3>1, LeaveMoves DEF Opening, Gone
    <3>3. Cardinality(Opening') <= Cardinality(Opening) - 1
      BY <2>1, <3>2, PartsCounted, Counted
    <3>4. Opening' \in SUBSET Requests BY DEF Opening
    <3>5. Cardinality(Opening') \in Nat BY <3>4, Counted
    <3>6. since' + Cardinality(Opening') < AtOnce
      BY <1>0, <3>1, <3>3, <3>5, PartsCounted, Counted DEF SinceInv
    <3> QED BY <1>1, <3>1, <3>6 DEF SinceInv, AtOnce
  <2> QED BY <2>3, <2>4
<1>5. CASE JoinRead(r) \/ JoinPlayers(r) \/ JoinCommit(r)
  <2>1. since' = since BY <1>5 DEF JoinRead, JoinPlayers, JoinCommit, catalogVars
  <2>2. visit'[r].pc # "insert"
    <3>1. CASE JoinRead(r) BY <1>0, <3>1, GoneType DEF JoinRead, Visit
    <3>2. CASE JoinPlayers(r)
      <4>1. CASE Leave(r) BY <1>0, <4>1, LeaveMoves DEF Gone
      <4>2. CASE ~ Leave(r)
        <5>1. visit' = [visit EXCEPT ![r].pc = "join"] BY <3>2, <4>2 DEF JoinPlayers
        <5> QED BY <1>0, <5>1 DEF Visit
      <4> QED BY <4>1, <4>2
    <3>3. CASE JoinCommit(r) BY <1>0, <3>3, LeaveMoves DEF JoinCommit, Gone
    <3> QED BY <1>5, <3>1, <3>2, <3>3
  <2>3. Opening' \subseteq Opening BY <1>1, <2>2 DEF Opening
  <2> QED BY <1>1, <1>2, <2>1, <2>3, SinceKept
<1> QED BY <1>3, <1>4, <1>5 DEF LobbyStep

\* Quiz service: a published quiz is edited, and a draft is given a room, only by requests
\* that overlap the change of its status, once by each.
THEOREM StatusIsRespected == Spec => []StatusRespected
<1>1. Init => SinceInv
  <2> SUFFICES ASSUME Init PROVE SinceInv OBVIOUS
  <2>1. Opening = {} BY DEF Init, Opening, Gone
  <2>2. Cardinality(Opening) = 0 BY <2>1, FS_EmptySet
  <2> QED BY <2>2, Counted DEF Init, CatalogInit, SinceInv
<1>2. TypeInv /\ TypeInv' /\ SinceInv /\ [Next]_vars => SinceInv'
  <2> SUFFICES ASSUME TypeInv, TypeInv', SinceInv, [Next]_vars PROVE SinceInv' OBVIOUS
  <2>1. ASSUME NEW r \in Requests, CatalogNext(r) PROVE SinceInv'
    <3>1. visit' = visit BY <2>1 DEF CatalogNext, lobbyVars
    <3> QED BY <2>1, <3>1, UpdateSince, SetSince, OtherSince
  <2>2. CASE \E c \in Codes : Start(c)
    <3>1. UNCHANGED <<quiz, since, request, visit>> BY <2>2, StartTyped
    <3> QED BY <3>1, SinceKept DEF Updating, Opening
  <2>3. CASE UNCHANGED vars
    <3>1. UNCHANGED <<quiz, since, request, visit>> BY <2>3 DEF vars, catalogVars, lobbyVars
    <3> QED BY <3>1, SinceKept DEF Updating, Opening
  <2> QED BY <2>1, <2>2, <2>3, VisitSince DEF Next
<1>3. TypeInv /\ SinceInv => StatusRespected
  <2> SUFFICES ASSUME TypeInv, SinceInv PROVE since < AtOnce BY DEF StatusRespected
  <2>1. since \in Nat /\ quiz.status \in {"draft", "published"}
    BY DEF TypeInv, TypeOK, CatalogTypeOK, Quiz, Statuses
  <2> QED BY <2>1, PartsCounted, Counted DEF SinceInv
<1> QED BY <1>1, <1>2, <1>3, TypeInvariant, PTL DEF Spec

-----------------------------------------------------------------------------
(* Lists of questions.                                                     *)

\* It has read the lists of the quiz, and is to rewrite them.
Editing(r) == request[r].op = "update" /\ request[r].pc = "tags"

\* The number of lists alone says nothing of what overlapping edits will still leave
\* behind.  But each list can be ascribed to the request that wrote it, no two to one
\* request, and a request that edits again has read the list ascribed to it, which it
\* therefore deletes with the list it adds.
Ascribed(w) ==
    /\ \A k, l \in quiz.lists : w[k] = w[l] => k = l
    /\ \A r \in Requests :
           Editing(r) => \A l \in quiz.lists : w[l] = r => l \in request[r].rows

ListsInv == \E w \in [quiz.lists -> Requests] : Ascribed(w)

\* A step that adds no list, where whoever edits after it did before, with the same
\* lists, or has read all there are.
LEMMA ListsKept ==
  ASSUME ListsInv, quiz'.lists \subseteq quiz.lists,
         \A q \in Requests : Editing(q)' =>
             \/ Editing(q) /\ request'[q].rows = request[q].rows
             \/ quiz'.lists \subseteq request'[q].rows
  PROVE  ListsInv'
<1>1. PICK w \in [quiz.lists -> Requests] : Ascribed(w) BY DEF ListsInv
<1> DEFINE v == [l \in quiz'.lists |-> w[l]]
<1>2. v \in [quiz'.lists -> Requests] /\ \A l \in quiz'.lists : v[l] = w[l] OBVIOUS
<1> HIDE DEF v
<1>3. \A k, l \in quiz'.lists : v[k] = v[l] => k = l BY <1>1, <1>2 DEF Ascribed
<1>4. ASSUME NEW q \in Requests, Editing(q)', NEW l \in quiz'.lists, v[l] = q
      PROVE  l \in request'[q].rows
  BY <1>1, <1>2, <1>4 DEF Ascribed
<1> QED BY <1>2, <1>3, <1>4 DEF ListsInv, Ascribed

\* A request that adds a list where it has deleted the ones it had read.
LEMMA ListsRewritten ==
  ASSUME ListsInv, NEW r \in Requests, NEW n,
         \A l \in quiz'.lists \ {n} : /\ l \in quiz.lists
                                      /\ Editing(r) /\ l \notin request[r].rows,
         ~ Editing(r)',
         \A q \in Requests : q # r => request'[q] = request[q]
  PROVE  ListsInv'
<1>1. PICK w \in [quiz.lists -> Requests] : Ascribed(w) BY DEF ListsInv
<1> DEFINE v == [l \in quiz'.lists |-> IF l = n THEN r ELSE w[l]]
<1>2. /\ v \in [quiz'.lists -> Requests]
      /\ \A l \in quiz'.lists : v[l] = IF l = n THEN r ELSE w[l]
  OBVIOUS
<1> HIDE DEF v
<1>3. \A l \in quiz'.lists : l # n => w[l] # r BY <1>1 DEF Ascribed
<1>4. \A k, l \in quiz'.lists : v[k] = v[l] => k = l BY <1>1, <1>2, <1>3 DEF Ascribed
<1>5. ASSUME NEW q \in Requests, Editing(q)', NEW l \in quiz'.lists, v[l] = q
      PROVE  l \in request'[q].rows
  <2>1. q # r /\ Editing(q) /\ request'[q] = request[q] BY <1>5 DEF Editing
  <2>2. l # n /\ w[l] = q BY <1>2, <1>5, <2>1
  <2> QED BY <1>1, <2>1, <2>2 DEF Ascribed
<1> QED BY <1>2, <1>4, <1>5 DEF ListsInv, Ascribed

\* The commits of create_quiz and update_quiz, with which lists are added.
LEMMA CommitLists ==
  ASSUME TypeInv, ListsInv, NEW r \in Requests, CreateCommit(r) \/ UpdateCommit(r)
  PROVE  ListsInv'
<1>0. request \in [Requests -> RequestState] /\ quiz \in Quiz
      /\ request[r].edit \in Edits
  BY DEF TypeInv, TypeOK, CatalogTypeOK, RequestState
<1>1. request'[r] = Done /\ \A q \in Requests : q # r => request'[q] = request[q]
  BY <1>0, FinishMoves DEF CreateCommit, UpdateCommit
<1>2. ~ Editing(r)' BY <1>1 DEF Editing, Done
<1>3. \A q \in Requests : Editing(q)' =>
          Editing(q) /\ request'[q].rows = request[q].rows
  BY <1>1, <1>2 DEF Editing
<1>4. CASE quiz' = quiz BY <1>3, <1>4, ListsKept
<1>5. CASE CreateCommit(r) /\ quiz' # quiz
  <2>1. quiz'.lists = Rewritten({}, r) BY <1>5 DEF CreateCommit
  <2>2. quiz'.lists \subseteq {written + 1} BY <1>0, <2>1 DEF Rewritten, Edits
  <2> QED BY <1>1, <1>2, <2>2, ListsRewritten
<1>6. CASE UpdateCommit(r) /\ quiz' # quiz
  <2>1. Editing(r) /\ quiz'.lists = Rewritten(quiz.lists, r)
    BY <1>0, <1>6 DEF UpdateCommit, Editing, Quiz
  <2>2. CASE request[r].edit \in {"keep", "empty"}
    <3>1. quiz'.lists \subseteq quiz.lists BY <2>1, <2>2 DEF Rewritten
    <3> QED BY <1>3, <3>1, ListsKept
  <2>3. CASE request[r].edit = "list"
    <3>1. quiz'.lists = (quiz.lists \ request[r].rows) \cup {written + 1}
      BY <2>1, <2>3 DEF Rewritten
    <3> QED BY <1>1, <1>2, <2>1, <3>1, ListsRewritten
  <2> QED BY <1>0, <2>2, <2>3 DEF Edits
<1> QED BY <1>4, <1>5, <1>6

\* The other steps of the quiz service: an edit begins with all the lists, and
\* nothing but the deletion of the quiz takes one away.
LEMMA EditsRead ==
  ASSUME TypeInv, NEW r \in Requests,
         \/ CatalogArrival(r) \/ LoadQuestions(r) \/ TagLookup(r) \/ QuestionRefused(r)
         \/ DeadlockVictim(r) \/ SetCommit(r) \/ DeleteSessions(r) \/ DeleteCommit(r)
  PROVE  /\ quiz'.lists \subseteq quiz.lists /\ written' = written
         /\ \A q \in Requests : Editing(q)' =>
               \/ Editing(q) /\ request'[q].rows = request[q].rows
               \/ request'[q].rows = quiz.lists
<1>0. request \in [Requests -> RequestState] /\ request[r] \in RequestState /\ quiz \in Quiz
  BY DEF TypeInv, TypeOK, CatalogTypeOK
<1>1. quiz'.lists \subseteq quiz.lists /\ written' = written
  <2>1. CASE SetCommit(r) \/ DeleteCommit(r)
    BY <1>0, <2>1 DEF SetCommit, DeleteCommit, Quiz
  <2>2. CASE ~ (SetCommit(r) \/ DeleteCommit(r))
    BY <2>2 DEF CatalogArrival, CreateQuiz, FetchQuiz, LoadQuestions, TagLookup,
                QuestionRefused, DeadlockVictim, DeleteSessions
  <2> QED BY <2>1, <2>2
<1>2. \A q \in Requests : q # r => request'[q] = request[q]
  <2>1. CASE CatalogArrival(r) BY <1>0, <2>1 DEF CatalogArrival, CreateQuiz, FetchQuiz
  <2>2. CASE LoadQuestions(r) \/ TagLookup(r) \/ DeleteSessions(r)
    BY <1>0, <2>2 DEF LoadQuestions, TagLookup, DeleteSessions, Finish
  <2>3. CASE QuestionRefused(r) \/ DeadlockVictim(r) \/ SetCommit(r) \/ DeleteCommit(r)
    BY <1>0, <2>3, FinishMoves DEF QuestionRefused, DeadlockVictim, SetCommit, DeleteCommit
  <2> QED BY <2>1, <2>2, <2>3
<1>3. Editing(r)' => \/ Editing(r) /\ request'[r].rows = request[r].rows
                     \/ request'[r].rows = quiz.lists
  <2>1. CASE CreateQuiz(r)
    <3>1. request'[r].op = "create" BY <1>0, <2>1 DEF CreateQuiz, Done
    <3> QED BY <3>1 DEF Editing
  <2>2. CASE FetchQuiz(r)
    <3>1. request'[r].pc = "load" BY <1>0, <2>2 DEF FetchQuiz, Done
    <3> QED BY <3>1 DEF Editing
  <2>3. CASE Finish(r)
    <3>1. request'[r].pc = "idle" BY <1>0, <2>3, FinishMoves DEF Done
    <3> QED BY <3>1 DEF Editing
  <2>4. CASE LoadQuestions(r) /\ ~ Finish(r)
    <3>1. request'[r].rows = quiz.lists BY <1>0, <2>4 DEF LoadQuestions, RequestState
    <3> QED BY <3>1
  <2>5. CASE TagLookup(r) /\ ~ Finish(r)
    <3>1. /\ request[r].pc = "tags" /\ request'[r].op = request[r].op
          /\ request'[r].rows = request[r].rows
      BY <1>0, <2>5 DEF TagLookup, RequestState
    <3> QED BY <3>1 DEF Editing
  <2>6. CASE DeleteSessions(r)
    <3>1. request'[r].pc = "delete_commit" BY <1>0, <2>6 DEF DeleteSessions, RequestState
    <3> QED BY <3>1 DEF Editing
  <2> QED BY <2>1, <2>2, <2>3, <2>4, <2>5, <2>6
          DEF CatalogArrival, QuestionRefused, DeadlockVictim, SetCommit, DeleteCommit
<1>4. \A q \in Requests : q # r /\ Editing(q)' =>
          Editing(q) /\ request'[q].rows = request[q].rows
  BY <1>2 DEF Editing
<1> QED BY <1>1, <1>3, <1>4

LEMMA OtherLists ==
  ASSUME TypeInv, ListsInv, NEW r \in Requests,
         \/ CatalogArrival(r) \/ LoadQuestions(r) \/ TagLookup(r) \/ QuestionRefused(r)
         \/ DeadlockVictim(r) \/ SetCommit(r) \/ DeleteSessions(r) \/ DeleteCommit(r)
  PROVE  ListsInv'
<1>1. quiz'.lists \subseteq quiz.lists BY EditsRead
<1>2. \A q \in Requests : Editing(q)' =>
          \/ Editing(q) /\ request'[q].rows = request[q].rows
          \/ quiz'.lists \subseteq request'[q].rows
  BY <1>1, EditsRead
<1> QED BY <1>1, <1>2, ListsKept

\* Lobby: overlapping edits may each leave their list of questions in the quiz, but
\* whoever edits again deletes what it has read, its own former list with it, so the
\* lists never outnumber the requests that are handled at once.
THEOREM ListsAreBounded == Spec => []ListsBounded
<1>1. Init => ListsInv
  <2> SUFFICES ASSUME Init PROVE ListsInv OBVIOUS
  <2>1. quiz.lists = {} BY DEF Init, CatalogInit
  <2> DEFINE w == [l \in {} |-> CHOOSE r \in Requests : TRUE]
  <2>2. w \in [quiz.lists -> Requests] BY <2>1
  <2>3. Ascribed(w) BY <2>1 DEF Ascribed
  <2> QED BY <2>2, <2>3 DEF ListsInv
<1>2. TypeInv /\ ListsInv /\ [Next]_vars => ListsInv'
  <2> SUFFICES ASSUME TypeInv, ListsInv, [Next]_vars PROVE ListsInv' OBVIOUS
  <2>1. CASE \E r \in Requests : CatalogNext(r)
    BY <2>1, CommitLists, OtherLists DEF CatalogNext, CatalogStep
  <2>2. CASE UNCHANGED <<quiz, request>> BY <2>2, ListsKept DEF Editing
  <2>3. CASE \E r \in Requests : CreateRoomRead(r) \/ JoinRead(r) \/ LobbyStep(r)
    BY <2>2, <2>3, VisitTyped
  <2>4. CASE \E c \in Codes : Start(c) BY <2>2, <2>4, StartTyped
  <2>5. CASE UNCHANGED vars BY <2>2, <2>5 DEF vars, catalogVars
  <2> QED BY <2>1, <2>3, <2>4, <2>5 DEF Next
<1>3. ListsInv => ListsBounded
  <2> SUFFICES ASSUME ListsInv PROVE Cardinality(quiz.lists) <= Cardinality(Requests)
    BY DEF ListsBounded, AtOnce
  <2>1. PICK w \in [quiz.lists -> Requests] : Ascribed(w) BY DEF ListsInv
  <2>2. w \in Injection(quiz.lists, Requests) BY <2>1 DEF Ascribed, Injection, IsInjective
  <2> QED BY <2>2, RequestsAssumption, FS_Injection
<1> QED BY <1>1, <1>2, <1>3, TypeInvariant, PTL DEF Spec

\* What an edit has not read is newer than all that it has: lists are numbered as they
\* are written, and it has read every list there was.
NewerInv ==
    /\ quiz.lists \subseteq 1..written
    /\ \A r \in Requests : Editing(r) =>
          /\ request[r].rows \subseteq 1..written
          /\ \A l \in quiz.lists \ request[r].rows, k \in request[r].rows : k < l

\* A step that adds the next list at most, where whoever edits after it did before, with
\* the same lists, or has just read all there are.
LEMMA NewerKept ==
  ASSUME NewerInv, written \in Nat,
         \/ written' = written /\ quiz'.lists \subseteq quiz.lists
         \/ written' = written + 1 /\ quiz'.lists \subseteq quiz.lists \cup {written + 1},
         \A q \in Requests : Editing(q)' =>
             \/ Editing(q) /\ request'[q].rows = request[q].rows
             \/ request'[q].rows = quiz.lists /\ quiz'.lists \subseteq quiz.lists
  PROVE  NewerInv'
<1>1. /\ 1..written \subseteq 1..written' /\ quiz'.lists \subseteq 1..written'
      /\ \A l \in quiz'.lists : l \in quiz.lists \/ \A k \in 1..written : k < l
  BY DEF NewerInv
<1>2. ASSUME NEW q \in Requests, Editing(q)'
      PROVE  /\ request'[q].rows \subseteq 1..written'
             /\ \A l \in quiz'.lists \ request'[q].rows, k \in request'[q].rows : k < l
  <2>1. CASE Editing(q) /\ request'[q].rows = request[q].rows
    BY <1>1, <2>1 DEF NewerInv
  <2>2. CASE request'[q].rows = quiz.lists /\ quiz'.lists \subseteq quiz.lists
    BY <1>1, <2>2 DEF NewerInv
  <2> QED BY <1>2, <2>1, <2>2
<1> QED BY <1>1, <1>2 DEF NewerInv

\* The commits of create_quiz and update_quiz number the list they add.
LEMMA CommitNewer ==
  ASSUME TypeInv, NewerInv, NEW r \in Requests, CreateCommit(r) \/ UpdateCommit(r)
  PROVE  NewerInv'
<1>0. /\ request \in [Requests -> RequestState] /\ quiz \in Quiz /\ written \in Nat
      /\ request[r].edit \in Edits
  BY DEF TypeInv, TypeOK, CatalogTypeOK, RequestState
<1>1. request'[r] = Done /\ \A q \in Requests : q # r => request'[q] = request[q]
  BY <1>0, FinishMoves DEF CreateCommit, UpdateCommit
<1>2. \A q \in Requests : Editing(q)' =>
          Editing(q) /\ request'[q].rows = request[q].rows
  BY <1>1 DEF Editing, Done
<1>3. \/ UNCHANGED <<quiz, written>>
      \/ Writes(r) /\ quiz'.lists \in {Rewritten({}, r), Rewritten(quiz.lists, r)}
  BY <1>0 DEF CreateCommit, UpdateCommit, Quiz
<1>4. CASE UNCHANGED <<quiz, written>> BY <1>0, <1>2, <1>4, NewerKept
<1>5. CASE Writes(r) /\ quiz'.lists \in {Rewritten({}, r), Rewritten(quiz.lists, r)}
  <2>1. \/ written' = written /\ quiz'.lists \subseteq quiz.lists
        \/ written' = written + 1 /\ quiz'.lists \subseteq quiz.lists \cup {written + 1}
    BY <1>0, <1>5 DEF Writes, Rewritten, Edits
  <2> QED BY <1>0, <1>2, <2>1, NewerKept
<1> QED BY <1>3, <1>4, <1>5

\* What an edit rewrites are the lists that are newer than all it has read, and its own.
LEMMA EditNewer ==
  ASSUME TypeInv, NewerInv, NEW r \in Requests, UpdateCommit(r), quiz'.lists # quiz.lists,
         NEW l \in quiz'.lists, NEW k \in request[r].rows
  PROVE  k < l
<1>0. quiz \in Quiz /\ request[r].edit \in Edits /\ written \in Nat
  BY DEF TypeInv, TypeOK, CatalogTypeOK, RequestState
<1>1. Editing(r) /\ quiz'.lists = Rewritten(quiz.lists, r)
  BY <1>0 DEF UpdateCommit, Editing, Quiz
<1>2. quiz'.lists \subseteq (quiz.lists \ request[r].rows) \cup {written + 1}
  BY <1>0, <1>1 DEF Rewritten, Edits
<1>3. k \in 1..written BY <1>1 DEF NewerInv
<1>4. CASE l \in quiz.lists \ request[r].rows BY <1>1, <1>4 DEF NewerInv
<1>5. CASE l = written + 1 BY <1>0, <1>3, <1>5
<1> QED BY <1>2, <1>4, <1>5

\* Lobby: a list of questions outlives an edit only if it was written while that edit was
\* under way, whatever other edits, renamings of tags and deletions overlap it.
THEOREM EditsReplaceLists == Spec => EditsReplace
<1>1. Init => NewerInv
  BY DEF Init, CatalogInit, NewerInv, Editing, Done
<1>2. TypeInv /\ NewerInv /\ [Next]_vars => NewerInv'
  <2> SUFFICES ASSUME TypeInv, NewerInv, [Next]_vars PROVE NewerInv' OBVIOUS
  <2>0. written \in Nat BY DEF TypeInv, TypeOK, CatalogTypeOK
  <2>1. ASSUME NEW r \in Requests, CatalogNext(r) PROVE NewerInv'
    <3>1. CASE CreateCommit(r) \/ UpdateCommit(r) BY <3>1, CommitNewer
    <3>2. CASE ~ (CreateCommit(r) \/ UpdateCommit(r))
      <4>1. \/ CatalogArrival(r) \/ LoadQuestions(r) \/ TagLookup(r) \/ QuestionRefused(r)
            \/ DeadlockVictim(r) \/ SetCommit(r) \/ DeleteSessions(r) \/ DeleteCommit(r)
        BY <2>1, <3>2 DEF CatalogNext, CatalogStep
      <4> QED BY <2>0, <4>1, EditsRead, NewerKept
    <3> QED BY <3>1, <3>2
  <2>2. CASE UNCHANGED <<quiz, written, request>>
    BY <2>0, <2>2, NewerKept DEF Editing
  <2>3. CASE \E r \in Requests : CreateRoomRead(r) \/ JoinRead(r) \/ LobbyStep(r)
    <3>1. ASSUME NEW r \in Requests, CreateRoomRead(r) \/ JoinRead(r) \/ LobbyStep(r)
          PROVE  UNCHANGED <<quiz, written, request>>
      BY <3>1 DEF CreateRoomRead, JoinRead, LobbyStep, CreateRoomInsert, JoinPlayers,
                  JoinCommit, catalogVars
    <3> QED BY <2>2, <2>3, <3>1
  <2>4. CASE \E c \in Codes : Start(c)
    BY <2>2, <2>4 DEF Start, lobbyVars
  <2>5. CASE UNCHANGED vars BY <2>2, <2>5 DEF vars, catalogVars
  <2> QED BY <2>1, <2>3, <2>4, <2>5 DEF Next
<1>3. TypeInv /\ NewerInv /\ [Next]_vars =>
          [\A r \in Requests :
              UpdateCommit(r) /\ quiz'.lists # quiz.lists =>
                  \A l \in quiz'.lists, k \in request[r].rows : k < l]_vars
  BY EditNewer
<1> QED BY <1>1, <1>2, <1>3, TypeInvariant, PTL DEF Spec, EditsReplace

-----------------------------------------------------------------------------
(* Nobody waits for good.                                                  *)

\* The guards of the steps of r's request or visit, those that wait for others among
\* them: SomebodyGoesOn without ENABLED.  QuestionRefused is not needed.
CanGoOn(r) ==
    \/ request[r].pc \in {"load", "set", "delete_commit"}
    \/ request[r].pc = "tags" /\ Deadlocked(r)
    \/ /\ request[r].pc = "tags" /\ ~ Waits(r)
       /\ \/ request[r].want # <<>>
          \/ request[r].op = "create"
          \/ request[r].op = "update" /\ quiz.state # "none"
    \/ request[r].pc = "delete" /\ \A c \in Codes : Present(c) => ~ Doomed(c)
    \/ visit[r].pc = "insert" /\ \E c \in Codes : ~ (Present(c) /\ Doomed(c))
    \/ visit[r].pc = "players"
    \/ visit[r].pc = "join" /\ (HasRoom(r) => ~ Doomed(visit[r].code))

\* A transaction holds names or rows only in the steps that end it.
HoldsAtStep(r) ==
    /\ request[r].victims # {} => request[r].pc = "delete_commit"
    /\ request[r].held # {} => request[r].pc = "tags"
    /\ request[r].pc = "tags" =>
           request[r].op = "create" \/ (request[r].op = "update" /\ quiz.state # "none")
    /\ request[r].pc = "load" => quiz.state # "none"

HoldsInv == \A r \in Requests : HoldsAtStep(r)

\* Of finitely many transactions that all wait for one of them, some wait in a circle:
\* the fewest that do have nobody for whom no other one waits.
LEMMA WaitingInCircles ==
  ASSUME NEW W \in SUBSET Requests, W # {},
         \A x \in W : \E y \in W : WaitsFor(x, y)
  PROVE  \E r \in W : Deadlocked(r)
<1> DEFINE Stuck == {S \in SUBSET W : S # {} /\ \A x \in S : \E y \in S : WaitsFor(x, y)}
           sizes == {Cardinality(S) : S \in Stuck}
           less  == OpToRel(<, Nat)
<1>1. \A S \in SUBSET Requests : IsFiniteSet(S) /\ Cardinality(S) \in Nat
  BY RequestsAssumption, FS_Subset, FS_CardinalityType
<1>2. W \in Stuck OBVIOUS
<1>3. sizes \subseteq Nat /\ sizes # {} BY <1>1, <1>2
<1>4. PICK n \in sizes : \A m \in sizes : ~ (m < n)
  <2>1. IsWellFoundedOn(less, Nat) BY NatLessThanWellFounded
  <2> HIDE DEF sizes
  <2>2. \A m, n \in Nat : m < n => <<m, n>> \in less BY DEF OpToRel
  <2> HIDE DEF less
  <2>3. \E n \in sizes : \A m \in sizes : ~ (<<m, n>> \in less) BY <1>3, <2>1, WFMin
  <2> QED BY <1>3, <2>2, <2>3
<1>5. PICK S \in Stuck : n = Cardinality(S) OBVIOUS
<1>6. ASSUME NEW x \in S PROVE \E y \in S : WaitsFor(y, x)
  <2> SUFFICES ASSUME \A y \in S : ~ WaitsFor(y, x) PROVE FALSE
    OBVIOUS
  <2> DEFINE R == S \ {x}
  <2>1. PICK y \in S : WaitsFor(x, y) OBVIOUS
  <2>2. y # x BY <2>1 DEF WaitsFor
  <2>3. R \in Stuck BY <2>1, <2>2
  <2>4. Cardinality(R) = Cardinality(S) - 1 BY <1>1, FS_RemoveElement
  <2>5. Cardinality(R) < n BY <1>1, <1>5, <2>4
  <2>6. Cardinality(R) \in sizes BY <2>3
  <2> QED BY <1>4, <2>5, <2>6
<1>7. PICK r \in S : TRUE OBVIOUS
<1>8. S \in SUBSET Requests /\ \A x \in S : \E y \in S : WaitsFor(x, y) OBVIOUS
<1> QED BY <1>6, <1>7, <1>8 DEF Deadlocked

\* Whoever deletes rooms is about to commit, and nobody else makes the others wait but
\* with the name of a tag.
LEMMA SomebodyCan ==
  ASSUME TypeInv, HoldsInv, Codes # {}, \E r \in Requests : ~ Idle(r)
  PROVE  \E r \in Requests : CanGoOn(r)
<1> SUFFICES ASSUME \A r \in Requests : ~ CanGoOn(r) PROVE FALSE
  OBVIOUS
<1>0. /\ request \in [Requests -> RequestState] /\ visit \in [Requests -> Visit]
  BY DEF TypeInv, TypeOK, CatalogTypeOK
<1>1. \A c \in Codes : ~ Doomed(c)
  BY DEF Doomed, HoldsInv, HoldsAtStep, CanGoOn
<1>2. \A r \in Requests : visit[r].pc = "idle"
  <2> SUFFICES ASSUME NEW r \in Requests, visit[r].pc # "idle" PROVE FALSE
    OBVIOUS
  <2>1. visit[r].pc \in {"insert", "players", "join"} BY <1>0 DEF Visit
  <2>2. visit[r].pc \in {"players", "join"} => visit[r].code \in Codes
    BY DEF TypeInv, AtStep
  <2> QED BY <1>1, <2>1, <2>2 DEF CanGoOn
<1>3. \A r \in Requests : request[r].pc \in {"idle", "tags"}
  <2>1. \A r \in Requests : request[r].pc \in Steps BY <1>0 DEF RequestState
  <2> QED BY <1>1, <2>1 DEF Steps, CanGoOn
<1> DEFINE W == {r \in Requests : request[r].pc = "tags"}
<1>4. W \in SUBSET Requests /\ W # {} BY <1>2, <1>3 DEF Idle
<1>5. ASSUME NEW x \in W PROVE \E y \in W : WaitsFor(x, y)
  <2>1. Waits(x) BY <1>5 DEF CanGoOn, HoldsInv, HoldsAtStep
  <2>2. PICK y \in Requests : WaitsFor(x, y) BY <2>1 DEF Waits
  <2>3. request[y].held # {} BY <2>2 DEF WaitsFor
  <2> QED BY <2>2, <2>3 DEF HoldsInv, HoldsAtStep
<1> HIDE DEF W
<1>6. PICK r \in W : Deadlocked(r) BY <1>4, <1>5, WaitingInCircles
<1> QED BY <1>6 DEF CanGoOn, W

\* A quiz that was there is there, or deleted, and names and rows are let go of.
LEMMA HoldsKept ==
  ASSUME TypeInv, HoldsInv, NEW r \in Requests, NEW new,
         request' = [request EXCEPT ![r] = new],
         quiz.state # "none" => quiz'.state # "none",
         new.victims # {} => new.pc = "delete_commit",
         new.held # {} => new.pc = "tags",
         new.pc = "tags" => new.op = "create" \/ (new.op = "update" /\ quiz'.state # "none"),
         new.pc = "load" => quiz'.state # "none"
  PROVE  HoldsInv'
<1>0. request \in [Requests -> RequestState] BY DEF TypeInv, TypeOK, CatalogTypeOK
<1>1. request'[r] = new /\ \A q \in Requests : q # r => request'[q] = request[q] BY <1>0
<1> QED BY <1>1 DEF HoldsInv, HoldsAtStep

LEMMA CatalogHolds ==
  ASSUME TypeInv, HoldsInv, NEW r \in Requests, CatalogArrival(r) \/ CatalogStep(r)
  PROVE  HoldsInv'
<1>0. /\ request \in [Requests -> RequestState] /\ request[r] \in RequestState
      /\ quiz \in Quiz /\ HoldsAtStep(r) /\ AtStep(r)
  BY DEF TypeInv, TypeOK, CatalogTypeOK, HoldsInv
<1>1. Done.pc = "idle" /\ Done.held = {} /\ Done.victims = {} BY DEF Done
<1>2. quiz.state # "none" => quiz'.state # "none"
  BY <1>0 DEF CatalogArrival, CreateQuiz, FetchQuiz, CatalogStep, LoadQuestions, TagLookup,
     CreateCommit, UpdateCommit, QuestionRefused, DeadlockVictim, SetCommit, DeleteSessions,
     DeleteCommit, Quiz
<1>3. CASE Finish(r)
  BY <1>1, <1>2, <1>3, HoldsKept DEF Finish
<1>4. CASE CreateQuiz(r)
  <2>1. PICK want \in TagLists, edit \in {"empty", "list"} :
           request' = [request EXCEPT ![r] = [Done EXCEPT !.pc = "tags", !.want = want,
                                                          !.edit = edit]]
    BY <1>4 DEF CreateQuiz
  <2> DEFINE new == [Done EXCEPT !.pc = "tags", !.want = want, !.edit = edit]
  <2>2. new.pc = "tags" /\ new.op = "create" /\ new.victims = {} BY DEF Done
  <2>3. request' = [request EXCEPT ![r] = new] BY <2>1
  <2> HIDE DEF new
  <2> QED BY <1>2, <2>2, <2>3, HoldsKept
<1>5. CASE FetchQuiz(r)
  <2>1. PICK op \in Ops, edit \in Edits, want \in TagLists :
           request' = [request EXCEPT ![r] = [Done EXCEPT !.pc = "load", !.op = op,
                            !.seen = quiz.status, !.edit = edit, !.want = want]]
    BY <1>5 DEF FetchQuiz
  <2> DEFINE new == [Done EXCEPT !.pc = "load", !.op = op, !.seen = quiz.status,
                                 !.edit = edit, !.want = want]
  <2>2. new.pc = "load" /\ new.victims = {} /\ new.held = {} BY DEF Done
  <2>3. request' = [request EXCEPT ![r] = new] BY <2>1
  <2>4. quiz'.state # "none" BY <1>2, <1>5 DEF FetchQuiz
  <2> HIDE DEF new
  <2> QED BY <1>2, <2>2, <2>3, <2>4, HoldsKept
<1>6. CASE LoadQuestions(r) /\ ~ Finish(r)
  <2> DEFINE step == CASE request[r].op = "update"  -> "tags"
                       [] request[r].op = "delete"  -> "delete"
                       [] request[r].op \in Statuses -> "set"
             new == [request[r] EXCEPT !.rows = quiz.lists, !.pc = step]
  <2>1. request' = [request EXCEPT ![r] = new] BY <1>0, <1>6 DEF LoadQuestions
  <2>2. /\ request[r].pc = "load" /\ request[r].held = {} /\ request[r].victims = {}
        /\ quiz.state # "none"
    BY <1>0, <1>6 DEF LoadQuestions, HoldsAtStep
  <2>3. request[r].op \in {"update", "delete"} \cup Statuses
    BY <1>0, <2>2 DEF AtStep, RequestState, Ops, Statuses
  <2>4. step # "load" /\ (step = "tags" => request[r].op = "update")
    BY <2>3 DEF Statuses
  <2> HIDE DEF step
  <2>5. /\ new.pc = step /\ new.op = request[r].op /\ new.held = {} /\ new.victims = {}
    BY <1>0, <2>2 DEF RequestState
  <2> HIDE DEF new
  <2> QED BY <1>2, <2>1, <2>2, <2>4, <2>5, HoldsKept
<1>7. CASE TagLookup(r) /\ ~ Finish(r)
  <2> DEFINE held    == request[r].held \cup request[r].pending
             want    == Tail(request[r].want)
             pending == IF Head(request[r].want) \in tags \cup held
                        THEN {} ELSE {Head(request[r].want)}
             new     == [request[r] EXCEPT !.held = held, !.want = want, !.pending = pending]
  <2>1. request' = [request EXCEPT ![r].held = held, ![r].want = want,
                                   ![r].pending = pending]
    BY <1>7 DEF TagLookup
  <2> HIDE DEF held, want, pending
  <2>2. request' = [request EXCEPT ![r] = new] BY <1>0, <2>1
  <2>3. request[r].pc = "tags" BY <1>7 DEF TagLookup
  <2>4. /\ new.pc = "tags" /\ new.op = request[r].op /\ new.victims = request[r].victims
    BY <1>0, <2>3 DEF RequestState
  <2> HIDE DEF new
  <2> QED BY <1>0, <1>2, <2>2, <2>3, <2>4, HoldsKept DEF HoldsAtStep
<1>8. CASE DeleteSessions(r)
  <2> DEFINE new == [request[r] EXCEPT !.pc = "delete_commit", !.victims = RoomIds]
  <2>1. request' = [request EXCEPT ![r] = new] BY <1>0, <1>8 DEF DeleteSessions
  <2>2. request[r].held = {} BY <1>0, <1>8 DEF DeleteSessions, HoldsAtStep
  <2>3. new.pc = "delete_commit" /\ new.held = {} BY <1>0, <2>2 DEF RequestState
  <2> HIDE DEF new
  <2> QED BY <1>2, <2>1, <2>3, HoldsKept
<1>9. CatalogStep(r) =>
        Finish(r) \/ LoadQuestions(r) \/ TagLookup(r) \/ DeleteSessions(r)
  BY DEF CatalogStep, CreateCommit, UpdateCommit, QuestionRefused, DeadlockVictim, SetCommit,
         DeleteCommit
<1> QED BY <1>3, <1>4, <1>5, <1>6, <1>7, <1>8, <1>9 DEF CatalogArrival

\* Lobby: as long as a request is not answered, one can go on, however many there are
\* and whatever they wait for: the name of a tag that another one has inserted, until
\* the database breaks a deadlock, or a room whose rows another one has deleted.
THEOREM NobodyWaitsForGood ==
  ASSUME Codes # {}
  PROVE  Spec => []((\E r \in Requests : ~ Idle(r)) => \E r \in Requests : CanGoOn(r))
<1>1. Init => HoldsInv
  BY DEF Init, CatalogInit, HoldsInv, HoldsAtStep, Done
<1>2. TypeInv /\ HoldsInv /\ [Next]_vars => HoldsInv'
  <2> SUFFICES ASSUME TypeInv, HoldsInv, [Next]_vars PROVE HoldsInv' OBVIOUS
  <2>1. CASE \E r \in Requests : CatalogNext(r)
    BY <2>1, CatalogHolds DEF CatalogNext
  <2>2. ASSUME UNCHANGED <<quiz, request>> PROVE HoldsInv'
    BY <2>2 DEF HoldsInv, HoldsAtStep
  <2>3. CASE \E r \in Requests : CreateRoomRead(r) \/ JoinRead(r) \/ LobbyStep(r)
    BY <2>2, <2>3, VisitTyped
  <2>4. CASE \E c \in Codes : Start(c)
    BY <2>2, <2>4 DEF Start
  <2>5. CASE UNCHANGED vars
    BY <2>2, <2>5 DEF vars, catalogVars
  <2> QED BY <2>1, <2>3, <2>4, <2>5 DEF Next
<1>3. TypeInv /\ HoldsInv => ((\E r \in Requests : ~ Idle(r)) => \E r \in Requests : CanGoOn(r))
  BY SomebodyCan
<1> QED BY <1>1, <1>2, <1>3, TypeInvariant, PTL DEF Spec

=============================================================================
