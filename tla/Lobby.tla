------------------------------- MODULE Lobby -------------------------------
(***************************************************************************)
(* Opening a room of the quiz and joining it (create_room, join_room of    *)
(* app/game/services.py), beside the catalogue's own requests.  A request  *)
(* is either one to the catalogue or a visit to the lobby.                 *)
(***************************************************************************)
EXTENDS QuizCatalog

CONSTANTS
    Nicknames,        \* nicknames, in lower case
    None,             \* no nickname, no code
    MaxParticipants,  \* quizzes.max_participants
    Attempts,         \* _ROOM_CODE_ATTEMPTS
    MaxRooms          \* bound: rooms opened

ASSUME LobbyAssumption ==
    MaxParticipants \in Nat \ {0} /\ Attempts \in Nat \ {0} /\ MaxRooms \in Nat

VARIABLES
    opened,    \* how many rooms were opened
    visit      \* the handler of each request to the lobby

lobbyVars == <<opened, visit>>
vars      == <<catalogVars, lobbyVars>>

Gone  == [pc |-> "idle", code |-> None, id |-> 0, nick |-> None, left |-> 0]
Visit == [pc : {"idle", "insert", "players", "join"}, code : Codes \cup {None}, id : Nat,
          nick : Nicknames \cup {None}, left : 0..Attempts]
Room  == [id : Nat, status : {"none", "waiting", "starting"},
          players : Seq(Nicknames), late : Nat]

TypeOK ==
    /\ CatalogTypeOK
    /\ room \in [Codes -> Room]
    /\ opened \in Nat
    /\ visit \in [Requests -> Visit]

Init ==
    /\ CatalogInit
    /\ opened = 0
    /\ visit = [r \in Requests |-> Gone]

Idle(r)  == request[r].pc = "idle" /\ visit[r].pc = "idle"
Leave(r) == visit' = [visit EXCEPT ![r] = Gone]

-----------------------------------------------------------------------------
(* Faulty variants of definitions below, in no specification: each shows    *)
(* that a property notices the bug it names.                                *)

\* create_room whose last attempt is not told from the others.
CreateRoomInsertAgain(r) ==
    /\ visit[r].pc = "insert"
    /\ \E c \in Codes :
        /\ IF Present(c) \/ quiz.state = "deleted"
           THEN /\ visit' = [visit EXCEPT ![r].left = @ - 1]
                /\ UNCHANGED <<room, since, opened>>
           ELSE /\ opened' = opened + 1
                /\ room' = [room EXCEPT ![c] = [NoRoom EXCEPT !.id = opened + 1,
                                                              !.status = "waiting"]]
                /\ Leave(r)
                /\ UNCHANGED since
    /\ UNCHANGED <<quiz, written, tags, request>>

\* join_room that lets in who reads the room after it started.
JoinReadAnyStatus(r) ==
    /\ Idle(r)
    /\ \E c \in Codes, n \in Nicknames :
        /\ Present(c)
        /\ visit' = [visit EXCEPT ![r] = [Gone EXCEPT !.pc = "players", !.code = c,
                                              !.id = room[c].id, !.nick = n]]
    /\ UNCHANGED <<catalogVars, opened>>

\* A limit that is noticed one player late, and no comparison of nicknames.
WelcomeOneMore(players, nick) ==
    Len(players) <= MaxParticipants /\ \A i \in DOMAIN players : players[i] # nick
WelcomeNamesake(players, nick) == Len(players) < MaxParticipants

-----------------------------------------------------------------------------
(* create_room.                                                            *)

CreateRoomRead(r) ==
    /\ Idle(r) /\ quiz.state = "live" /\ quiz.status = "published"
    /\ opened + Cardinality({o \in Requests : visit[o].pc = "insert"}) < MaxRooms
    /\ visit' = [visit EXCEPT ![r] = [Gone EXCEPT !.pc = "insert", !.left = Attempts]]
    /\ UNCHANGED <<catalogVars, opened>>

\* A code that is taken, and a quiz that has been deleted, are the same error to
\* it: another code is tried while attempts are left.  The code of a room that is
\* being deleted is waited for.
CreateRoomInsert(r) ==
    /\ visit[r].pc = "insert"
    /\ \E c \in Codes :
        /\ ~ (Present(c) /\ Doomed(c))
        /\ IF Present(c) \/ quiz.state = "deleted"
           THEN /\ IF visit[r].left = 1 THEN Leave(r)
                   ELSE visit' = [visit EXCEPT ![r].left = @ - 1]
                /\ UNCHANGED <<room, since, opened>>
           ELSE /\ opened' = opened + 1
                /\ room' = [room EXCEPT ![c] = [NoRoom EXCEPT !.id = opened + 1,
                                                              !.status = "waiting"]]
                /\ since' = IF quiz.status = "draft" THEN since + 1 ELSE since
                /\ Leave(r)
    /\ UNCHANGED <<quiz, written, tags, request>>

-----------------------------------------------------------------------------
(* join_room.                                                              *)

\* get_room reads the session's row.
JoinRead(r) ==
    /\ Idle(r)
    /\ \E c \in Codes, n \in Nicknames :
        /\ room[c].status = "waiting"
        /\ visit' = [visit EXCEPT ![r] = [Gone EXCEPT !.pc = "players", !.code = c,
                                              !.id = room[c].id, !.nick = n]]
    /\ UNCHANGED <<catalogVars, opened>>

HasRoom(r) == room[visit[r].code].id = visit[r].id

\* The room has a place left and nobody of that nickname.
Welcome(players, nick) ==
    Len(players) < MaxParticipants /\ \A i \in DOMAIN players : players[i] # nick

\* Its players, by a second statement; if the quiz was deleted, there is none to
\* take the limit from.
JoinPlayers(r) ==
    /\ visit[r].pc = "players"
    /\ IF HasRoom(r) /\ Welcome(room[visit[r].code].players, visit[r].nick)
       THEN visit' = [visit EXCEPT ![r].pc = "join"]
       ELSE Leave(r)
    /\ UNCHANGED <<catalogVars, opened>>

\* The row refers to the session, which must exist and waits for its deletion.
JoinCommit(r) ==
    LET c == visit[r].code IN
    /\ visit[r].pc = "join"
    /\ HasRoom(r) => ~ Doomed(c)
    /\ IF HasRoom(r)
       THEN room' = [room EXCEPT ![c].players = Append(@, visit[r].nick),
                                 ![c].late = IF room[c].status = "waiting" THEN @ ELSE @ + 1]
       ELSE UNCHANGED room
    /\ Leave(r)
    /\ UNCHANGED <<quiz, written, tags, since, request, opened>>

\* The commit of start_game.
Start(c) ==
    /\ room[c].status = "waiting" /\ ~ Doomed(c)
    /\ room' = [room EXCEPT ![c].status = "starting"]
    /\ UNCHANGED <<quiz, written, tags, since, request, lobbyVars>>

-----------------------------------------------------------------------------
(* The specification.                                                      *)

LobbyStep(r) == CreateRoomInsert(r) \/ JoinPlayers(r) \/ JoinCommit(r)

CatalogNext(r) == ((Idle(r) /\ CatalogArrival(r)) \/ CatalogStep(r)) /\ UNCHANGED lobbyVars

Next ==
    \/ \E r \in Requests :
        CatalogNext(r) \/ CreateRoomRead(r) \/ JoinRead(r) \/ LobbyStep(r)
    \/ \E c \in Codes : Start(c)

Spec == Init /\ [][Next]_vars

-----------------------------------------------------------------------------
(* Properties.                                                             *)

AtOnce == Cardinality(Requests)

\* max_participants is exceeded only by joins that overlap, one place for each.
RoomNotOverfull ==
    \A c \in Codes : Len(room[c].players) < MaxParticipants + AtOnce

\* So is a nickname taken twice.
NicknamesBounded ==
    \A c \in Codes, n \in Nicknames :
        Cardinality({i \in DOMAIN room[c].players : room[c].players[i] = n}) <= AtOnce

\* Only who read the room before it started is let in after.
LateJoinsBounded == \A c \in Codes : room[c].late <= AtOnce

\* A published quiz is edited, and a draft is given a room, only by requests that
\* overlap the change of its status.
StatusRespected == since < AtOnce

\* Overlapping edits may each leave its list of questions in the quiz, however many
\* there have been by now: no more than there are requests at once.
ListsBounded == Cardinality(quiz.lists) <= AtOnce

\* What an edit of the questions leaves in the quiz is newer than all that it had read:
\* a list outlives an edit only if it was written while that was under way, so that the
\* next edit that is handled alone clears away what overlapping ones have left.
EditsReplace ==
    [][\A r \in Requests :
           UpdateCommit(r) /\ quiz'.lists # quiz.lists =>
               \A l \in quiz'.lists, k \in request[r].rows : k < l]_vars

\* A room never outlives its quiz, whoever opens one while it is being deleted.
RoomsHaveQuiz == \A c \in Codes : Present(c) => quiz.state = "live"

\* Every request is answered: whatever they wait for (the name of a tag, a room
\* under deletion), one of those that are handled can go on, and none goes on for
\* long.
SomebodyGoesOn ==
    (\E r \in Requests : ~ Idle(r)) =>
        \E r \in Requests :
            ENABLED ((CatalogStep(r) /\ UNCHANGED lobbyVars) \/ LobbyStep(r))

=============================================================================
