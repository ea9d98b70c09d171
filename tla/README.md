# AskIt: a verification project

TLA+ models of the AskIt backend (`src/app`), the TLC configurations that check
them and TLAPS proofs about them. Line numbers below refer to `src/`.

AskIt runs live quiz games. A host writes a quiz, publishes it and opens a room;
players join the room with a code over HTTP, then host and players hold WebSockets
over which questions, answers and results travel. The backend is FastAPI on one
asyncio event loop, with PostgreSQL (SQLAlchemy, READ COMMITTED, no row locks) for
what lasts and Redis for the room's transient keys and for publish/subscribe.

## 1. Inventory

| Component | State it keeps | Operations | What makes it correct |
|---|---|---|---|
| **Game room** `app/game/router.py` 400-645, `app/game/services.py` 245-371, 500-646 | `game_sessions` row: `status`, `current_question_index`; Redis `game:questions`, `game:question_start`, `game:prev_ranking` of the room; detached `question_timeout` tasks | start, next question, send question, time out a question, end the game | questions are asked in turn, once each, each with one timer and its own start time; a question nobody ends by hand ends by its timer; a finished game is announced |
| **Answers and scores** `services.py` 373-470, `router.py` 495-560 | `game_player_answers` rows, `game_players.score`, Redis `game:answered:{room}:{index}` | submit an answer | points go into a score once, for a recorded right answer; nobody is told "already answered" wrongly; answers only to questions that were asked |
| **Room state and answer feed** `services.py` 640-784, `router.py` 190-223, 313-345, 504-550 | none of its own: what a client was last told | build ROOM_STATE, build the results, follow up an answer | no client learns the answers of a running question; the host's answered count survives a reload, unless its former socket unregisters the new one |
| **Rankings and scoring** `services.py` 60-86, 472-655 | Redis `game:prev_ranking` | score formula, leaderboard with rank changes, history | a rank change is measured against the previous question; the score lies in its range |
| **Lobby** `services.py` 88-243 | `game_sessions`, `game_players` rows, room codes | create a room, join it | capacity, the uniqueness of nicknames and the start are overstepped only by joins that overlap; a room has its quiz |
| **Connections** `app/game/connection_manager.py`, `router.py` 100-400 | socket registry by room, room subscription task, `is_connected` | connect, disconnect, broadcast, personal message, subscribe | the registry, the subscription and the flag agree with the sockets that are open |
| **Accounts** `app/auth/*`, `app/user/*`, `app/core/security.py`, `app/core/middleware.py` | refresh denylist and login counters in Redis, `users.token_version` and `is_active`, tokens in the clients' cookies | login, refresh, logout, replacing an expired access token, change of password, deactivation | old tokens die with a change of password; signing out is final; a lock-out ends |
| **Quiz catalogue** `app/quiz/*` | quizzes, questions, options, tags, favourites | create, edit, publish, delete, search | only published quizzes are played, and they are not edited; an edit replaces the questions; requests that share tags do not block each other for good |
| **Database pool** `app/database.py` | connections | check out, return | handlers do not wait for each other's connection |
| Configuration, logging, error bodies, headers, limiter | none of its own | | not modelled |
| Migrations, deployment, backup scripts | | | run outside the program; not modelled |

How they interact: a WebSocket message is handled to its end before the next message
of that socket is read, so a socket is a sequential process. Handlers of different
sockets, and the timers, interleave at every `await`. They share the database rows,
the Redis keys and the connection manager. Nothing locks: each handler opens a
session, reads, decides, and commits later, in a transaction that writes only the
columns it changed. The catalogue meets the game through the quiz's rows, which the
game reads again whenever it needs a question.

What is hard here, and what a test would hardly reach:

- decisions taken on a row read several awaits earlier (`next_index`, the status
  before a reveal, the score before an addition);
- the timer of a question meeting the host's own "next": both may end it, and the
  timer re-reads the index after its commit;
- two stores: a commit in PostgreSQL followed by a write in Redis that may fail,
  expire, or be overtaken;
- a quiz edited or deleted under a running game;
- a crash between two steps, with timers that live only in memory;
- several sockets of one player or of one host.

`PROJECT.json` lists each hazard at its line with the properties that would catch it,
or with the reason no property does yet.

## 2. Modules

| Module | What it is | Code |
|---|---|---|
| `GameRoom` | the room: host handlers, timers, row, keys | `router.py` 400-495, 566-645; `services.py` 245-371, 500-655 |
| `RoomLifecycle` | what a room promises: phases, positions, and progress | abstract |
| `GameAnswers` | players answering beside the room; EXTENDS `GameRoom` | `router.py` 495-565; `services.py` 373-470 |
| `AnswerLedger` | what recording answers promises | abstract |
| `GameAnswersProofs` | proofs about `GameAnswers` for any number of host sockets | |
| `GameRoomProofs` | proofs about `GameRoom` and `GameAnswers` with one host socket; EXTENDS `GameAnswersProofs` | |
| `Connections` | the sockets of one room: connection manager, player and host endpoints, the room's subscriber | `connection_manager.py`; `router.py` 136-357, 668-712 |
| `ConnectionsProofs` | proofs about `Connections` | |
| `RoomViews` | what a client is told beside the broadcasts; EXTENDS `GameAnswers` | `services.py` 478-519, 659-784; `router.py` 283-357, 491-550; `connection_manager.py` 23-49 |
| `RoomViewsProofs` | proofs about `RoomViews`; EXTENDS `GameRoomProofs` | |
| `QuizCatalog` | one quiz, its lists of questions, tags and rooms, under requests side by side | `quiz/services.py` 38-47, 92-157, 192-309; `quiz/router.py` 25-88; `models/quiz.py` |
| `Lobby` | opening a room and joining it beside those requests; EXTENDS `QuizCatalog` | `services.py` 88-234; `router.py` 64-119 |
| `LobbyProofs` | proofs about `Lobby` | |
| `Accounts` | one account: row, tokens, denylist, counter of failed logins | `auth/router.py`, `auth_service.py`, `user_service.py`, `security.py`, `middleware.py`, `jwt_service.py`, `user/router.py` |
| `AccountsProofs` | proofs about `Accounts` | |
| `MCGameRoom`, `MCGameAnswers`, `MCConnections`, `MCAccounts`, `MCLobby`, `MCRoomViews` | instances for TLC | |

`GameAnswers` composes with `GameRoom` by extending it: its steps leave the room alone or
are the room's own. `RoomViews` extends `GameAnswers` in the same way, and adds the
follow-up of an answer where `SubmitMark` left off. `Lobby` extends `QuizCatalog`: a
request is either one to the quiz service or a visit to the lobby, and `delete_quiz` meets
`create_room` and `join_room` in the session rows. A room leaves `Lobby` with the commit
that starts it; what a running game makes of an edited or deleted quiz is in `GameRoom`. `Connections` meets the game only through the versions of the room
that are committed and then broadcast, so it models the game as an environment that does
that and no more. `Accounts` shares no state with the others.

### 2.1 How state and steps correspond to the code

The event loop makes everything between two awaits one step. A handler is a program
counter (`host[h].pc`, `timer[t].pc`, `submit[s].pc`) with the locals it carries across
its awaits, and one action per stretch of code between two awaits whose order against
other handlers can matter. Awaits that only read and are followed by another read of
the same kind are one step (`get_current_question`: row, order, question).

`GameRoom`:

| Action | Code |
|---|---|
| `StartRead`, `StartCommit`, `StartOrder`, `Countdown` | `handle_start_game` and `start_game`: read the row and the quiz, draw the order; commit `starting`; store the order; sleep |
| `NextRead` | `handle_next_question`: branch on the status; compute the next index |
| `NextRefresh`, `NextReveal`, `NextBoard`, `NextCast` | its ending of the running question: `get_current_question`, commit, leaderboard, QUESTION_ENDED |
| `AdvanceRead`, `AdvanceOpen`, `AdvanceClose`, `AdvanceStartKey`, `SendQuestion` | `send_question` and `advance_to_question`, with the QUESTION message and its new timer |
| `EndRead`, `EndCommit`, `EndBoard`, `EndCast` | `end_game` |
| `HostGone`, `TimeoutGone` | what each of these does when the row has been deleted |
| `TimeoutRead` ... `TimeoutCast` | `question_timeout` |
| `KeysExpire`, `CallRaises`, `Crash`, `EditQuiz`, `DeleteQuiz` | disruptions |

Two points of SQLAlchemy decide what a commit does, and both are modelled. A commit
writes only the attributes whose value changed since this session read them (`Write`
compares with what the handler read, not with what the row holds), so a handler that
re-assigns the value it saw writes nothing over somebody else's. And `get_room` reloads
with `populate_existing`, so a second `get_room` in a handler (`get_current_question`,
`get_leaderboard`) replaces what the first one read, uncommitted changes apart.

`GameAnswers`: `SubmitRead` (status check), `SubmitCheck` (Redis fast path),
`SubmitQuestion` (`get_current_question`, comparison of ids, correctness), `SubmitCommit`
(answer and points in one transaction, the unique key on player and question deciding a
duplicate), `SubmitMark` (Redis). Points are abstracted to the question that earned
them: a score is how many times each question's points went into it. The value of an
answer (`calculate_score`) tells no property of these modules apart.

`Connections`. A socket is the handler that serves it (`socket[s].pc`); the manager's state
keeps the code's shape: `members` is `_rooms[code]`, `registry` is `_players` and
`_hosts[code]`, `lock` is `_lock` when it is held across an await, `subscriber` the task in
`_subscriptions`. The room's state is a version number; the last version is the finished
game.

| Action | Code |
|---|---|
| `Admit` | the endpoint accepts the socket and remembers whether the game was finished |
| `Register`, `FlagUp`, `Snapshot`, `SendState`, `SendResults` | `connect` under the lock; `is_connected = True` and PLAYER_JOINED; `build_room_state`; ROOM_STATE, then GAME_FINISHED to who came after the end, each to the socket that the owner has in `registry`, if any (`Show`, `Tell`) |
| `Hangup`, `Leave`, `Unsubscribed`, `FlagDown` | the client closes; `disconnect` under the lock, the last one waiting there for the cancelled subscriber; `is_connected = False` and PLAYER_LEFT |
| `Subscribe`, `Deliver`, `SubscriberEnds` | the subscriber task |
| `GameMoves`, `Publish`, `TellFinished` | a handler of the game commits; `broadcast_to_room`; the personal results of `end_game` |
| `DatabaseRaises`, `SubscriberFails`, `PublishRaises`, `Crash` | failures, of the kinds and number an instance allows |

`Accounts`. A request is a program counter with the version and pair it carries. An access
token and the refresh token issued with it are a pair; `epoch` counts the changes of
credentials, and each pair remembers the epoch of the credentials it goes back to (history,
read by no guard).

| Action | Code |
|---|---|
| `LoginCheck`, `LoginVerify`, `LoginStamp`, `LoginReset` | `login`: the counter; the row and the password; `update_last_login`; reset and tokens |
| `RecordFailure`, `RecordExpire` | `record_failed_login`: INCR, then EXPIRE for whoever counted to one |
| `ChangeRead`, `ChangeCommit`, `DeactivateCommit` | `get_current_user`; `change_password` with its new pair; `deactivate_account` |
| `RefreshCheck`, `RefreshRead`, `Rotate` | `refresh`: the denylist; the row; the denylist entry and the new pair |
| `Logout` | `logout` |
| `AutoRefreshCheck`, `Mint` | `AutoRefreshMiddleware`: the denylist; a new access token with the refresh token's version |
| `AttemptsExpire`, `AccessExpires`, `Crash` | time to live of the counter; one hour of an access token; the process dies |

`RoomViews`. `view[v]` is the endpoint of a socket that is being connected, `update[s]` what
`handle_answer` still has to do after `submit_answer`.

| Action | Code |
|---|---|
| `Connect` | the admission check, then `connect` or `connect_host`: the host's newest socket is `registered`, and one that was `served` before it becomes a `former` one |
| `HostLeaves` | `disconnect_host` of a former socket or of the newest: both drop `_hosts[room_code]` |
| `StateRoom`, `StateQuestion`, `StateDetails`, `StateSend` | `build_room_state`: `get_room`; `get_current_question`, whose `get_room` refreshes the row that the status is then asked of; `build_host_answer_details`, which does not refresh the players; the leaderboard, and the message |
| `SendResults` | `build_game_finished` for who came to a finished game |
| `SubmitReturns`, `UpdateRead`, `UpdateSend` | `handle_answer`: `submit_answer` returns; `get_room`; HOST_ANSWER_UPDATE, through `send_to_host` like the host's ROOM_STATE (`Reached`: only if the host is registered) |
| `ViewFails`, `SubmitFails`, `UpdateFails`, `ViewsCrash` | a call that raises at each of these; the process dies |

`QuizCatalog` and `Lobby`. Questions are written and deleted list by list, so a list is a
number and a quiz holds a set of them: the delete of `update_quiz` goes by the ids of the
rows that were loaded, and takes no list that was committed later. `request[r]` and
`visit[r]` are the handlers, with what they read.

| Action | Code |
|---|---|
| `CreateQuiz`, `FetchQuiz`, `LoadQuestions` | the request arrives; `_fetch_quiz` reads the row, then by `selectinload` the questions |
| `TagLookup` | one turn of `_get_or_create_tags`: autoflush inserts the tag before, and waits for whoever inserted the same name |
| `CreateCommit`, `UpdateCommit`, `QuestionRefused` | the commit, with its errors: a name taken meanwhile, a row that is gone; a question without a right answer (in an edit after the flush, which waits for the name of the last tag) |
| `SetCommit` | `set_quiz_status`: the status is written only if it differs from the one read |
| `DeleteSessions`, `DeleteCommit` | `delete_quiz`: the rooms and, with the commit, questions and quiz; a foreign key that is still in use fails it |
| `DeadlockVictim` | PostgreSQL fails one of the transactions that wait for each other |
| `CreateRoomRead`, `CreateRoomInsert` | `create_room`: owner and status; one attempt to insert, every `IntegrityError` taken for a taken code |
| `JoinRead`, `JoinPlayers`, `JoinCommit` | `join_room`: the session's row; its players, by `selectinload`; the insert |
| `Start` | the commit of `start_game` |

Sessions are made with `expire_on_commit=False`, so that what a login or a change issues
after its commit is computed from the row it read before it; and a commit writes only the
columns it changed, so `LoginStamp` does not touch the version.

### 2.2 Disruptions

Each kind is something the code meets and does not exclude; an instance chooses kinds
(`Disruptions`) and a bound (`MaxDisruptions`).

- `expiry`: the Redis keys of a room have a TTL (`services.py` 60-64) and Redis is not
  durable: any subset of them may be gone.
- `exception`: the next database or Redis call of a handler raises. `handle_host_message`
  and `handle_player_message` catch it and send ERROR; a timer task dies silently.
- `crash`: the process restarts: handlers and timers are lost, rows and keys stay.
- `edit`: `update_quiz` replaces the questions of a quiz that was set back to draft; no
  check ties a quiz to its running rooms. The rows are new, hence `FreshIdsAssumption`.
- `delete`: `delete_quiz` removes the quiz's sessions, players and answers.

## 3. Checks

| Run | Instance | What it shows |
|---|---|---|
| `room_safety` | 1 host socket, 3 timers, 2 questions (edited to 3 others, then none), shuffled order, any 2 disruptions | `TypeOK`, `OpenedOnce`, `OneTimerPerQuestion`, `TimedFromOwnStart`, `QuestionsInTurn` |
| `room_progress` | the same, unshuffled, 1 disruption among expiry, edit, delete; fair | `Attended`, `ImplementsLifecycle` (with its two promises of progress), `FinishedIsAnnounced` |
| `room_early_reveal` | no disruption | *violated*: a late timer broadcasts the answers of the question now running |
| `answers_ledger` | 1 player with 1 socket, any disruption | `AnswersOnlyToOpened`, `ImplementsLedger` |
| `answers_shared` | 1 player with 2 sockets, 1 timer, any disruption but edits | `AnswersTypeOK`, `NoDoubleCredit`, `NoWrongLockout` |
| `connections_safety` | 2 sockets of a player and 1 of the host, any 2 failures | `RegistryConsistent`, `NobodyWaitsInVain`, `NoGap`, `NothingLeftBehind` |
| `connections_progress` | 1 socket each, 2 versions, any 2 failures; fair | `TypeOK`, `ResultsSeen`, `EndKnown`, `LeavingEnds` |
| `connections_results` | 2 sockets of a player, no failure | *violated*: reconnecting to a finished game, a player is not sent the results |
| `accounts_tokens` | 2 requests of which 1 may change the credentials, 3 pairs, 1 crash | `TypeOK`, `StaleTokensRefused`, `RefusedForGood`, `SignedOutForGood`, `SpentForGood`, `AttemptsBounded`, `CountersExpire` |
| `accounts_two_changes` | both requests may change the credentials | *violated*: tokens of the first new password survive the second change |
| `lobby` | 2 requests, 1 room code, 2 tags in either order, 2 nicknames, 2 places, 2 attempts, 4 lists, 2 rooms | `TypeOK`, `RoomNotOverfull`, `NicknamesBounded`, `LateJoinsBounded`, `StatusRespected`, `ListsBounded`, `EditsReplace`, `RoomsHaveQuiz`, `SomebodyGoesOn` |
| `room_views` | 1 host handler, 1 timer, 1 player with 1 socket, 1 socket that connects, 1 former socket of the host, 2 questions, 1 disruption among exception, crash, delete | `ViewsTypeOK`, `NoAnswersWhileRunning`, `FeedComplete` |

**Bounds.** Two questions are enough for a previous, a current and a next one to exist,
with the end of the quiz behind them; the edit to three makes the quiz longer than the
order that was drawn (the only way to `AdvanceClose`), the edit to none makes every
question vanish. Three timers are more than ever need to be alive at once with
two questions: `SendQuestion` is never blocked in the room runs. One player is enough
for the properties of answers, which never relate two players; two sockets are needed
for two submissions of one player to race. Two disruptions allow a failure and what
comes after it to fail too. Left out of the fingerprint of the answers runs (`VIEW
Relevant`) are the start key, the ranking and the history that no property of theirs reads.
The edition, the order and the other Redis keys are part of it.

For connections, two sockets of one player are what it takes for an old socket's
disconnect to meet a new one's connect, and the host's keeps the room in use or leaves it
last. One version suffices for a broadcast to fall before, between or after the two; the
run with one socket each has two. Each socket is opened once: reconnecting is another
socket. For accounts, three pairs are the one a user starts with, the one re-issued by a
change and the one a login or refresh in flight issues after it; two requests are what it
takes for any two steps to interleave, and two attempts put the limit, one below it and
one above it within reach. `ChangersAssumption` only names which requests may change.

For the lobby, one room code makes every second room a collision and every code that a
deleted room had a code to be drawn again; two tags in either order are what a deadlock of
two requests takes; four lists are the one a quiz begins with, one for each of two edits
that overlap and one for an edit that comes after both. The bounds of the properties are
in terms of `Requests`, and the proofs hold for any number of them. `max_participants` is
the same throughout, as a quiz's settings may change but the limit is read anew by each
join. For `room_views`, one socket connects at a time (two that connect share nothing but
the ranking key). A host may open its page anew at any moment, while the handler of its
former socket is still at work (`handle_start_game` sleeps for the countdown) and has yet
to run `disconnect_host`; one such socket at a time (`MaxFormer`) is enough for its
disconnect to come before, while and after the newest socket is sent its state. One timer
is enough for the questions of the run to be timed one after the other. What was recorded
of a question that is over, and what was disclosed or told of one that has ended, is left
out of the fingerprint: no step reads it for what it writes of another question, and none
runs again.

**Fairness.** `RoomFairness` says that asyncio runs every ready task and that every
`sleep` ends, so each handler and each timer that can take a step eventually does. It
says nothing of clients: a host may never send another message, and nobody need answer.
The room's progress run allows no crash and no raising call: after either, nothing in the code
resumes a room (see below). In `Connections`, handlers and the subscriber are resumed by
the event loop; a step that needs the lock is weakly fair too, as
`asyncio.Lock` wakes its waiters in order and its holder waits for the subscriber alone. The
game and the clients are not fair. The other modules state no fairness: what would be
progress there is said as safety (`CountersExpire`: a counter has an expiry, or a login is
about to set one; `SignedOutForGood` and `SpentForGood`: what is gone does not come back;
`SomebodyGoesOn`: see below).

**Progress as safety.** What the progress of the room and of the sockets rests on is also
checked as an invariant, which says more at each moment and can be proved. `Attended`: a countdown, a
running question or an end still to be announced has a handler or a timer left whose next
steps see to it, whichever keys have expired and whatever became of the quiz. Fairness then
only has to say that each takes its turn. `NobodyWaitsInVain`, in `connections_safety`: who
waits for the manager's lock waits for a socket that awaits the subscriber, whose task was
cancelled or has ended; `LeavingEnds` adds that each of them takes its turn.

**Deadlock.** All configurations set `CHECK_DEADLOCK FALSE`: a finished or deleted room
has nothing left to do. Where requests can wait for each other, which is in the quiz service
alone, a property says that they do not do so for ever: `SomebodyGoesOn` states that as long
as a request is being handled, the step of one of them is enabled, `DeadlockVictim` included;
and every such step brings its request nearer to its end.

**One host socket.** The room runs give the host one socket. With two, both
may pass `start_game`'s check, or both compute the same next index, and the game asks a
question twice; nothing in the code or its documents promises otherwise. Most
theorems of `GameRoomProofs`, and `NoAnswersWhileRunningHolds`, have the same hypothesis,
`OneHost`; those of `GameAnswersProofs` hold for any number of host sockets.

**One socket per player** for `ImplementsLedger`: `submit_answer` reads the score one
await before it writes the sum, so a player's two sockets answering two questions may
lose one addition. What holds for any number of sockets is `NoDoubleCredit`.

### 3.1 Findings

1. `room_early_reveal`: `question_timeout` commits the reveal (`router.py` 632), then asks
   `get_current_question` (634), which reads the index again. If the host's next message
   is handled in between, QUESTION_ENDED carries the correct answers of the question that
   has just begun, which `services.py` 656 says "must never reach a player's connection".
2. `connections_results`: `disconnect` (`connection_manager.py` 77) removes the player's
   entry whichever socket it holds. A player who reconnects to a finished game before the
   old socket's handler has run its disconnect is unregistered by it, and
   `send_to_player` drops GAME_FINISHED, although `security.py` 9-11 calls reconnecting to
   see the final leaderboard "a supported flow".

   `disconnect_host` (line 40, called at `router.py` 357) does the same to the host's entry.
   If the host reloads its page before the handler of its old socket has run it, the new
   socket is unregistered, and `send_to_host` drops every later HOST_ANSWER_UPDATE, although
   `services.py` 727-728 says that the answered count and the answer breakdown "survive a
   page reload mid-question". `RoomViews` models this (`HostLeaves`, `Reached`), and
   `FeedComplete` excepts it: it speaks of a host that is registered. Without the conjunct
   `registered` TLC finds it violated, in a trace of 21 states: a reload during a question,
   the old socket's disconnect, and an answer.
3. `accounts_two_changes`: `token_version += 1` (`user_service.py` 88) is computed from the
   row read by `get_current_user`. Two changes that read the same version commit the same
   one, so the tokens issued by the first pass for current after the second, against the
   comment "Invalidate every token issued under the old password" (87). With a third
   change the version can even fall.

Noted, without a run:

- `refresh` checks the denylist (`auth/router.py` 120), reads the user and writes the
  denylist (135); two that overlap both pass and both are given a new pair. The comment at
  132-134 says the token is "spent", and "a single use". `SpentForGood` says how far this
  goes: only refreshes that passed the check before the token was spent get a pair for it.
- `game_is_finished` (`router.py` 184) is asked before the socket is registered. If the game
  ends in between, the results are sent while the socket is not there to have them, and are
  not sent to it later. `EndKnown` says what it has instead: the state it is sent was read
  after the registration (190) and shows the game finished. This takes one socket per owner:
  ROOM_STATE too goes to whichever socket is registered.
- `set_quiz_status` checks the questions it loaded (`quiz/services.py` 280): an edit to no
  questions that commits in between leaves a published quiz without any, which its message
  says cannot be. Likewise an edit that read the status of a draft (204) is committed to a
  quiz that was published meanwhile, and of two edits that overlap (222) each leaves the
  other's questions in place. `StatusRespected`, `ListsBounded` and `EditsReplace` say how far this
  goes: an edit leaves only lists newer than those it read, so that the next one handled
  alone clears away what two that overlapped have left.
- `delete_quiz` deletes the rooms of the quiz, and their codes with them (307), although the
  comment at `services.py` 119 says that codes are never released.
- `submit_answer` checks the status once (`services.py` 384) and commits several awaits
  later (453), so an answer in flight when its question ends is recorded and credited after
  it, although `security.py` 12 says submitting is refused outside the question state. The
  properties about answers hold all the same.

### 3.2 What a crash costs

Not a property, since nothing promises otherwise: a crash between `StartCommit` and
`AdvanceOpen` leaves a room in `starting`, which neither `start_game` nor
`handle_next_question` accepts; a crash during a question loses its timer, and the
question ends only by the host's hand. The same goes for a raising call in these places,
and `Attended` excludes both.
A crash or a failing call between INCR and EXPIRE (`security.py` 57-59) leaves a counter
without a time to live: no later failure sets one, and once it reaches the limit the
account stays locked. `CountersExpire` therefore speaks of executions without a crash. A failure after the
commit of an answer (`router.py` 504-522) leaves the host untold of it until it reloads:
`FeedComplete` makes that exception, and that of a host which was unregistered (3.1), and no
other. A failing write of `is_connected` (`router.py` 188) leaves its socket in the registry.

## 4. Proofs

`GameAnswersProofs` proves, for every value of the constants that satisfies the four
assumptions of `GameRoom` and `OwnerAssumption`:

- `TypeCorrect`: `Spec => []AnswersTypeOK`. `AnswersTypeOK` is inductive thanks to
  `Carried`, which says which locals are set at which program counter.
- `NoDoubleCreditHolds`: `Spec => []NoDoubleCredit`, for any number of players,
  sockets per player, host sockets, timers and disruptions.

The argument for the second. `NoDoubleCredit` is not inductive: a submission at its
commit carries the score it read, and adds to that value. The strengthening `CreditInv`
asks the same of what every committing submission has read: `Earned(c, p)` says that the
score `c` of player `p` holds each question's points at most once, and those of a
question in the present or a later edition (`ToCome`) only if its right answer is
recorded. A commit adds a question's points only where no answer is recorded, hence to a
score that holds none of them. An edit deletes recorded answers while submissions are in
flight, but only of questions that leave the bank and, by `FreshIdsAssumption`, are not
to come again; this is why `Earned` speaks of the editions to come and not of the bank
alone. Deleting the room leaves nothing to come. TLC
checks `NoDoubleCredit` on `answers_shared`.

- `LedgerImplemented`: `Spec => ImplementsLedger`, with at most one socket per player
  (`OneSocket`) and any number of host sockets. The mapping takes the questions of past
  editions for withdrawn. A commit is a `Record` of the ledger because what the submission
  read is still the player's score (`LedgerInv`): with one socket nobody else writes it, and
  once the room is deleted nothing is committed. An edit is a `Withdraw` of the bank.

`GameRoomProofs` proves, with one host socket (`OneHost`) and for any number of questions,
timers, edits, disruptions, players and player sockets: `RoomTypeCorrect` (which needs no
hypothesis), `OpenedOnceHolds`, `OneTimerHolds`, `TimedFromOwnStartHolds`,
`QuestionsComeInTurn`, `AnswersOnlyToOpenedHolds`, `NoWrongLockoutHolds` and
`LifecycleImplemented`. They all follow from one invariant, `TurnInv`. As long as the order is
held, the questions opened are its first `index` ones, and it repeats none (`OrderKept`); the
rest says what the handler relies on from one step to the next (`HostInTurn`): that the
question it is about to open has not been opened, that the index it read is the row's, that
no timer has that index yet, and that the room has not been started while it starts it. None
of it follows from the handler's guards alone: other tasks commit to the row in
between, and the invariant survives because a timer alone does so, only ever writes
`revealing`, and only once a question was opened. An order that has expired says nothing, and
then nothing is opened any more. `LifecycleImplemented` is the safety part of
`ImplementsLifecycle`.

- `AttendedHolds` (`RoomSpec => []Attended`), with `OneHost` and `Quiet`: the instance has
  neither crashes nor raising calls.
- `CountdownAndEndAttended`, with `Quiet` alone: the parts of `Attended` about the countdown
  and the end hold for any number of host sockets, hence for two that start the game
  together.

`Attended` names the program counters of whoever is left, and that is not inductive: a
handler at its commit may have read a status that makes the commit write nothing.
`EndsCountdown` and `SetsTimer` add that what it read still makes its commit move the room.
For the countdown and the end this suffices: the handler that brings the room there goes on
until it has left, whoever moves it meanwhile. For a running question the one who asks it
must still be at the room's index when it sets the timer, and that is `HostInTurn`, hence
`OneHost`.

For answers `AnswersInTurn` is added to `TurnInv`: a mark is stored
under the index of the first reading, the answer under the question of the second, and the
two belong together as long as that index is still the room's (`SlotKept`: whatever the
room does, the question at its index is replaced only by moving the index).

`RoomViewsProofs` proves `ViewsTypeCorrect` without a hypothesis and, with `OneHost`,
`NoAnswersWhileRunningHolds`, for any number of sockets that connect. A step of `RoomViews`
is beneath the views a step of `GameAnswers`, or leaves the room alone but for the ranking
(`Beneath`), so `TurnInv` and `AnswersInTurn` carry over. `HiddenInv` adds that a question
which a socket has found to be revealed, or which a ROOM_STATE disclosed, was opened and
does not run (`Past`). A question can only run by being opened, and `TurnInv` says that only
questions never opened before are, so what is past stays past (`PastKept`). The socket finds
it in one reading of status and index; its leaderboard and its sending may come much later.

- `FeedCompleteHolds`: `ViewsSpec => []FeedComplete`, with `OneHost` and at most one socket
  per player (`OneSocket`), for any number of players, of sockets that connect, of former
  sockets, of edits and of disruptions. It is a statement about a host that is registered,
  and nothing is proved of one that a former socket has unregistered.

`FeedComplete` speaks of what was told once the state has been sent, so it says nothing of
what a state that is yet to be sent will tell. `FeedInv` does: for every recorded answer to
the running question, each state on its way to the host shows it (`Shows`: the answers are
yet to be read, or were read with the points they earned) or the answer is followed up
(`Followed`); and an update about to be sent has read the points. Both rest on
`RecordsMatch`, that a player has the points of exactly the recorded right answers, which
follows from the ledger: `LedgerStep` says that every step of `GameAnswers` is one of
`AnswerLedger`. This is where `OneSocket` enters, as two sockets of one player can lose an
update of its score, and a state would then show a right answer without its points. `RunsOn`
carries the invariant over the room's steps: a question that has answers was opened, so
`TurnInv` rules out that it begins to run now; if it runs, it ran before.

`ConnectionsProofs` proves `TypeCorrect` and `RegistryHolds`
(`Spec => []RegistryConsistent`), for any number of sockets, players, versions and
failures. `RegistryConsistent` says nothing of the subscriber while the lock is held, so it
cannot survive the lock's release by itself. `RegistryInv` adds that the lock is held across
an await by the one socket that waits for the subscriber, that the room is then empty and
its task cancelled or gone, and that a registered socket belongs to the owner under whom it
is registered. `ManagerUnchanged` disposes of the steps that only move a socket within the
registered ones or outside them. `RegistryInvariant` states `RegistryInv` for the next ones:

- `NobodyWaitsInVainHolds` (`Spec => []NobodyWaitsInVain`) is the part of `RegistryInv` that
  a reader asks about: nobody is left waiting for a lock that is not given back.
- `NoGapHolds` (`Spec => []NoGap`): beside `RegistryInv` it needs no strengthening. A
  version leaves `unsent` for the inbox or for `lost` and the inbox for `heard`, and a socket
  whose snapshot counts is a member of the room at every one of these steps.
- `NothingLeftBehindHolds` (`Spec => []NothingLeftBehind`): the property says nothing before
  the last socket is closed. `PlayersAccounted` says that until then a player with a closed
  socket is flagged as connected only while another of its sockets will still clear the flag,
  and that without a failure no socket is abandoned or leaves quietly. What it says of the
  manager follows from `RegistryInv`.
- `ResultsSeenHolds` (`Spec => []ResultsSeen`) assumes that no two sockets have one owner
  (`OneSocketEach`): run `connections_results` shows that it fails otherwise, as a socket
  takes the other's place in the registry. `ResultsInv` says that a registered socket has its
  owner's entry, so that sending its owner the results reaches it.
- `EndKnownHolds` (`Spec => []EndKnown`) assumes `OneSocketEach` as well, by which a socket's
  own state reaches it: `SnapShown` says that who is past it was shown what it had read. A
  public end is the last version broadcast, so the rest follows from `NoGap` and from who
  heard it being told by it (`HeardIsTold`). A private one is sent to each owner's entry:
  `ToldOneByOne` says that who had its snapshot when the game ended is told or still on
  `end_game`'s list, and survives taking an owner off the list because the entry is its
  socket's (`ResultsInv`).

`AccountsProofs` proves `TypeCorrect` without any hypothesis, and `StaleTokensAreRefused`
and `RefusedStaysRefused` under the hypothesis that at most one request may change the
credentials (run `accounts_two_changes` shows that it is needed). `TokensInv` says of each
pair, and of each request that is about to issue one, that its version is not ahead of the
row's and is strictly behind it when its credentials are of an earlier epoch (`Behind`),
and of a request about to change the credentials that it carries the row's version. The
last part is where the hypothesis enters: another change would make it false.
The other four need no hypothesis. `AttemptsAreBounded` counts the failed logins together
with those that passed the check and may still fail (`AttemptsInv`): only their sum is
inductive. `CountersDoExpire` follows from a counter without an expiry having the login
that counted to one still before its EXPIRE. `SignedOutIsForGood` and
`SpentIsForGood` are action properties, and need nothing but types: `Moves` says which step
alone takes a request where it could bring the token back.

`LobbyProofs` proves `TypeCorrect`, six of the seven other invariants of `Lobby` and its
action property, for any
number of requests, codes, nicknames, tags, places and attempts. `TypeInv` adds to the types
that a request is at one thing and at a step its operation has (`AtStep`). Each bound by
the number of requests is an invariant about those on their way: the players of a room with
those who found a place in it (`Places`), the namesakes with those about to join
(`NamePlaces`), the late ones with the readers of the room (`LatePlaces`), and the edits, or
rooms, that the status no longer allows with the requests that read it when it did
(`SinceInv`). `RoomSteps` says once what a step can do to a room, and the counting proofs
only go through its five cases. `ListsAreBounded` needs more than a count: how many lists
there are does not say which of them an edit under way will delete. `ListsInv` ascribes every
list to the request that wrote it, no two to one request (`Ascribed`), such that a request
that edits again has read, and so deletes, the list ascribed to it. `EditsReplaceLists`
(`Spec => EditsReplace`) rests on `NewerInv`: lists are numbered as they are written, and
what an edit has not read is newer than all that it has.

`NobodyWaitsForGood` says of any number of requests what `SomebodyGoesOn` says of two, with
the guards of the steps written out (`CanGoOn`) in place of ENABLED: as long as a request is
not answered, one can go on. A transaction that holds a name is at its tags and one that has
deleted rooms is about to commit (`HoldsInv`); so if none could go on, all would be at their
tags and each would wait for another. Of the groups that wait for one of their own, a
smallest one (`WaitingInCircles`, by the well-foundedness of the naturals) has nobody for
whom no other one waits, and that is a deadlock, which the database breaks. There must be a
code that `create_room` can draw (`Codes # {}`).

Only model-checked: liveness (`FinishedIsAnnounced`, the progress in `ImplementsLifecycle`,
`LeavingEnds`) and `SomebodyGoesOn` itself, with ENABLED. Fairness and ENABLED are out of the
prover's reach; what can be said without them is `Attended`, `NobodyWaitsInVain` and
`NobodyWaitsForGood`.

## 5. Not modelled

- The score formula (`services.py` 75-82) is float arithmetic over milliseconds; no property
  tells one score from another, only which questions' points a score holds. Which rank a
  change is measured against follows from `Ranks` and `NextBoard`, and no document says
  which one it should be.
- `get_game_history`, the quiz lists, statistics and export only read. Favourites are one
  insert or delete: two inserts side by side fail one of the requests and change nothing.
- Registering and profile edits are a unique insert or a plain update of one row.
- The database pool: `send_question` calls `end_game` with its own session open
  (`router.py` 586), so a handler may hold one connection while it waits for another; the
  wait ends in an error after the pool's timeout, and a failing `end_game` is one of the
  disruptions (`exception`).
- `close_all` of the connection manager has no caller. Refused admissions (foreign origins,
  missing or stale tokens) change no state.
- Validation of request bodies, configuration, logging, error bodies, headers and the rate
  limiter keep no state. Migrations, deployment and backups run outside the program.
