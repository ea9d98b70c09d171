----------------------------- MODULE Connections ----------------------------
(***************************************************************************)
(* The sockets of one game room in one process: the connection manager     *)
(* (app/game/connection_manager.py) and the two WebSocket endpoints        *)
(* (app/game/router.py).                                                   *)
(*                                                                         *)
(* A socket is the handler that serves it, a step what runs between two    *)
(* awaits.  The game is an environment that commits one version of the     *)
(* room after another and then broadcasts each; the last one is "finished".*)
(* A client is described by the versions it heard of by broadcast, those   *)
(* that a ROOM_STATE sent to it showed, and whether GAME_FINISHED was sent *)
(* to it; other messages change nothing.                                   *)
(***************************************************************************)
EXTENDS Naturals, Sequences, FiniteSets

CONSTANTS
    Sockets,         \* WebSocket objects; each is opened once at most
    Players, Host,   \* who may own a socket
    Owner,           \* whose socket it is
    None,            \* no socket
    LastVersion,     \* bound: versions of the room; this one is finished
    PublicResults,   \* game_sessions.public_results
    Failures,        \* the kinds of failure this instance allows
    MaxFailures      \* bound: how many of them

Owners == Players \cup {Host}

ASSUME OwnerAssumption   == Owner \in [Sockets -> Owners] /\ Host \notin Players
ASSUME NoneAssumption    == None \notin Sockets
ASSUME VersionAssumption == LastVersion \in Nat \ {0} /\ PublicResults \in BOOLEAN
ASSUME FailureAssumption ==
    Failures \subseteq {"database", "redis", "crash"} /\ MaxFailures \in Nat

VARIABLES
    socket,      \* the endpoint's handler of each socket
    members,     \* _rooms[room_code]; the key is absent when empty
    registry,    \* _players, and _hosts[room_code] under Host
    lock,        \* who holds _lock across an await
    subscriber,  \* _subscriptions[room_code]: the room's subscriber task
    inbox,       \* versions on their way from Redis to the subscriber
    connected,   \* game_players.is_connected
    version,     \* the version of the room committed last
    unsent,      \* committed, and not broadcast yet
    untold,      \* owners end_game has still to send GAME_FINISHED
    heard,       \* history: versions broadcast to each socket
    shown,       \* history: versions of the ROOM_STATEs sent to each socket
    told,        \* history: sockets sent GAME_FINISHED
    lost,        \* history: versions published with nobody listening
    failed       \* how many failures happened

manager == <<members, registry, lock, subscriber, inbox>>
game    == <<version, unsent, untold>>
clients == <<heard, shown, told, lost>>
vars    == <<socket, manager, connected, game, clients, failed>>

Versions    == 0..LastVersion
\* A private GAME_FINISHED is sent to each owner, everything else broadcast.
Broadcasts  == IF PublicResults THEN 1..LastVersion ELSE 1..(LastVersion - 1)

Steps       == {"outside", "register", "flag_up", "snapshot", "state", "results", "serving",
                "leave", "await_task", "flag_down", "closed", "abandoned"}
SocketState == [pc : Steps, seen : Versions, snap : Versions, quiet : BOOLEAN]
Outside     == [pc |-> "outside", seen |-> 0, snap |-> 0, quiet |-> FALSE]
TaskStates  == {"absent", "starting", "listening", "failed", "cancelled"}

\* The steps at which a socket is in _rooms; an abandoned one never leaves it.
Registered  == {"flag_up", "snapshot", "state", "results", "serving", "leave", "abandoned"}

TypeOK ==
    /\ socket \in [Sockets -> SocketState]
    /\ members \subseteq Sockets
    /\ registry \in [Owners -> Sockets \cup {None}]
    /\ lock \in Sockets \cup {None}
    /\ subscriber \in TaskStates
    /\ inbox \in Seq(Versions)
    /\ connected \in [Players -> BOOLEAN]
    /\ version \in Versions /\ unsent \subseteq Versions /\ untold \subseteq Owners
    /\ heard \in [Sockets -> SUBSET Versions] /\ shown \in [Sockets -> SUBSET Versions]
    /\ told \subseteq Sockets /\ lost \subseteq Versions
    /\ failed \in 0..MaxFailures

Init ==
    /\ socket = [s \in Sockets |-> Outside]
    /\ members = {} /\ registry = [o \in Owners |-> None] /\ lock = None
    /\ subscriber = "absent" /\ inbox = <<>>
    /\ connected = [p \in Players |-> TRUE]   \* the column's default
    /\ version = 0 /\ unsent = {} /\ untold = {}
    /\ heard = [s \in Sockets |-> {}] /\ shown = heard /\ told = {} /\ lost = {}
    /\ failed = 0

Goto(s, step) == socket' = [socket EXCEPT ![s].pc = step]

\* broadcast_to_room's last leg: every socket the process holds for the room.
SendToRoom(v) ==
    /\ heard' = [s \in Sockets |-> IF s \in members THEN heard[s] \cup {v} ELSE heard[s]]
    /\ told' = IF v = LastVersion THEN told \cup members ELSE told

\* send_to_player and send_to_host of a room's state: whatever socket is registered, if any.
Show(o, v) ==
    shown' = [s \in Sockets |-> IF s = registry[o] THEN shown[s] \cup {v} ELSE shown[s]]

-----------------------------------------------------------------------------
(* Faulty variants of steps below, in no specification: each shows that a   *)
(* property notices the bug it names.                                       *)

\* send_to_player without its check that a socket is registered.
TellUnchecked(o) == told' = told \cup {registry[o]}

\* _subscriptions.get in place of pop: the dead task is left in the table.
UnsubscribedKeepsTask(s) ==
    /\ lock = s /\ socket[s].pc = "await_task" /\ subscriber = "absent"
    /\ lock' = None /\ subscriber' = "failed"
    /\ registry' = [registry EXCEPT ![Owner[s]] = None]
    /\ Goto(s, IF Owner[s] = Host \/ socket[s].quiet THEN "closed" ELSE "flag_down")
    /\ UNCHANGED <<members, inbox, connected, game, clients, failed>>

\* The last socket waits for the subscriber without cancelling it.
StopSubscriberWaits(s) ==
    /\ lock' = s
    /\ UNCHANGED <<subscriber, inbox, lost>>

\* The room's state taken from the admission check, before the registration.
SnapshotFromAdmission(s) ==
    /\ socket[s].pc = "snapshot"
    /\ socket' = [socket EXCEPT ![s].pc = "state", ![s].snap = socket[s].seen]
    /\ UNCHANGED <<manager, connected, game, clients, failed>>

\* A reconnection to a finished game left to the broadcast it has missed.
SendStateOnly(s) ==
    /\ socket[s].pc = "state"
    /\ Show(Owner[s], socket[s].snap)
    /\ Goto(s, "serving")
    /\ UNCHANGED <<manager, connected, game, heard, told, lost, failed>>

\* disconnect that forgets the player when the room is empty.
UnsubscribedKeepsPlayer(s) ==
    /\ lock = s /\ socket[s].pc = "await_task" /\ subscriber = "absent"
    /\ lock' = None
    /\ Goto(s, IF Owner[s] = Host \/ socket[s].quiet THEN "closed" ELSE "flag_down")
    /\ UNCHANGED <<members, registry, subscriber, inbox, connected, game, clients, failed>>

-----------------------------------------------------------------------------
(* The connection manager's helpers.                                       *)

\* send_to_player and send_to_host of the results.
Tell(o) == told' = told \cup ({registry[o]} \ {None})

\* The room's last socket stops the subscriber and waits for it under the lock.
StopSubscriber(s) ==
    /\ lock' = s
    /\ subscriber' = "cancelled"
    /\ inbox' = <<>>
    /\ lost' = lost \cup {inbox[i] : i \in DOMAIN inbox}

-----------------------------------------------------------------------------
(* The endpoints: admission, registration, the present state, then service. *)

\* The room is read, and found finished or not, before anything is registered.
Admit(s) ==
    /\ socket[s].pc = "outside"
    /\ socket' = [socket EXCEPT ![s].pc = "register", ![s].seen = version]
    /\ UNCHANGED <<manager, connected, game, clients, failed>>

\* connect and connect_host.  A task left in the table is not replaced.
Register(s) ==
    /\ socket[s].pc = "register" /\ lock = None
    /\ members' = members \cup {s}
    /\ subscriber' = IF members = {} /\ subscriber = "absent" THEN "starting" ELSE subscriber
    /\ registry' = [registry EXCEPT ![Owner[s]] = s]
    /\ Goto(s, IF Owner[s] = Host THEN "snapshot" ELSE "flag_up")
    /\ UNCHANGED <<lock, inbox, connected, game, clients, failed>>

FlagUp(s) ==
    /\ socket[s].pc = "flag_up"
    /\ connected' = [connected EXCEPT ![Owner[s]] = TRUE]
    /\ Goto(s, "snapshot")
    /\ UNCHANGED <<manager, game, clients, failed>>

\* build_room_state.
Snapshot(s) ==
    /\ socket[s].pc = "snapshot"
    /\ socket' = [socket EXCEPT ![s].pc = "state", ![s].snap = version]
    /\ UNCHANGED <<manager, connected, game, clients, failed>>

\* ROOM_STATE, for the socket that its owner has registered by now; then the results,
\* if the game was finished at the admission.
SendState(s) ==
    /\ socket[s].pc = "state"
    /\ Show(Owner[s], socket[s].snap)
    /\ Goto(s, IF socket[s].seen = LastVersion THEN "results" ELSE "serving")
    /\ UNCHANGED <<manager, connected, game, heard, told, lost, failed>>

SendResults(s) ==
    /\ socket[s].pc = "results"
    /\ Tell(Owner[s])
    /\ Goto(s, "serving")
    /\ UNCHANGED <<manager, connected, game, heard, shown, lost, failed>>

\* The client goes away, or its socket fails.
Hangup(s) ==
    /\ socket[s].pc = "serving"
    /\ Goto(s, "leave")
    /\ UNCHANGED <<manager, connected, game, clients, failed>>

\* disconnect and disconnect_host: whichever socket its owner has registered
\* by now is forgotten.
Leave(s) ==
    /\ socket[s].pc = "leave" /\ lock = None
    /\ members' = members \ {s}
    /\ \/ /\ members = {s}
          /\ StopSubscriber(s)
          /\ Goto(s, "await_task")
          /\ UNCHANGED registry
       \/ /\ members # {s}
          /\ registry' = [registry EXCEPT ![Owner[s]] = None]
          /\ Goto(s, IF Owner[s] = Host \/ socket[s].quiet THEN "closed" ELSE "flag_down")
          /\ UNCHANGED <<lock, subscriber, inbox, lost>>
    /\ UNCHANGED <<connected, game, heard, shown, told, failed>>

Unsubscribed(s) ==
    /\ lock = s /\ socket[s].pc = "await_task" /\ subscriber = "absent"
    /\ lock' = None
    /\ registry' = [registry EXCEPT ![Owner[s]] = None]
    /\ Goto(s, IF Owner[s] = Host \/ socket[s].quiet THEN "closed" ELSE "flag_down")
    /\ UNCHANGED <<members, subscriber, inbox, connected, game, clients, failed>>

FlagDown(s) ==
    /\ socket[s].pc = "flag_down"
    /\ connected' = [connected EXCEPT ![Owner[s]] = FALSE]
    /\ Goto(s, "closed")
    /\ UNCHANGED <<manager, game, clients, failed>>

-----------------------------------------------------------------------------
(* The subscriber task.                                                    *)

Subscribe ==
    /\ subscriber = "starting" /\ subscriber' = "listening"
    /\ UNCHANGED <<socket, members, registry, lock, inbox, connected, game, clients, failed>>

Deliver ==
    /\ subscriber = "listening" /\ inbox # <<>>
    /\ SendToRoom(Head(inbox))
    /\ inbox' = Tail(inbox)
    /\ UNCHANGED <<socket, members, registry, lock, subscriber, connected, game, shown, lost,
                   failed>>

SubscriberEnds ==
    /\ subscriber = "cancelled" /\ subscriber' = "absent"
    /\ UNCHANGED <<socket, members, registry, lock, inbox, connected, game, clients, failed>>

-----------------------------------------------------------------------------
(* The game: commits, broadcasts, and the private results of end_game.     *)

GameMoves ==
    /\ version < LastVersion
    /\ version' = version + 1
    /\ \/ version' \in Broadcasts /\ unsent' = unsent \cup {version'} /\ UNCHANGED untold
       \/ version' \notin Broadcasts /\ untold' = Owners /\ UNCHANGED unsent
    /\ UNCHANGED <<socket, manager, connected, clients, failed>>

\* What Redis publishes to nobody is gone.
Publish(v) ==
    /\ v \in unsent /\ unsent' = unsent \ {v}
    /\ \/ subscriber = "listening" /\ inbox' = Append(inbox, v) /\ UNCHANGED lost
       \/ subscriber # "listening" /\ lost' = lost \cup {v} /\ UNCHANGED inbox
    /\ UNCHANGED <<socket, members, registry, lock, subscriber, connected, version, untold,
                   heard, shown, told, failed>>

\* The host first, then each player.
TellFinished(o) ==
    /\ o \in untold /\ (Host \in untold => o = Host)
    /\ untold' = untold \ {o}
    /\ Tell(o)
    /\ UNCHANGED <<socket, manager, connected, version, unsent, heard, shown, lost, failed>>

-----------------------------------------------------------------------------
(* Failures.                                                               *)

Fail(kind) == kind \in Failures /\ failed < MaxFailures /\ failed' = failed + 1

\* Only the room state and the last flag are read or written inside a try.
DatabaseRaises(s) ==
    /\ Fail("database")
    /\ \/ socket[s].pc \in {"flag_up", "results"} /\ Goto(s, "abandoned")
       \/ /\ socket[s].pc = "snapshot"
          /\ socket' = [socket EXCEPT ![s].pc = "leave", ![s].quiet = TRUE]
       \/ socket[s].pc = "flag_down" /\ Goto(s, "closed")
    /\ UNCHANGED <<manager, connected, game, clients>>

\* A failed subscriber stays in the table.
SubscriberFails ==
    /\ Fail("redis")
    /\ subscriber \in {"starting", "listening"} /\ subscriber' = "failed"
    /\ inbox' = <<>> /\ lost' = lost \cup {inbox[i] : i \in DOMAIN inbox}
    /\ UNCHANGED <<socket, members, registry, lock, connected, game, heard, shown, told>>

\* A publish that raises is replaced by sending to the sockets at hand.
PublishRaises(v) ==
    /\ Fail("redis")
    /\ v \in unsent /\ unsent' = unsent \ {v}
    /\ SendToRoom(v)
    /\ UNCHANGED <<socket, manager, connected, version, untold, shown, lost>>

\* The process restarts: what it held in memory is gone, with its sockets.
Crash ==
    /\ Fail("crash")
    /\ socket' = [s \in Sockets |-> IF socket[s].pc = "outside" THEN socket[s]
                                    ELSE [socket[s] EXCEPT !.pc = "closed"]]
    /\ members' = {} /\ registry' = [o \in Owners |-> None] /\ lock' = None
    /\ subscriber' = "absent" /\ inbox' = <<>>
    /\ unsent' = {} /\ untold' = {}
    /\ lost' = lost \cup unsent \cup {inbox[i] : i \in DOMAIN inbox}
    /\ UNCHANGED <<connected, version, heard, shown, told>>

-----------------------------------------------------------------------------
(* The specification.                                                      *)

HandlerStep(s) ==
    \/ Register(s) \/ FlagUp(s) \/ Snapshot(s) \/ SendState(s) \/ SendResults(s)
    \/ Leave(s) \/ Unsubscribed(s) \/ FlagDown(s)

SubscriberStep == Subscribe \/ Deliver \/ SubscriberEnds

GameStep ==
    GameMoves \/ (\E v \in unsent : Publish(v)) \/ (\E o \in untold : TellFinished(o))

Next ==
    \/ \E s \in Sockets : Admit(s) \/ Hangup(s) \/ HandlerStep(s) \/ DatabaseRaises(s)
    \/ SubscriberStep \/ GameStep
    \/ SubscriberFails \/ (\E v \in unsent : PublishRaises(v)) \/ Crash

Spec == Init /\ [][Next]_vars

\* asyncio runs every ready task, and its lock wakes its waiters in turn.
Fairness ==
    /\ \A s \in Sockets : WF_vars(HandlerStep(s))
    /\ WF_vars(SubscriberStep)

FairSpec == Spec /\ Fairness

-----------------------------------------------------------------------------
(* Properties.                                                             *)

\* Unless a last socket is leaving, the room has a subscriber task exactly as
\* long as it has sockets, the room holds the sockets between their connect
\* and their disconnect, and a registered socket is one of them: whatever
\* connects while a disconnect waits for the subscriber under the lock.
RegistryConsistent ==
    /\ members = {s \in Sockets : socket[s].pc \in Registered}
    /\ lock = None => (members = {} <=> subscriber = "absent")
    /\ \A o \in Owners : registry[o] \in members \cup {None, lock}

\* No gap between the state a socket is given and the broadcasts that follow:
\* what is committed after its snapshot is heard by it, unless still on its way
\* or published while no subscriber was listening (the endpoints register the
\* socket before they read the room).
NoGap ==
    \A s \in members :
        socket[s].pc \in {"state", "results", "serving"} =>
            Broadcasts \cap ((socket[s].snap + 1)..version) \subseteq
                heard[s] \cup lost \cup unsent \cup {inbox[i] : i \in DOMAIN inbox}

\* When every socket is closed and nothing failed, nothing is left of them in
\* the manager, and the players who had one are not marked as connected.
NothingLeftBehind ==
    failed = 0 /\ (\A s \in Sockets : socket[s].pc \in {"outside", "register", "closed"}) =>
        /\ members = {} /\ lock = None /\ subscriber = "absent"
        /\ \A o \in Owners : registry[o] = None
        /\ \A s \in Sockets :
               socket[s].pc = "closed" /\ Owner[s] # Host => ~ connected[Owner[s]]

\* Nobody waits in vain: who needs the lock finds it free or held by a socket that awaits
\* the subscriber, and the task that is awaited under the lock was cancelled, or has
\* ended, and nobody has started it anew.
NobodyWaitsInVain ==
    \A s \in Sockets :
        /\ socket[s].pc \in {"register", "leave"} =>
               \/ lock = None
               \/ \E t \in Sockets : t # s /\ lock = t /\ socket[t].pc = "await_task"
        /\ socket[s].pc = "await_task" => lock = s /\ subscriber \in {"cancelled", "absent"}

\* A socket that leaves is eventually closed: nobody waits for ever for the
\* lock that disconnect holds while it waits for the subscriber.
LeavingEnds ==
    \A s \in Sockets : socket[s].pc = "leave" ~> socket[s].pc = "closed"

\* Whoever connects to a finished game is sent the final leaderboard, once its
\* other sockets are closed (a reconnection to a finished game is supported).
ResultsSeen ==
    \A s \in Sockets :
        /\ socket[s].pc = "serving" /\ socket[s].seen = LastVersion
        /\ \A t \in Sockets : t # s /\ Owner[t] = Owner[s] => socket[t].pc \in {"outside", "closed"}
        => s \in told

\* Once the game is finished, whoever is served knows it: a ROOM_STATE that was sent to
\* it says so, or GAME_FINISHED was sent to it or to its owner has still to be, or was
\* broadcast and is on its way or lost (each endpoint asks whether the game is finished
\* before it registers its socket, and the game may end in between).
EndKnown ==
    version = LastVersion =>
        \A s \in Sockets : socket[s].pc \in {"results", "serving"} =>
            \/ LastVersion \in shown[s]
            \/ s \in told \/ Owner[s] \in untold
            \/ LastVersion \in unsent \cup lost \cup {inbox[i] : i \in DOMAIN inbox}

=============================================================================
