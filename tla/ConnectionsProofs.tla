-------------------------- MODULE ConnectionsProofs -------------------------
(***************************************************************************)
(* The registry of sockets stays consistent, no version of the room is     *)
(* missed by who is served, and a closed socket leaves nothing behind, for *)
(* any number of sockets, players, versions of the room and failures.      *)
(* With one socket per owner, who connects to a finished game sees its     *)
(* results, and who is served while it ends is not left unaware of it.     *)
(***************************************************************************)
EXTENDS Connections, TLAPS

\* The names of the steps of a socket and of the states of the task, one by one.
LEMMA Names ==
  /\ "outside" \in Steps /\ "register" \in Steps /\ "flag_up" \in Steps
  /\ "snapshot" \in Steps /\ "state" \in Steps /\ "results" \in Steps
  /\ "serving" \in Steps /\ "leave" \in Steps /\ "await_task" \in Steps
  /\ "flag_down" \in Steps /\ "closed" \in Steps /\ "abandoned" \in Steps
  /\ "absent" \in TaskStates /\ "starting" \in TaskStates /\ "listening" \in TaskStates
  /\ "failed" \in TaskStates /\ "cancelled" \in TaskStates
  BY DEF Steps, TaskStates

\* Moving a socket to a step keeps it typed and moves no other socket.
LEMMA GotoMoves ==
  ASSUME socket \in [Sockets -> SocketState], NEW s \in Sockets,
         NEW step \in Steps, Goto(s, step)
  PROVE  /\ socket' \in [Sockets -> SocketState]
         /\ \A t \in Sockets : socket'[t].pc = IF t = s THEN step ELSE socket[t].pc
  BY DEF Goto, SocketState

\* The sequence of versions on their way to the subscriber holds versions.
LEMMA InboxRange ==
  ASSUME inbox \in Seq(Versions)
  PROVE  {inbox[i] : i \in DOMAIN inbox} \subseteq Versions
  OBVIOUS

-----------------------------------------------------------------------------
(* Type correctness.                                                       *)

\* Opening, serving and closing a socket keep the state well typed.
LEMMA SocketStepTypeOK ==
  ASSUME TypeOK, NEW s \in Sockets,
         Admit(s) \/ Hangup(s) \/ HandlerStep(s) \/ DatabaseRaises(s)
  PROVE  TypeOK'
<1> USE DEF manager, game, clients
<1>0. /\ socket \in [Sockets -> SocketState] /\ version \in Versions
      /\ socket[s] \in SocketState /\ Owner[s] \in Owners
  BY OwnerAssumption DEF TypeOK
<1> DEFINE Next1 == IF Owner[s] = Host \/ socket[s].quiet THEN "closed" ELSE "flag_down"
<1>a. Next1 \in Steps BY Names
<1>b. Owner[s] # Host => Owner[s] \in Players BY <1>0 DEF Owners
<1>1. CASE Admit(s)
  <2>1. socket' \in [Sockets -> SocketState]
    BY <1>0, <1>1, Names DEF Admit, SocketState
  <2> QED BY <1>1, <2>1 DEF Admit, TypeOK
<1>2. CASE Register(s)
  <2>1. socket' \in [Sockets -> SocketState]
    <3>1. CASE Owner[s] = Host
      <4>1. Goto(s, "snapshot") BY <1>2, <3>1 DEF Register
      <4> QED BY <1>0, <4>1, Names, GotoMoves
    <3>2. CASE Owner[s] # Host
      <4>1. Goto(s, "flag_up") BY <1>2, <3>2 DEF Register
      <4> QED BY <1>0, <4>1, Names, GotoMoves
    <3> QED BY <3>1, <3>2
  <2>2. subscriber' \in TaskStates BY <1>2, Names DEF Register, TypeOK
  <2>3. registry' \in [Owners -> Sockets \cup {None}]
    BY <1>0, <1>2 DEF Register, TypeOK
  <2> QED BY <1>2, <2>1, <2>2, <2>3 DEF Register, TypeOK
<1>3. CASE FlagUp(s)
  <2>1. socket' \in [Sockets -> SocketState]
    BY <1>0, <1>3, Names, GotoMoves DEF FlagUp
  <2>2. connected' \in [Players -> BOOLEAN] BY <1>3 DEF FlagUp, TypeOK
  <2> QED BY <1>3, <2>1, <2>2 DEF FlagUp, TypeOK
<1>4. CASE Snapshot(s)
  <2>1. socket' \in [Sockets -> SocketState]
    BY <1>0, <1>4, Names DEF Snapshot, SocketState
  <2> QED BY <1>4, <2>1 DEF Snapshot, TypeOK
<1>5. CASE SendState(s)
  <2>1. \/ Goto(s, "results") \/ Goto(s, "serving") BY <1>5 DEF SendState
  <2>2. socket' \in [Sockets -> SocketState] BY <1>0, <2>1, Names, GotoMoves
  <2>3. shown' \in [Sockets -> SUBSET Versions]
    <3>1. socket[s].snap \in Versions BY <1>0 DEF SocketState
    <3> QED BY <1>5, <3>1 DEF SendState, Show, TypeOK
  <2> QED BY <1>5, <2>2, <2>3 DEF SendState, TypeOK
<1>6. CASE SendResults(s)
  <2>1. socket' \in [Sockets -> SocketState]
    BY <1>0, <1>6, Names, GotoMoves DEF SendResults
  <2>2. told' \subseteq Sockets BY <1>0, <1>6 DEF SendResults, Tell, TypeOK
  <2> QED BY <1>6, <2>1, <2>2 DEF SendResults, TypeOK
<1>7. CASE Hangup(s)
  <2>1. socket' \in [Sockets -> SocketState]
    BY <1>0, <1>7, Names, GotoMoves DEF Hangup
  <2> QED BY <1>7, <2>1 DEF Hangup, TypeOK
<1>8. CASE Leave(s)
  <2>1. CASE members = {s}
    <3>1. StopSubscriber(s) /\ Goto(s, "await_task") /\ registry' = registry
      BY <1>8, <2>1 DEF Leave
    <3>2. socket' \in [Sockets -> SocketState] BY <1>0, <3>1, Names, GotoMoves
    <3>3. subscriber' \in TaskStates /\ inbox' \in Seq(Versions) /\ lost' \subseteq Versions
      BY <3>1, Names, InboxRange DEF StopSubscriber, TypeOK
    <3> QED BY <1>8, <3>1, <3>2, <3>3 DEF Leave, StopSubscriber, TypeOK
  <2>2. CASE members # {s}
    <3>1. Goto(s, Next1) /\ registry' = [registry EXCEPT ![Owner[s]] = None]
          /\ UNCHANGED <<lock, subscriber, inbox, lost>>
      BY <1>8, <2>2 DEF Leave
    <3>2. socket' \in [Sockets -> SocketState] BY <1>0, <1>a, <3>1, GotoMoves
    <3>3. registry' \in [Owners -> Sockets \cup {None}] BY <3>1 DEF TypeOK
    <3> QED BY <1>8, <3>1, <3>2, <3>3 DEF Leave, TypeOK
  <2> QED BY <2>1, <2>2
<1>9. CASE Unsubscribed(s)
  <2>1. socket' \in [Sockets -> SocketState]
    BY <1>0, <1>9, <1>a, GotoMoves DEF Unsubscribed
  <2>2. registry' \in [Owners -> Sockets \cup {None}] BY <1>9 DEF Unsubscribed, TypeOK
  <2> QED BY <1>9, <2>1, <2>2 DEF Unsubscribed, TypeOK
<1>10. CASE FlagDown(s)
  <2>1. socket' \in [Sockets -> SocketState]
    BY <1>0, <1>10, Names, GotoMoves DEF FlagDown
  <2>2. connected' \in [Players -> BOOLEAN] BY <1>10 DEF FlagDown, TypeOK
  <2> QED BY <1>10, <2>1, <2>2 DEF FlagDown, TypeOK
<1>11. CASE DatabaseRaises(s)
  <2>1. failed' \in 0..MaxFailures
    BY <1>11, FailureAssumption DEF DatabaseRaises, Fail, TypeOK
  <2>2. CASE Goto(s, "abandoned") \/ Goto(s, "closed")
    <3>1. socket' \in [Sockets -> SocketState] BY <1>0, <2>2, Names, GotoMoves
    <3> QED BY <1>11, <2>1, <3>1 DEF DatabaseRaises, TypeOK
  <2>3. CASE socket' = [socket EXCEPT ![s].pc = "leave", ![s].quiet = TRUE]
    <3>1. socket' \in [Sockets -> SocketState] BY <1>0, <2>3, Names DEF SocketState
    <3> QED BY <1>11, <2>1, <3>1 DEF DatabaseRaises, TypeOK
  <2> QED BY <1>11, <2>2, <2>3 DEF DatabaseRaises
<1> QED BY <1>1, <1>2, <1>3, <1>4, <1>5, <1>6, <1>7, <1>8, <1>9, <1>10, <1>11
        DEF HandlerStep

\* The steps of the subscriber, of the game and of failures do as well.
LEMMA OtherStepTypeOK ==
  ASSUME TypeOK,
         \/ SubscriberStep \/ GameStep
         \/ SubscriberFails \/ (\E v \in unsent : PublishRaises(v)) \/ Crash
  PROVE  TypeOK'
<1> USE DEF manager, game, clients
<1>1. CASE Subscribe BY <1>1, Names DEF Subscribe, TypeOK
<1>2. CASE Deliver
  <2>1. Head(inbox) \in Versions /\ Tail(inbox) \in Seq(Versions)
    BY <1>2 DEF Deliver, TypeOK
  <2>2. heard' \in [Sockets -> SUBSET Versions] /\ told' \subseteq Sockets
    BY <1>2, <2>1 DEF Deliver, SendToRoom, TypeOK
  <2> QED BY <1>2, <2>1, <2>2 DEF Deliver, TypeOK
<1>3. CASE SubscriberEnds BY <1>3, Names DEF SubscriberEnds, TypeOK
<1>4. CASE GameMoves
  <2>1. version' \in Versions BY <1>4, VersionAssumption DEF GameMoves, Versions, TypeOK
  <2> QED BY <1>4, <2>1 DEF GameMoves, TypeOK
<1>5. ASSUME NEW v \in unsent, Publish(v) PROVE TypeOK'
  <2>1. v \in Versions BY DEF TypeOK
  <2>2. inbox' \in Seq(Versions) BY <1>5, <2>1 DEF Publish, TypeOK
  <2> QED BY <1>5, <2>1, <2>2 DEF Publish, TypeOK
<1>6. ASSUME NEW o \in untold, TellFinished(o) PROVE TypeOK'
  <2>1. told' \subseteq Sockets BY <1>6 DEF TellFinished, Tell, TypeOK
  <2> QED BY <1>6, <2>1 DEF TellFinished, TypeOK
<1>7. CASE SubscriberFails
  <2>1. failed' \in 0..MaxFailures BY <1>7, FailureAssumption DEF SubscriberFails, Fail, TypeOK
  <2>2. lost' \subseteq Versions BY <1>7, InboxRange DEF SubscriberFails, TypeOK
  <2> QED BY <1>7, <2>1, <2>2, Names DEF SubscriberFails, TypeOK
<1>8. ASSUME NEW v \in unsent, PublishRaises(v) PROVE TypeOK'
  <2>1. failed' \in 0..MaxFailures BY <1>8, FailureAssumption DEF PublishRaises, Fail, TypeOK
  <2>2. heard' \in [Sockets -> SUBSET Versions] /\ told' \subseteq Sockets
    BY <1>8 DEF PublishRaises, SendToRoom, TypeOK
  <2> QED BY <1>8, <2>1, <2>2 DEF PublishRaises, TypeOK
<1>9. CASE Crash
  <2>1. failed' \in 0..MaxFailures BY <1>9, FailureAssumption DEF Crash, Fail, TypeOK
  <2>2. socket' \in [Sockets -> SocketState] BY <1>9, Names DEF Crash, TypeOK, SocketState
  <2>3. lost' \subseteq Versions BY <1>9, InboxRange DEF Crash, TypeOK
  <2> QED BY <1>9, <2>1, <2>2, <2>3, Names DEF Crash, TypeOK
<1> QED BY <1>1, <1>2, <1>3, <1>4, <1>5, <1>6, <1>7, <1>8, <1>9 DEF SubscriberStep, GameStep

\* The state of the sockets of a room stays well typed.
THEOREM TypeCorrect == Spec => []TypeOK
<1>1. Init => TypeOK
  <2>1. Outside \in SocketState BY VersionAssumption, Names DEF Outside, SocketState, Versions
  <2> QED BY <2>1, VersionAssumption, FailureAssumption, Names DEF Init, TypeOK, Versions
<1>2. TypeOK /\ [Next]_vars => TypeOK'
  <2> SUFFICES ASSUME TypeOK, [Next]_vars PROVE TypeOK' OBVIOUS
  <2>1. CASE Next BY <2>1, SocketStepTypeOK, OtherStepTypeOK DEF Next
  <2>2. CASE UNCHANGED vars BY <2>2 DEF vars, manager, game, clients, TypeOK
  <2> QED BY <2>1, <2>2
<1> QED BY <1>1, <1>2, PTL DEF Spec

-----------------------------------------------------------------------------
(* The registry.                                                           *)

\* RegistryConsistent says nothing while the lock is held, nor whose socket is
\* registered for whom, so it is not inductive: the lock is held by the last
\* socket alone, which waits for a task that was cancelled, in an empty room;
\* and nobody's entry is a socket of another, which would outlive its leaving.
RegistryInv ==
    /\ TypeOK
    /\ RegistryConsistent
    /\ \A s \in Sockets : socket[s].pc = "await_task" <=> lock = s
    /\ lock # None => members = {} /\ subscriber \in {"cancelled", "absent"}
    /\ lock = None => subscriber # "cancelled"
    /\ \A o \in Owners : registry[o] # None => Owner[registry[o]] = o

\* A step that keeps every socket among the registered ones, or out of them,
\* and keeps the manager, keeps the registry consistent.
LEMMA ManagerUnchanged ==
  ASSUME RegistryInv, TypeOK', UNCHANGED manager,
         \A s \in Sockets : /\ socket'[s].pc \in Registered <=> socket[s].pc \in Registered
                            /\ socket'[s].pc = "await_task" <=> socket[s].pc = "await_task"
  PROVE  RegistryInv'
  BY DEF RegistryInv, RegistryConsistent, manager

\* Opening, serving and closing a socket keep the registry consistent.
LEMMA SocketStepRegistry ==
  ASSUME RegistryInv, TypeOK', NEW s \in Sockets,
         Admit(s) \/ Hangup(s) \/ HandlerStep(s) \/ DatabaseRaises(s)
  PROVE  RegistryInv'
<1> USE DEF Registered
<1>0. /\ socket \in [Sockets -> SocketState] /\ version \in Versions
      /\ socket[s] \in SocketState /\ Owner[s] \in Owners
      /\ registry \in [Owners -> Sockets \cup {None}]
      /\ s # None /\ None \notin Sockets
  BY OwnerAssumption, NoneAssumption DEF RegistryInv, TypeOK
<1> DEFINE Next1 == IF Owner[s] = Host \/ socket[s].quiet THEN "closed" ELSE "flag_down"
<1>a. Next1 \in Steps /\ Next1 \notin Registered /\ Next1 # "await_task" BY Names
<1>1. CASE Admit(s) \/ Snapshot(s)
  <2>1. /\ UNCHANGED manager
        /\ \A t \in Sockets : t # s => socket'[t].pc = socket[t].pc
        /\ socket[s].pc \in {"outside", "snapshot"}
        /\ socket[s].pc = "outside" => socket'[s].pc = "register"
        /\ socket[s].pc = "snapshot" => socket'[s].pc = "state"
    BY <1>0, <1>1 DEF Admit, Snapshot, SocketState
  <2> QED BY <2>1, ManagerUnchanged
<1>2. CASE Register(s)
  <2>1. PICK step \in {"snapshot", "flag_up"} : Goto(s, step) BY <1>2 DEF Register
  <2>2. \A t \in Sockets : socket'[t].pc = IF t = s THEN step ELSE socket[t].pc
    BY <1>0, <2>1, Names, GotoMoves
  <2>3. /\ lock = None /\ lock' = None /\ members' = members \cup {s}
        /\ subscriber' = IF members = {} /\ subscriber = "absent" THEN "starting" ELSE subscriber
        /\ registry' = [registry EXCEPT ![Owner[s]] = s]
        /\ socket[s].pc = "register"
    BY <1>2 DEF Register
  <2>4. members' = {t \in Sockets : socket'[t].pc \in Registered}
    BY <2>2, <2>3 DEF RegistryInv, RegistryConsistent
  <2>5. subscriber' # "absent" /\ subscriber' # "cancelled" /\ members' # {}
    BY <2>3 DEF RegistryInv, RegistryConsistent
  <2>6. \A o \in Owners : registry'[o] \in members' \cup {None, lock'}
    BY <1>0, <2>3 DEF RegistryInv, RegistryConsistent
  <2>7. \A o \in Owners : registry'[o] # None => Owner[registry'[o]] = o
    BY <1>0, <2>3 DEF RegistryInv
  <2>8. \A t \in Sockets : socket'[t].pc = "await_task" <=> lock' = t
    BY <1>0, <2>2, <2>3 DEF RegistryInv
  <2> QED BY <2>3, <2>4, <2>5, <2>6, <2>7, <2>8 DEF RegistryInv, RegistryConsistent
<1>3. CASE FlagUp(s) \/ SendState(s) \/ SendResults(s) \/ Hangup(s)
  <2>1. PICK step \in {"snapshot", "results", "serving", "leave"} : Goto(s, step)
    BY <1>3 DEF FlagUp, SendState, SendResults, Hangup
  <2>2. \A t \in Sockets : socket'[t].pc = IF t = s THEN step ELSE socket[t].pc
    BY <1>0, <2>1, Names, GotoMoves
  <2>3. UNCHANGED manager /\ socket[s].pc \in {"flag_up", "state", "results", "serving"}
    BY <1>3 DEF FlagUp, SendState, SendResults, Hangup
  <2> QED BY <2>2, <2>3, ManagerUnchanged
<1>4. CASE Leave(s) /\ members = {s}
  <2>1. Goto(s, "await_task") BY <1>4 DEF Leave
  <2>2. \A t \in Sockets : socket'[t].pc = IF t = s THEN "await_task" ELSE socket[t].pc
    BY <1>0, <2>1, Names, GotoMoves
  <2>3. /\ lock = None /\ lock' = s /\ members' = {} /\ subscriber' = "cancelled"
        /\ registry' = registry
    BY <1>4 DEF Leave, StopSubscriber
  <2>4. members' = {t \in Sockets : socket'[t].pc \in Registered}
    BY <1>4, <2>2, <2>3 DEF RegistryInv, RegistryConsistent
  <2>5. \A o \in Owners : registry'[o] \in {None, lock'}
    BY <1>4, <2>3 DEF RegistryInv, RegistryConsistent
  <2>6. \A t \in Sockets : socket'[t].pc = "await_task" <=> lock' = t
    BY <1>0, <2>2, <2>3 DEF RegistryInv
  <2> QED BY <1>0, <2>3, <2>4, <2>5, <2>6 DEF RegistryInv, RegistryConsistent
<1>5. CASE Leave(s) /\ members # {s}
  <2>1. /\ Goto(s, Next1) /\ socket[s].pc = "leave"
        /\ lock = None /\ lock' = None /\ members' = members \ {s}
        /\ subscriber' = subscriber /\ registry' = [registry EXCEPT ![Owner[s]] = None]
    BY <1>5 DEF Leave
  <2>2. \A t \in Sockets : socket'[t].pc = IF t = s THEN Next1 ELSE socket[t].pc
    BY <1>0, <1>a, <2>1, GotoMoves
  <2>3. s \in members BY <2>1 DEF RegistryInv, RegistryConsistent
  <2>4. members' # {} /\ subscriber # "absent" /\ subscriber # "cancelled"
    BY <1>5, <2>1, <2>3 DEF RegistryInv, RegistryConsistent
  <2>5. members' = {t \in Sockets : socket'[t].pc \in Registered}
    BY <1>a, <2>1, <2>2 DEF RegistryInv, RegistryConsistent
  <2>6. \A o \in Owners : registry'[o] = IF o = Owner[s] THEN None ELSE registry[o]
    BY <1>0, <2>1
  <2>7. \A o \in Owners : registry'[o] \in members' \cup {None, lock'}
    BY <2>1, <2>6 DEF RegistryInv, RegistryConsistent
  <2>8. \A t \in Sockets : socket'[t].pc = "await_task" <=> lock' = t
    BY <1>0, <1>a, <2>1, <2>2 DEF RegistryInv
  <2> QED BY <1>0, <2>1, <2>4, <2>5, <2>6, <2>7, <2>8 DEF RegistryInv, RegistryConsistent
<1>6. CASE Unsubscribed(s)
  <2>1. /\ Goto(s, Next1) /\ socket[s].pc = "await_task" /\ subscriber = "absent"
        /\ lock = s /\ lock' = None /\ members' = members
        /\ subscriber' = subscriber /\ registry' = [registry EXCEPT ![Owner[s]] = None]
    BY <1>6 DEF Unsubscribed
  <2>2. \A t \in Sockets : socket'[t].pc = IF t = s THEN Next1 ELSE socket[t].pc
    BY <1>0, <1>a, <2>1, GotoMoves
  <2>3. members = {} BY <1>0, <2>1 DEF RegistryInv
  <2>4. members' = {t \in Sockets : socket'[t].pc \in Registered}
    BY <1>a, <2>1, <2>2 DEF RegistryInv, RegistryConsistent
  <2>5. \A o \in Owners : registry'[o] = IF o = Owner[s] THEN None ELSE registry[o]
    BY <1>0, <2>1
  <2>6. \A o \in Owners : registry'[o] = None
    BY <1>0, <2>1, <2>3, <2>5 DEF RegistryInv, RegistryConsistent
  <2>7. \A t \in Sockets : socket'[t].pc = "await_task" <=> lock' = t
    BY <1>0, <1>a, <2>1, <2>2 DEF RegistryInv
  <2> QED BY <2>1, <2>3, <2>4, <2>6, <2>7 DEF RegistryInv, RegistryConsistent
<1>7. CASE FlagDown(s)
  <2>1. Goto(s, "closed") /\ UNCHANGED manager /\ socket[s].pc = "flag_down"
    BY <1>7 DEF FlagDown, manager
  <2>2. \A t \in Sockets : socket'[t].pc = IF t = s THEN "closed" ELSE socket[t].pc
    BY <1>0, <2>1, Names, GotoMoves
  <2> QED BY <2>1, <2>2, ManagerUnchanged
<1>8. CASE DatabaseRaises(s)
  <2>1. /\ UNCHANGED manager
        /\ \A t \in Sockets : t # s => socket'[t].pc = socket[t].pc
        /\ socket[s].pc \in {"flag_up", "results", "snapshot", "flag_down"}
        /\ socket[s].pc = "flag_down" => socket'[s].pc = "closed"
        /\ socket[s].pc # "flag_down" => socket'[s].pc \in {"abandoned", "leave"}
    BY <1>0, <1>8 DEF DatabaseRaises, Goto, SocketState
  <2> QED BY <2>1, ManagerUnchanged
<1> QED BY <1>1, <1>2, <1>3, <1>4, <1>5, <1>6, <1>7, <1>8 DEF HandlerStep

\* The steps of the subscriber, of the game and of failures do as well.
LEMMA OtherStepRegistry ==
  ASSUME RegistryInv, TypeOK',
         \/ SubscriberStep \/ GameStep
         \/ SubscriberFails \/ (\E v \in unsent : PublishRaises(v)) \/ Crash
  PROVE  RegistryInv'
<1>1. CASE SubscriberStep \/ SubscriberFails
  <2>1. /\ UNCHANGED <<socket, members, registry, lock>>
        /\ \/ subscriber' = subscriber
           \/ subscriber \in {"starting", "listening"} /\ subscriber' \in {"listening", "failed"}
           \/ subscriber = "cancelled" /\ subscriber' = "absent"
    BY <1>1 DEF SubscriberStep, Subscribe, Deliver, SubscriberEnds, SubscriberFails
  <2> QED BY <2>1 DEF RegistryInv, RegistryConsistent
<1>2. CASE GameStep \/ \E v \in unsent : PublishRaises(v)
  <2>1. UNCHANGED <<socket, members, registry, lock, subscriber>>
    BY <1>2 DEF GameStep, GameMoves, Publish, TellFinished, PublishRaises, manager
  <2> QED BY <2>1 DEF RegistryInv, RegistryConsistent
<1>3. CASE Crash
  <2>1. \A s \in Sockets : socket'[s].pc \in {"outside", "closed"}
    BY <1>3 DEF Crash, RegistryInv, TypeOK, SocketState
  <2>2. /\ members' = {} /\ lock' = None /\ subscriber' = "absent"
        /\ \A o \in Owners : registry'[o] = None
    BY <1>3 DEF Crash
  <2>3. \A s \in Sockets : s # None BY NoneAssumption
  <2> QED BY <2>1, <2>2, <2>3 DEF RegistryInv, RegistryConsistent, Registered
<1> QED BY <1>1, <1>2, <1>3

\* The inductive invariant holds in every state, for the theorems that rest on it.
LEMMA RegistryInvariant == Spec => []RegistryInv
<1>1. Init => RegistryInv
  <2> SUFFICES ASSUME Init PROVE RegistryInv OBVIOUS
  <2>1. TypeOK
    <3>1. Outside \in SocketState BY VersionAssumption, Names DEF Outside, SocketState, Versions
    <3> QED BY <3>1, VersionAssumption, FailureAssumption, Names DEF Init, TypeOK, Versions
  <2>2. \A s \in Sockets : socket[s].pc = "outside" /\ s # None
    BY NoneAssumption DEF Init, Outside
  <2> QED BY <2>1, <2>2 DEF Init, RegistryInv, RegistryConsistent, Registered
<1>2. RegistryInv /\ [Next]_vars => RegistryInv'
  <2> SUFFICES ASSUME RegistryInv, [Next]_vars PROVE RegistryInv' OBVIOUS
  <2>1. CASE Next
    <3>1. TypeOK' BY <2>1, SocketStepTypeOK, OtherStepTypeOK DEF Next, RegistryInv
    <3> QED BY <2>1, <3>1, SocketStepRegistry, OtherStepRegistry DEF Next
  <2>2. CASE UNCHANGED vars
    BY <2>2 DEF vars, manager, game, clients, RegistryInv, RegistryConsistent, TypeOK
  <2> QED BY <2>1, <2>2
<1> QED BY <1>1, <1>2, PTL DEF Spec

\* Whatever connects, leaves or fails, in whatever order: a room in use has its
\* subscriber task, an empty one has none, and no entry outlives its socket.
THEOREM RegistryHolds == Spec => []RegistryConsistent
<1>1. RegistryInv => RegistryConsistent BY DEF RegistryInv
<1> QED BY <1>1, RegistryInvariant, PTL

\* The lock is always given back: who waits for it waits for a socket that can go on, or
\* whose cancelled task can end.  What LeavingEnds asks of fairness beyond it is only
\* that each takes its turn.
THEOREM NobodyWaitsInVainHolds == Spec => []NobodyWaitsInVain
<1>1. RegistryInv => NobodyWaitsInVain
  <2> SUFFICES ASSUME RegistryInv, NEW s \in Sockets
               PROVE  /\ socket[s].pc \in {"register", "leave"} =>
                             \/ lock = None
                             \/ \E t \in Sockets : /\ t # s /\ lock = t
                                                   /\ socket[t].pc = "await_task"
                      /\ socket[s].pc = "await_task" =>
                             lock = s /\ subscriber \in {"cancelled", "absent"}
    BY DEF NobodyWaitsInVain
  <2>1. lock \in Sockets \cup {None} /\ s # None
    BY NoneAssumption DEF RegistryInv, TypeOK
  <2>2. \A t \in Sockets : lock = t => socket[t].pc = "await_task" BY DEF RegistryInv
  <2>3. socket[s].pc = "await_task" => lock = s /\ subscriber \in {"cancelled", "absent"}
    BY <2>1 DEF RegistryInv
  <2> QED BY <2>1, <2>2, <2>3
<1> QED BY <1>1, RegistryInvariant, PTL

-----------------------------------------------------------------------------
(* What a socket hears.                                                    *)

\* Where a version the room has committed may be: heard by the socket, lost, not
\* broadcast yet, or on its way to the subscriber.
Traced(s) == heard[s] \cup lost \cup unsent \cup {inbox[i] : i \in DOMAIN inbox}

\* The steps at which a socket has its snapshot of the room.
Informed == {"state", "results", "serving"}

\* Taking the first element of a sequence of versions loses none of the others.
LEMMA HeadOrTail ==
  ASSUME NEW q \in Seq(Versions), q # <<>>
  PROVE  {q[i] : i \in DOMAIN q} \subseteq
             {Head(q)} \cup {Tail(q)[i] : i \in DOMAIN Tail(q)}
<1> SUFFICES ASSUME NEW i \in DOMAIN q, q[i] # Head(q)
             PROVE  \E j \in DOMAIN Tail(q) : Tail(q)[j] = q[i]
  OBVIOUS
<1>1. i \in 1..Len(q) /\ i # 1 OBVIOUS
<1>2. i - 1 \in DOMAIN Tail(q) /\ Tail(q)[i - 1] = q[i] BY <1>1
<1> QED BY <1>2

\* Appending an element to a sequence of versions keeps the others and adds it.
LEMMA Appended ==
  ASSUME NEW q \in Seq(Versions), NEW v \in Versions
  PROVE  {q[i] : i \in DOMAIN q} \cup {v} \subseteq
             {Append(q, v)[i] : i \in DOMAIN Append(q, v)}
<1>1. \A i \in DOMAIN q : i \in DOMAIN Append(q, v) /\ Append(q, v)[i] = q[i] OBVIOUS
<1>2. Len(q) + 1 \in DOMAIN Append(q, v) /\ Append(q, v)[Len(q) + 1] = v OBVIOUS
<1> QED BY <1>1, <1>2

\* A step that commits no version, informs no socket anew and loses no trace of
\* a version keeps the gap closed.
LEMMA GapKept ==
  ASSUME NoGap, version' = version,
         \A t \in Sockets : t \in members' /\ socket'[t].pc \in Informed =>
             /\ t \in members /\ socket[t].pc \in Informed
             /\ socket'[t].snap = socket[t].snap
             /\ Traced(t) \subseteq Traced(t)',
         members' \subseteq Sockets
  PROVE  NoGap'
<1> SUFFICES ASSUME NEW t \in members', socket'[t].pc \in Informed
             PROVE  Broadcasts \cap ((socket'[t].snap + 1)..version') \subseteq Traced(t)'
  BY DEF NoGap, Traced, Informed
<1>1. Broadcasts \cap ((socket[t].snap + 1)..version) \subseteq Traced(t)
  BY DEF NoGap, Traced, Informed
<1> QED BY <1>1

\* Opening, serving and closing a socket: only its snapshot informs it, and
\* nothing is committed after the snapshot's version at that moment.
LEMMA SocketStepGap ==
  ASSUME NoGap, RegistryInv, RegistryInv', NEW s \in Sockets,
         Admit(s) \/ Hangup(s) \/ HandlerStep(s) \/ DatabaseRaises(s)
  PROVE  NoGap'
<1>0. /\ socket \in [Sockets -> SocketState] /\ socket' \in [Sockets -> SocketState]
      /\ version \in Nat /\ members' \subseteq Sockets
      /\ \A t \in Sockets : t \in members <=> socket[t].pc \in Registered
  BY DEF RegistryInv, RegistryConsistent, TypeOK, Versions
<1>1. CASE Snapshot(s)
  <2>1. /\ UNCHANGED <<members, inbox, version, unsent, heard, lost>>
        /\ \A t \in Sockets : t # s => socket'[t] = socket[t]
        /\ socket'[s].snap = version
    BY <1>0, <1>1 DEF Snapshot, manager, game, clients, SocketState
  <2> SUFFICES ASSUME NEW t \in members', socket'[t].pc \in Informed
               PROVE  Broadcasts \cap ((socket'[t].snap + 1)..version') \subseteq Traced(t)'
    BY DEF NoGap, Traced, Informed
  <2>2. CASE t = s
    <3>1. (socket'[t].snap + 1)..version' = {} BY <1>0, <2>1, <2>2
    <3> QED BY <3>1
  <2>3. CASE t # s
    <3>1. Broadcasts \cap ((socket[t].snap + 1)..version) \subseteq Traced(t)
      BY <1>0, <2>1, <2>3 DEF NoGap, Traced, Informed
    <3>2. Traced(t)' = Traced(t) BY <2>1 DEF Traced
    <3> QED BY <1>0, <2>1, <2>3, <3>1, <3>2
  <2> QED BY <2>2, <2>3
<1>2. CASE Leave(s) /\ members = {s}
  <2>1. members' = {} /\ version' = version BY <1>2 DEF Leave, game
  <2> QED BY <2>1, GapKept
<1>3. CASE ~ Snapshot(s) /\ ~ (Leave(s) /\ members = {s})
  <2>1. UNCHANGED <<inbox, version, unsent, heard, lost>>
    BY <1>3 DEF Admit, Hangup, HandlerStep, DatabaseRaises, Register, FlagUp, SendState,
                SendResults, Leave, Unsubscribed, FlagDown, manager, game, clients
  <2>2. \A t \in Sockets : t # s => socket'[t] = socket[t]
    BY <1>0, <1>3 DEF Admit, Hangup, HandlerStep, DatabaseRaises, Register, FlagUp, SendState,
                      SendResults, Leave, Unsubscribed, FlagDown, Goto
  <2>3. socket'[s].pc \in Informed =>
            socket[s].pc \in Informed /\ socket'[s].snap = socket[s].snap
    <3>1. CASE Admit(s) \/ Register(s) \/ FlagUp(s) \/ Hangup(s) \/ Leave(s)
                 \/ Unsubscribed(s) \/ FlagDown(s) \/ DatabaseRaises(s)
      BY <1>0, <3>1 DEF Admit, Register, FlagUp, Hangup, Leave, Unsubscribed, FlagDown,
                        DatabaseRaises, Goto, Informed, SocketState
    <3>2. CASE SendState(s) \/ SendResults(s)
      BY <1>0, <3>2 DEF SendState, SendResults, Goto, Informed, SocketState
    <3> QED BY <1>3, <3>1, <3>2 DEF HandlerStep
  <2>4. \A t \in Sockets : Traced(t)' = Traced(t) BY <2>1 DEF Traced
  <2>5. \A t \in Sockets : socket[t].pc \in Informed => t \in members
    BY <1>0 DEF Informed, Registered
  <2> QED BY <1>0, <2>1, <2>2, <2>3, <2>4, <2>5, GapKept
<1> QED BY <1>1, <1>2, <1>3

\* A version leaves the game for the subscriber's queue, and the queue for every
\* member or for nobody; a restart leaves no member to miss anything.
LEMMA OtherStepGap ==
  ASSUME NoGap, RegistryInv, RegistryInv',
         \/ SubscriberStep \/ GameStep
         \/ SubscriberFails \/ (\E v \in unsent : PublishRaises(v)) \/ Crash
  PROVE  NoGap'
<1> USE DEF manager, game, clients
<1>0. /\ socket \in [Sockets -> SocketState] /\ members' \subseteq Sockets
      /\ inbox \in Seq(Versions) /\ inbox' \in Seq(Versions) /\ version \in Nat
      /\ unsent \subseteq Versions /\ heard \in [Sockets -> SUBSET Versions]
  BY DEF RegistryInv, RegistryConsistent, TypeOK, Versions
<1>1. CASE Deliver
  <2>1. /\ UNCHANGED <<socket, members, version, unsent, lost>> /\ inbox # <<>>
        /\ inbox' = Tail(inbox)
        /\ \A t \in members : t \in Sockets => heard'[t] = heard[t] \cup {Head(inbox)}
    BY <1>1 DEF Deliver, SendToRoom
  <2>2. {inbox[i] : i \in DOMAIN inbox} \subseteq
            {Head(inbox)} \cup {inbox'[i] : i \in DOMAIN inbox'}
    <3>1. {inbox[i] : i \in DOMAIN inbox} \subseteq
              {Head(inbox)} \cup {Tail(inbox)[i] : i \in DOMAIN Tail(inbox)}
      BY <1>0, <2>1, HeadOrTail
    <3> QED BY <2>1, <3>1
  <2>3. \A t \in members : t \in Sockets => Traced(t) \subseteq Traced(t)'
    BY <2>1, <2>2 DEF Traced
  <2> QED BY <1>0, <2>1, <2>3, GapKept
<1>2. CASE GameMoves
  <2>1. /\ UNCHANGED <<socket, members, inbox, heard, lost>> /\ version' = version + 1
        /\ \/ version' \in Broadcasts /\ unsent' = unsent \cup {version'}
           \/ version' \notin Broadcasts /\ unsent' = unsent
    BY <1>2 DEF GameMoves
  <2> SUFFICES ASSUME NEW t \in members', socket'[t].pc \in Informed,
                      NEW v \in Broadcasts, v \in (socket'[t].snap + 1)..version'
               PROVE  v \in Traced(t)'
    BY DEF NoGap, Traced, Informed
  <2>2. Traced(t) \subseteq Traced(t)' BY <2>1 DEF Traced
  <2>3. CASE v = version + 1 BY <2>1, <2>3 DEF Traced
  <2>4. CASE v # version + 1
    <3>1. socket[t].snap \in Nat BY <1>0, <2>1 DEF SocketState, Versions
    <3>2. v \in (socket[t].snap + 1)..version BY <1>0, <2>1, <2>4, <3>1
    <3>3. v \in Traced(t) BY <2>1, <3>2 DEF NoGap, Traced, Informed
    <3> QED BY <2>2, <3>3
  <2> QED BY <2>3, <2>4
<1>3. ASSUME NEW v \in unsent, Publish(v) PROVE NoGap'
  <2>1. /\ UNCHANGED <<socket, members, version, heard>>
        /\ unsent' = unsent \ {v} /\ v \in Versions
        /\ \/ inbox' = Append(inbox, v) /\ lost' = lost
           \/ inbox' = inbox /\ lost' = lost \cup {v}
    BY <1>0, <1>3 DEF Publish
  <2>2. inbox' = Append(inbox, v) =>
            {inbox[i] : i \in DOMAIN inbox} \cup {v} \subseteq
                {inbox'[i] : i \in DOMAIN inbox'}
    <3>1. {inbox[i] : i \in DOMAIN inbox} \cup {v} \subseteq
              {Append(inbox, v)[i] : i \in DOMAIN Append(inbox, v)}
      BY <1>0, <2>1, Appended
    <3> QED BY <3>1
  <2>3. \A t \in Sockets : Traced(t) \subseteq Traced(t)'
    <3>1. CASE inbox' = Append(inbox, v) /\ lost' = lost BY <2>1, <2>2, <3>1 DEF Traced
    <3>2. CASE inbox' = inbox /\ lost' = lost \cup {v} BY <2>1, <3>2 DEF Traced
    <3> QED BY <2>1, <3>1, <3>2
  <2> QED BY <1>0, <2>1, <2>3, GapKept
<1>4. CASE SubscriberFails
  <2>1. /\ UNCHANGED <<socket, members, version, heard, unsent>>
        /\ lost' = lost \cup {inbox[i] : i \in DOMAIN inbox}
    BY <1>4 DEF SubscriberFails
  <2>2. \A t \in Sockets : Traced(t) \subseteq Traced(t)' BY <2>1 DEF Traced
  <2> QED BY <1>0, <2>1, <2>2, GapKept
<1>5. ASSUME NEW v \in unsent, PublishRaises(v) PROVE NoGap'
  <2>1. /\ UNCHANGED <<socket, members, version, inbox, lost>>
        /\ unsent' = unsent \ {v}
        /\ \A t \in members : t \in Sockets => heard'[t] = heard[t] \cup {v}
    BY <1>5 DEF PublishRaises, SendToRoom
  <2>2. \A t \in members : t \in Sockets => Traced(t) \subseteq Traced(t)'
    BY <2>1 DEF Traced
  <2> QED BY <1>0, <2>1, <2>2, GapKept
<1>6. CASE Crash BY <1>6, GapKept DEF Crash
<1>7. CASE Subscribe \/ SubscriberEnds \/ \E o \in untold : TellFinished(o)
  <2>1. UNCHANGED <<socket, members, inbox, version, heard, unsent, lost>>
    BY <1>7 DEF Subscribe, SubscriberEnds, TellFinished
  <2> QED BY <2>1 DEF NoGap
<1> QED BY <1>1, <1>2, <1>3, <1>4, <1>5, <1>6, <1>7 DEF SubscriberStep, GameStep

\* Whatever the order in which sockets connect, the room moves on and Redis
\* delivers: a version committed after a socket's snapshot reaches it by
\* broadcast, or is still to come, or was published to nobody.
THEOREM NoGapHolds == Spec => []NoGap
<1>1. Init => NoGap BY DEF Init, NoGap
<1>2. NoGap /\ RegistryInv /\ RegistryInv' /\ [Next]_vars => NoGap'
  <2> SUFFICES ASSUME NoGap, RegistryInv, RegistryInv', [Next]_vars PROVE NoGap' OBVIOUS
  <2>1. CASE Next BY <2>1, SocketStepGap, OtherStepGap DEF Next
  <2>2. CASE UNCHANGED vars BY <2>2 DEF vars, manager, game, clients, NoGap
  <2> QED BY <2>1, <2>2
<1> QED BY <1>1, <1>2, RegistryInvariant, PTL DEF Spec

-----------------------------------------------------------------------------
(* What the last socket leaves behind.                                     *)

\* From the flag set in game_players to the flag cleared, or about to be.
Attended == {"snapshot", "state", "results", "serving", "leave", "await_task", "flag_down"}

\* NothingLeftBehind speaks of rooms without sockets only.  Before that, a player
\* with a closed socket is flagged as connected only while another of its sockets
\* will still clear the flag, and as long as nothing failed every one does.
PlayersAccounted ==
    failed = 0 =>
        /\ \A s \in Sockets : ~ socket[s].quiet /\ socket[s].pc # "abandoned"
        /\ \A s \in Sockets : socket[s].pc = "closed" /\ Owner[s] # Host =>
               \/ ~ connected[Owner[s]]
               \/ \E t \in Sockets : Owner[t] = Owner[s] /\ socket[t].pc \in Attended

\* Opening, serving and closing a socket: the flag goes up before the socket is
\* attended to and down after it, and a closing socket of the host has none.
LEMMA SocketStepAccounted ==
  ASSUME PlayersAccounted, RegistryInv, NEW s \in Sockets,
         Admit(s) \/ Hangup(s) \/ HandlerStep(s) \/ DatabaseRaises(s)
  PROVE  PlayersAccounted'
<1> SUFFICES ASSUME failed' = 0
             PROVE  /\ \A u \in Sockets : ~ socket'[u].quiet /\ socket'[u].pc # "abandoned"
                    /\ \A u \in Sockets : socket'[u].pc = "closed" /\ Owner[u] # Host =>
                           \/ ~ connected'[Owner[u]]
                           \/ \E t \in Sockets : /\ Owner[t] = Owner[u]
                                                 /\ socket'[t].pc \in Attended
  BY DEF PlayersAccounted
<1>0. /\ socket \in [Sockets -> SocketState] /\ failed \in Nat
      /\ Owner \in [Sockets -> Owners] /\ Host \notin Players
      /\ connected \in [Players -> BOOLEAN]
  BY OwnerAssumption, FailureAssumption DEF RegistryInv, TypeOK
<1>a. ~ DatabaseRaises(s) BY <1>0 DEF DatabaseRaises, Fail
<1>b. failed = 0
  BY <1>a DEF Admit, Hangup, HandlerStep, Register, FlagUp, Snapshot, SendState,
              SendResults, Leave, Unsubscribed, FlagDown
<1>c. /\ \A u \in Sockets : ~ socket[u].quiet /\ socket[u].pc # "abandoned"
      /\ \A u \in Sockets : socket[u].pc = "closed" /\ Owner[u] # Host =>
             \/ ~ connected[Owner[u]]
             \/ \E t \in Sockets : Owner[t] = Owner[u] /\ socket[t].pc \in Attended
  BY <1>b DEF PlayersAccounted
<1>d. ~ socket[s].quiet BY <1>c
<1>1. CASE FlagUp(s)
  <2>1. /\ \A t \in Sockets : t # s => socket'[t] = socket[t]
        /\ socket'[s].pc = "snapshot" /\ socket'[s].quiet = socket[s].quiet
        /\ socket[s].pc = "flag_up"
        /\ \A p \in Players : p # Owner[s] => connected'[p] = connected[p]
    BY <1>0, <1>1 DEF FlagUp, Goto, SocketState
  <2>2. \A u \in Sockets : Owner[u] # Host => Owner[u] \in Players BY <1>0 DEF Owners
  <2> QED BY <1>c, <2>1, <2>2 DEF Attended
<1>2. CASE FlagDown(s)
  <2>1. /\ \A t \in Sockets : t # s => socket'[t] = socket[t]
        /\ socket'[s].pc = "closed" /\ socket'[s].quiet = socket[s].quiet
        /\ \A p \in Players : connected'[p] = IF p = Owner[s] THEN FALSE ELSE connected[p]
    BY <1>0, <1>2 DEF FlagDown, Goto, SocketState
  <2>2. \A u \in Sockets : ~ socket'[u].quiet /\ socket'[u].pc # "abandoned"
    BY <1>c, <2>1
  <2>3. ASSUME NEW u \in Sockets, socket'[u].pc = "closed", Owner[u] # Host
        PROVE  \/ ~ connected'[Owner[u]]
               \/ \E t \in Sockets : Owner[t] = Owner[u] /\ socket'[t].pc \in Attended
    <3>1. Owner[u] \in Players BY <1>0, <2>3 DEF Owners
    <3>2. CASE Owner[u] = Owner[s] BY <2>1, <3>1, <3>2
    <3>3. CASE Owner[u] # Owner[s]
      <4>1. \/ ~ connected[Owner[u]]
            \/ \E t \in Sockets : Owner[t] = Owner[u] /\ socket[t].pc \in Attended
        BY <1>c, <2>1, <2>3, <3>3
      <4> QED BY <2>1, <3>1, <3>3, <4>1
    <3> QED BY <3>2, <3>3
  <2> QED BY <2>2, <2>3
<1>3. CASE Leave(s) \/ Unsubscribed(s)
  <2>1. /\ \A t \in Sockets : t # s => socket'[t] = socket[t]
        /\ socket'[s].quiet = socket[s].quiet
        /\ connected' = connected /\ socket[s].pc \in Attended
        /\ socket'[s].pc \in Attended \/ (Owner[s] = Host /\ socket'[s].pc = "closed")
    BY <1>0, <1>3, <1>d DEF Leave, Unsubscribed, Goto, SocketState, Attended
  <2> QED BY <1>c, <2>1 DEF Attended
<1>4. CASE Admit(s) \/ Hangup(s) \/ Register(s) \/ Snapshot(s) \/ SendState(s) \/ SendResults(s)
  <2>1. /\ \A t \in Sockets : t # s => socket'[t] = socket[t]
        /\ socket'[s].quiet = socket[s].quiet
        /\ connected' = connected /\ socket'[s].pc \notin {"closed", "abandoned"}
        /\ socket[s].pc \in Attended => socket'[s].pc \in Attended
    <3>1. CASE Admit(s) \/ Snapshot(s)
      BY <1>0, <3>1 DEF Admit, Snapshot, SocketState, Attended
    <3>2. CASE Hangup(s) \/ Register(s)
      BY <1>0, <3>2 DEF Hangup, Register, Goto, SocketState, Attended
    <3>3. CASE SendState(s) \/ SendResults(s)
      BY <1>0, <3>3 DEF SendState, SendResults, Goto, SocketState, Attended
    <3> QED BY <1>4, <3>1, <3>2, <3>3
  <2> QED BY <1>c, <2>1
<1> QED BY <1>a, <1>1, <1>2, <1>3, <1>4 DEF HandlerStep

\* As long as nothing fails, a room whose sockets are all closed has no entry, no
\* subscriber and no lock left, and no player of it is flagged as connected.
THEOREM NothingLeftBehindHolds == Spec => []NothingLeftBehind
<1>1. Init => PlayersAccounted BY DEF Init, Outside, PlayersAccounted
<1>2. PlayersAccounted /\ RegistryInv /\ [Next]_vars => PlayersAccounted'
  <2> SUFFICES ASSUME PlayersAccounted, RegistryInv, [Next]_vars PROVE PlayersAccounted'
    OBVIOUS
  <2>1. CASE \E s \in Sockets : Admit(s) \/ Hangup(s) \/ HandlerStep(s) \/ DatabaseRaises(s)
    BY <2>1, SocketStepAccounted
  <2>2. CASE SubscriberFails \/ (\E v \in unsent : PublishRaises(v)) \/ Crash
    <3>1. failed \in Nat /\ failed' = failed + 1
      BY <2>2, FailureAssumption
         DEF SubscriberFails, PublishRaises, Crash, Fail, RegistryInv, TypeOK
    <3> QED BY <3>1 DEF PlayersAccounted
  <2>3. CASE SubscriberStep \/ GameStep
    <3>1. UNCHANGED <<socket, connected, failed>>
      BY <2>3 DEF SubscriberStep, Subscribe, Deliver, SubscriberEnds,
                  GameStep, GameMoves, Publish, TellFinished
    <3> QED BY <3>1 DEF PlayersAccounted
  <2>4. CASE UNCHANGED vars BY <2>4 DEF vars, PlayersAccounted
  <2> QED BY <2>1, <2>2, <2>3, <2>4 DEF Next
<1>3. PlayersAccounted /\ RegistryInv => NothingLeftBehind
  <2> SUFFICES ASSUME PlayersAccounted, RegistryInv, failed = 0,
                      \A s \in Sockets : socket[s].pc \in {"outside", "register", "closed"}
               PROVE  /\ members = {} /\ lock = None /\ subscriber = "absent"
                      /\ \A o \in Owners : registry[o] = None
                      /\ \A s \in Sockets :
                             socket[s].pc = "closed" /\ Owner[s] # Host => ~ connected[Owner[s]]
    BY DEF NothingLeftBehind
  <2>1. members = {} BY DEF RegistryInv, RegistryConsistent, Registered
  <2>2. lock = None BY DEF RegistryInv, TypeOK
  <2>3. subscriber = "absent" /\ \A o \in Owners : registry[o] = None
    BY <2>1, <2>2 DEF RegistryInv, RegistryConsistent
  <2>4. \A s \in Sockets :
            socket[s].pc = "closed" /\ Owner[s] # Host => ~ connected[Owner[s]]
    BY DEF PlayersAccounted, Attended
  <2> QED BY <2>1, <2>2, <2>3, <2>4
<1> QED BY <1>1, <1>2, <1>3, RegistryInvariant, PTL DEF Spec

-----------------------------------------------------------------------------
(* The results of a finished game.                                         *)

\* Who connects has no other socket: where two share an owner, each takes the
\* other's place in the registry, and ResultsSeen fails.
OneSocketEach == \A s, t \in Sockets : Owner[s] = Owner[t] => s = t

\* A socket in service has its owner's entry, so that what is sent to its owner is
\* sent to it, as were the results if it was admitted to a finished game.
ResultsInv ==
    \A s \in Sockets :
        /\ socket[s].pc \in Registered => registry[Owner[s]] = s
        /\ socket[s].pc = "serving" /\ socket[s].seen = LastVersion => s \in told

\* Opening, serving and closing a socket leave the entries of the others alone.
LEMMA SocketStepResults ==
  ASSUME OneSocketEach, ResultsInv, RegistryInv, NEW s \in Sockets,
         Admit(s) \/ Hangup(s) \/ HandlerStep(s) \/ DatabaseRaises(s)
  PROVE  ResultsInv'
<1>0. /\ socket \in [Sockets -> SocketState] /\ registry \in [Owners -> Sockets \cup {None}]
      /\ \A t \in Sockets : Owner[t] \in Owners
      /\ s # None
  BY OwnerAssumption, NoneAssumption DEF RegistryInv, TypeOK
<1>a. \A t \in Sockets : t # s => Owner[t] # Owner[s] BY DEF OneSocketEach
<1>b. \A t \in Sockets : t # s => socket'[t] = socket[t]
  BY <1>0 DEF Admit, Hangup, HandlerStep, DatabaseRaises, Register, FlagUp, Snapshot,
              SendState, SendResults, Leave, Unsubscribed, FlagDown, Goto
<1>c. \A t \in Sockets : t # s => registry'[Owner[t]] = registry[Owner[t]]
  <2>1. CASE Register(s) \/ Leave(s) \/ Unsubscribed(s)
    BY <1>0, <1>a, <2>1 DEF Register, Leave, Unsubscribed
  <2>2. CASE ~ (Register(s) \/ Leave(s) \/ Unsubscribed(s))
    BY <2>2 DEF Admit, Hangup, HandlerStep, DatabaseRaises, FlagUp, Snapshot, SendState,
                SendResults, FlagDown, manager
  <2> QED BY <2>1, <2>2
<1>d. told \subseteq told'
  BY DEF Admit, Hangup, HandlerStep, DatabaseRaises, Register, FlagUp, Snapshot, SendState,
         SendResults, Leave, Unsubscribed, FlagDown, Tell, clients
<1> SUFFICES /\ socket'[s].pc \in Registered => registry'[Owner[s]] = s
             /\ socket'[s].pc = "serving" /\ socket'[s].seen = LastVersion => s \in told'
  BY <1>b, <1>c, <1>d DEF ResultsInv
<1>1. CASE Register(s)
  <2>1. socket'[s].pc \in {"snapshot", "flag_up"} /\ registry'[Owner[s]] = s
    BY <1>0, <1>1 DEF Register, Goto, SocketState
  <2> QED BY <2>1
<1>2. CASE Leave(s) \/ Unsubscribed(s) \/ Admit(s) \/ FlagDown(s)
  <2>1. socket'[s].pc \in {"await_task", "closed", "flag_down", "register"}
    BY <1>0, <1>2 DEF Leave, Unsubscribed, Admit, FlagDown, Goto, SocketState
  <2> QED BY <2>1 DEF Registered
<1>3. CASE Hangup(s) \/ FlagUp(s) \/ Snapshot(s) \/ SendState(s)
  <2>1. /\ registry' = registry /\ socket[s].pc \in Registered
        /\ socket'[s].pc # "serving" \/ socket'[s].seen # LastVersion
    BY <1>0, <1>3 DEF Hangup, FlagUp, Snapshot, SendState, Goto, SocketState, Registered,
                      manager
  <2> QED BY <2>1 DEF ResultsInv
<1>4. CASE SendResults(s)
  <2>1. registry' = registry /\ registry[Owner[s]] = s
    BY <1>4 DEF SendResults, manager, ResultsInv, Registered
  <2>2. s \in told' BY <1>0, <1>4, <2>1 DEF SendResults, Tell
  <2> QED BY <2>1, <2>2
<1>5. CASE DatabaseRaises(s)
  <2>1. /\ registry' = registry /\ socket'[s].pc # "serving"
        /\ socket'[s].pc \in Registered => socket[s].pc \in Registered
    BY <1>0, <1>5 DEF DatabaseRaises, Goto, SocketState, Registered, manager
  <2> QED BY <2>1 DEF ResultsInv
<1> QED BY <1>1, <1>2, <1>3, <1>4, <1>5 DEF HandlerStep

\* With its only socket, who is served is registered, whatever happens to others.
LEMMA ResultsInvariant ==
  ASSUME OneSocketEach
  PROVE  Spec => []ResultsInv
<1>1. Init => ResultsInv BY DEF Init, Outside, ResultsInv, Registered
<1>2. ResultsInv /\ RegistryInv /\ [Next]_vars => ResultsInv'
  <2> SUFFICES ASSUME ResultsInv, RegistryInv, [Next]_vars PROVE ResultsInv' OBVIOUS
  <2>1. CASE \E s \in Sockets : Admit(s) \/ Hangup(s) \/ HandlerStep(s) \/ DatabaseRaises(s)
    BY <2>1, SocketStepResults
  <2>2. CASE Crash
    <3>1. \A s \in Sockets : socket'[s].pc \in {"outside", "closed"}
      BY <2>2 DEF Crash, RegistryInv, TypeOK, SocketState
    <3> QED BY <3>1 DEF ResultsInv, Registered
  <2>3. CASE SubscriberStep \/ GameStep \/ SubscriberFails \/ (\E v \in unsent : PublishRaises(v))
    <3>1. UNCHANGED <<socket, registry>> /\ told \subseteq told'
      BY <2>3 DEF SubscriberStep, Subscribe, Deliver, SubscriberEnds, GameStep, GameMoves,
                  Publish, TellFinished, SubscriberFails, PublishRaises, SendToRoom, Tell,
                  manager, clients
    <3> QED BY <3>1 DEF ResultsInv
  <2>4. CASE UNCHANGED vars BY <2>4 DEF vars, manager, clients, ResultsInv
  <2> QED BY <2>1, <2>2, <2>3, <2>4 DEF Next
<1> QED BY <1>1, <1>2, RegistryInvariant, PTL DEF Spec

\* Whenever the game ends and whatever fails: who connects to a finished game with
\* its only socket has been sent the final leaderboard when its loop begins.
THEOREM ResultsSeenHolds ==
  ASSUME OneSocketEach
  PROVE  Spec => []ResultsSeen
<1>1. ResultsInv => ResultsSeen BY DEF ResultsInv, ResultsSeen
<1> QED BY <1>1, ResultsInvariant, PTL

-----------------------------------------------------------------------------
(* The end of the game.                                                    *)

\* Who heard the last broadcast was told of the end by it.
HeardIsTold == \A s \in Sockets : LastVersion \in heard[s] => s \in told

\* With private results nothing is broadcast at the end, and NoGap says nothing of
\* it: who has its snapshot by then is told, or on end_game's list.
ToldOneByOne ==
    ~ PublicResults /\ version = LastVersion =>
        \A s \in Sockets : socket[s].pc \in Informed =>
            socket[s].snap = LastVersion \/ s \in told \/ Owner[s] \in untold

\* A broadcast of the last version tells every socket it reaches.
LEMMA BroadcastTells ==
  ASSUME TypeOK, HeardIsTold, NEW v \in Versions, SendToRoom(v)
  PROVE  HeardIsTold' /\ told \subseteq told'
<1>1. \A s \in Sockets :
          heard'[s] = IF s \in members THEN heard[s] \cup {v} ELSE heard[s]
  BY DEF SendToRoom
<1> QED BY <1>1 DEF SendToRoom, HeardIsTold

LEMMA HeardIsToldStep ==
  ASSUME TypeOK, HeardIsTold, [Next]_vars
  PROVE  HeardIsTold' /\ told \subseteq told'
<1>1. CASE Deliver
  <2>1. Head(inbox) \in Versions BY <1>1 DEF Deliver, TypeOK
  <2> QED BY <1>1, <2>1, BroadcastTells DEF Deliver
<1>2. CASE \E v \in unsent : PublishRaises(v)
  <2>1. unsent \subseteq Versions BY DEF TypeOK
  <2> QED BY <1>2, <2>1, BroadcastTells DEF PublishRaises
<1>3. ASSUME ~ Deliver, ~ \E v \in unsent : PublishRaises(v)
      PROVE  heard' = heard /\ told \subseteq told'
  <2>1. CASE \E s \in Sockets : Admit(s) \/ Hangup(s) \/ HandlerStep(s) \/ DatabaseRaises(s)
    BY <2>1 DEF Admit, Hangup, HandlerStep, DatabaseRaises, Register, FlagUp, Snapshot,
        SendState, SendResults, Leave, Unsubscribed, FlagDown, Tell, clients
  <2>2. CASE SubscriberStep \/ GameStep \/ SubscriberFails \/ Crash
    BY <1>3, <2>2 DEF SubscriberStep, Subscribe, SubscriberEnds, GameStep, GameMoves,
        Publish, TellFinished, SubscriberFails, Crash, Tell, clients
  <2> QED BY <1>3, <2>1, <2>2 DEF Next, vars, clients
<1> QED BY <1>1, <1>2, <1>3 DEF HeardIsTold

\* Opening, serving and closing a socket: a snapshot taken after the end says so.
LEMMA SocketStepTold ==
  ASSUME TypeOK, ToldOneByOne, told \subseteq told', NEW s \in Sockets,
         Admit(s) \/ Hangup(s) \/ HandlerStep(s) \/ DatabaseRaises(s)
  PROVE  ToldOneByOne'
<1>0. socket \in [Sockets -> SocketState] BY DEF TypeOK
<1>1. version' = version /\ untold' = untold
  BY DEF Admit, Hangup, HandlerStep, DatabaseRaises, Register, FlagUp, Snapshot,
     SendState, SendResults, Leave, Unsubscribed, FlagDown, game
<1>2. \A t \in Sockets : t # s => socket'[t] = socket[t]
  BY <1>0 DEF Admit, Hangup, HandlerStep, DatabaseRaises, Register, FlagUp, Snapshot,
              SendState, SendResults, Leave, Unsubscribed, FlagDown, Goto
<1>3. socket'[s].pc \in Informed =>
          \/ socket'[s].snap = version
          \/ socket[s].pc \in Informed /\ socket'[s].snap = socket[s].snap
  <2>1. CASE Snapshot(s) BY <1>0, <2>1 DEF Snapshot, SocketState
  <2>2. CASE SendState(s) \/ SendResults(s)
    BY <1>0, <2>2 DEF SendState, SendResults, Goto, SocketState, Informed
  <2>3. CASE Admit(s) \/ Hangup(s) \/ Register(s) \/ FlagUp(s)
    BY <1>0, <2>3 DEF Admit, Hangup, Register, FlagUp, Goto, SocketState, Informed
  <2>4. CASE Leave(s) \/ Unsubscribed(s) \/ FlagDown(s) \/ DatabaseRaises(s)
    BY <1>0, <2>4 DEF Leave, Unsubscribed, FlagDown, DatabaseRaises, Goto, SocketState,
                      Informed
  <2> QED BY <2>1, <2>2, <2>3, <2>4 DEF HandlerStep
<1> QED BY <1>1, <1>2, <1>3 DEF ToldOneByOne

\* With its only socket, who is served was sent the state that was read for it.
SnapShown ==
    \A s \in Sockets :
        socket[s].pc \in {"results", "serving"} => socket[s].snap \in shown[s]

LEMMA SnapShownStep ==
  ASSUME TypeOK, ResultsInv, SnapShown, [Next]_vars
  PROVE  SnapShown'
<1>0. socket \in [Sockets -> SocketState] /\ shown \in [Sockets -> SUBSET Versions]
  BY DEF TypeOK
<1>1. ASSUME NEW s \in Sockets, SendState(s) PROVE SnapShown'
  <2>1. /\ registry[Owner[s]] = s
        /\ shown' = [r \in Sockets |-> IF r = registry[Owner[s]]
                                      THEN shown[r] \cup {socket[s].snap} ELSE shown[r]]
    BY <1>1 DEF SendState, Show, ResultsInv, Registered
  <2>2. /\ \A t \in Sockets : t # s => socket'[t] = socket[t]
        /\ socket'[s].snap = socket[s].snap
    BY <1>0, <1>1 DEF SendState, Goto, SocketState
  <2> QED BY <2>1, <2>2 DEF SnapShown
<1>2. ASSUME NEW s \in Sockets, ~ SendState(s),
             Admit(s) \/ Hangup(s) \/ HandlerStep(s) \/ DatabaseRaises(s)
      PROVE  SnapShown'
  <2>1. shown' = shown
    BY <1>2 DEF Admit, Hangup, HandlerStep, DatabaseRaises, Register, FlagUp, Snapshot,
       SendResults, Leave, Unsubscribed, FlagDown, clients
  <2>2. \A t \in Sockets : t # s => socket'[t] = socket[t]
    BY <1>0, <1>2 DEF Admit, Hangup, HandlerStep, DatabaseRaises, Register, FlagUp,
       Snapshot, SendResults, Leave, Unsubscribed, FlagDown, Goto
  <2>3. socket'[s].pc \in {"results", "serving"} =>
            socket[s].pc = "results" /\ socket'[s].snap = socket[s].snap
    <3>1. CASE SendResults(s)
      BY <1>0, <3>1 DEF SendResults, Goto, SocketState
    <3>2. CASE Admit(s) \/ Hangup(s) \/ Register(s) \/ FlagUp(s) \/ Snapshot(s)
      BY <1>0, <3>2 DEF Admit, Hangup, Register, FlagUp, Snapshot, Goto, SocketState
    <3>3. CASE Leave(s) \/ Unsubscribed(s) \/ FlagDown(s) \/ DatabaseRaises(s)
      BY <1>0, <3>3 DEF Leave, Unsubscribed, FlagDown, DatabaseRaises, Goto, SocketState
    <3> QED BY <1>2, <3>1, <3>2, <3>3 DEF HandlerStep
  <2> QED BY <2>1, <2>2, <2>3 DEF SnapShown
<1>3. CASE Crash
  <2>1. \A s \in Sockets : socket'[s].pc \in {"outside", "closed"}
    BY <1>0, <1>3 DEF Crash, SocketState
  <2> QED BY <2>1 DEF SnapShown
<1>4. CASE \/ SubscriberStep \/ GameStep \/ SubscriberFails
           \/ (\E v \in unsent : PublishRaises(v)) \/ UNCHANGED vars
  <2>1. UNCHANGED <<socket, shown>>
    BY <1>4 DEF SubscriberStep, Subscribe, Deliver, SubscriberEnds, GameStep, GameMoves,
       Publish, TellFinished, SubscriberFails, PublishRaises, vars, clients
  <2> QED BY <2>1 DEF SnapShown
<1> QED BY <1>1, <1>2, <1>3, <1>4 DEF Next

\* The end puts every owner on end_game's list, and who is taken off it is told
\* through its entry, which is its socket's.
LEMMA OtherStepTold ==
  ASSUME TypeOK, ToldOneByOne, ResultsInv, told \subseteq told',
         \/ SubscriberStep \/ GameStep \/ SubscriberFails
         \/ (\E v \in unsent : PublishRaises(v)) \/ Crash
  PROVE  ToldOneByOne'
<1>1. CASE GameMoves
  <2>1. /\ version \in Nat /\ LastVersion \in Nat /\ version' = version + 1
        /\ \A s \in Sockets : Owner[s] \in Owners
    BY <1>1, VersionAssumption, OwnerAssumption DEF GameMoves, TypeOK, Versions
  <2>2. ~ PublicResults /\ version' = LastVersion => untold' = Owners
    BY <1>1, <2>1 DEF GameMoves, Broadcasts
  <2> QED BY <2>1, <2>2 DEF ToldOneByOne
<1>2. ASSUME NEW o \in untold, TellFinished(o) PROVE ToldOneByOne'
  <2>1. /\ UNCHANGED <<socket, version, registry>> /\ untold' = untold \ {o}
        /\ told' = told \cup ({registry[o]} \ {None})
    BY <1>2 DEF TellFinished, Tell, manager
  <2>2. \A s \in Sockets : Owner[s] = o /\ socket[s].pc \in Informed => s \in told'
    BY <2>1, NoneAssumption DEF ResultsInv, Registered, Informed
  <2> QED BY <2>1, <2>2 DEF ToldOneByOne
<1>3. CASE Crash
  <2>1. \A s \in Sockets : socket'[s].pc \in {"outside", "closed"}
    BY <1>3 DEF Crash, TypeOK, SocketState
  <2> QED BY <2>1 DEF ToldOneByOne, Informed
<1>4. CASE \/ SubscriberStep \/ (\E v \in unsent : Publish(v)) \/ SubscriberFails
           \/ \E v \in unsent : PublishRaises(v)
  <2>1. UNCHANGED <<socket, version, untold>>
    BY <1>4 DEF SubscriberStep, Subscribe, Deliver, SubscriberEnds, Publish,
        SubscriberFails, PublishRaises, game
  <2> QED BY <2>1 DEF ToldOneByOne
<1> QED BY <1>1, <1>2, <1>3, <1>4 DEF GameStep

\* Wherever the end of the game falls between the admission of a socket and its
\* service, and whether it is broadcast or told one by one: who is served, with its only
\* socket, knows of it, or is about to be told, or the message was lost.  With several
\* sockets per owner neither a ROOM_STATE nor the results need reach the one they are for.
THEOREM EndKnownHolds ==
  ASSUME OneSocketEach
  PROVE  Spec => []EndKnown
<1>1. Spec => []HeardIsTold
  <2>1. Init => HeardIsTold BY DEF Init, HeardIsTold
  <2>2. TypeOK /\ HeardIsTold /\ [Next]_vars => HeardIsTold' BY HeardIsToldStep
  <2> QED BY <2>1, <2>2, TypeCorrect, PTL DEF Spec
<1>2. Spec => []ResultsInv BY ResultsInvariant
<1>3. Spec => []SnapShown
  <2>1. Init => SnapShown BY DEF Init, Outside, SnapShown
  <2>2. TypeOK /\ ResultsInv /\ SnapShown /\ [Next]_vars => SnapShown' BY SnapShownStep
  <2> QED BY <1>2, <2>1, <2>2, TypeCorrect, PTL DEF Spec
<1>4. Spec => []ToldOneByOne
  <2>1. Init => ToldOneByOne BY DEF Init, Outside, ToldOneByOne, Informed
  <2>2. TypeOK /\ HeardIsTold /\ ResultsInv /\ ToldOneByOne /\ [Next]_vars => ToldOneByOne'
    <3> SUFFICES ASSUME TypeOK, HeardIsTold, ResultsInv, ToldOneByOne, [Next]_vars
                 PROVE  ToldOneByOne'
      OBVIOUS
    <3>1. told \subseteq told' BY HeardIsToldStep
    <3>2. CASE Next BY <3>1, <3>2, SocketStepTold, OtherStepTold DEF Next
    <3>3. CASE UNCHANGED vars BY <3>3 DEF vars, game, clients, ToldOneByOne
    <3> QED BY <3>2, <3>3
  <2> QED BY <1>1, <1>2, <2>1, <2>2, TypeCorrect, PTL DEF Spec
<1>5. RegistryInv /\ NoGap /\ HeardIsTold /\ SnapShown /\ ToldOneByOne => EndKnown
  <2> SUFFICES ASSUME RegistryInv, NoGap, HeardIsTold, SnapShown, ToldOneByOne,
                      version = LastVersion,
                      NEW s \in Sockets, socket[s].pc \in {"results", "serving"},
                      LastVersion \notin shown[s], s \notin told, Owner[s] \notin untold
               PROVE  LastVersion \in unsent \cup lost \cup {inbox[i] : i \in DOMAIN inbox}
    BY DEF EndKnown
  <2>1. socket[s].snap # LastVersion /\ socket[s].pc \in Informed
    BY DEF SnapShown, Informed
  <2>2. PublicResults BY <2>1 DEF ToldOneByOne
  <2>3. s \in members
    BY DEF RegistryInv, RegistryConsistent, Registered
  <2>4. socket[s].snap \in 0..LastVersion /\ LastVersion \in Nat \ {0}
    BY VersionAssumption DEF RegistryInv, TypeOK, SocketState, Versions
  <2>5. LastVersion \in Broadcasts \cap ((socket[s].snap + 1)..version)
    BY <2>1, <2>2, <2>4 DEF Broadcasts
  <2>6. LastVersion \notin heard[s] BY DEF HeardIsTold
  <2> QED BY <2>1, <2>3, <2>5, <2>6 DEF NoGap, Informed
<1> QED BY <1>1, <1>3, <1>4, <1>5, RegistryInvariant, NoGapHolds, PTL

=============================================================================
