--------------------------- MODULE EventLoopProofs ---------------------------
(***************************************************************************)
(* Proofs about EventLoop, for any number of clients, descriptors and      *)
(* channels, any budgets and caps, and every fault: the server keeps       *)
(* listening, descriptors carry nothing over to the next client, and no    *)
(* client that waits is forgotten.                                         *)
(***************************************************************************)
EXTENDS EventLoop, TLAPS

-----------------------------------------------------------------------------
(* The inductive invariant behind RoutesAreOwn.                             *)

ConnTypes ==
  /\ peer \in [Conns -> {"none", "queued", "refused", "alive", "midway", "gone"}]
  /\ state \in [Conns -> {"new", "open", "closed"}]
  /\ fd \in [Conns -> Fds \cup {NoFd}]
  /\ clients \in [Fds -> Conns \cup {NoClient}]

RouteTypes ==
  /\ client_rooms \in [Fds -> {NoRoom, "default", "attic"}]
  /\ client_subscriptions \in [Fds -> SUBSET Channels]
  /\ channel_subscribers \in [Channels -> SUBSET Fds]
  /\ ownRoom \in [Conns -> {NoRoom, "default", "attic"}]
  /\ ownChannels \in [Conns -> SUBSET Channels]

(* The registry and the clients agree; a client that is not open has asked *)
(* for nothing; a connection in the queue of the listener has no Client.   *)
Registry ==
  /\ \A c \in Conns : state[c] = "open" => fd[c] \in Fds /\ clients[fd[c]] = c
  /\ \A f \in Fds : clients[f] # NoClient =>
       state[clients[f]] = "open" /\ fd[clients[f]] = f
  /\ \A c \in Conns : state[c] # "open" => ownRoom[c] = NoRoom /\ ownChannels[c] = {}
  /\ \A c \in Conns : peer[c] \in {"none", "queued"} => state[c] = "new"

Routes == ConnTypes /\ RouteTypes /\ Registry /\ RoutesAreOwn

(* Whose turn it is: an open client's, which only a publication can close, *)
(* or nobody's.  A snapshot of clients exists only inside the pump and the *)
(* sweep.                                                                  *)
TurnShape ==
  /\ turn \in [at : {"wait", "read", "flush", "serve", "publish", "pump", "sweep"},
               who : Conns \cup {NoClient}, via : {"read", "pump"}, todo : SUBSET Conns,
               pos : Nat, n : Nat, targets : SUBSET Fds]
  /\ turn.at \in {"wait", "pump", "sweep"} <=> turn.who = NoClient
  /\ turn.at \in {"read", "flush", "serve"} => state[turn.who] = "open"
  /\ turn.at \in {"wait", "read", "flush"} => turn.todo = {} /\ turn.via = "read"
  /\ turn.at \in {"serve", "publish"} /\ turn.via = "read" => turn.todo = {}

-----------------------------------------------------------------------------
(* Listening.                                                              *)

(* StillListening: arm_listener() either arms or pauses, whoever calls it, *)
(* a failed accept pauses, and a completion can only be lost while the     *)
(* first wait still has its timeout.                                       *)
THEOREM StillListeningHolds == Spec => []StillListening
<1> DEFINE I == accepts \in Nat /\ StillListening
<1>1. Init => I
  BY DEF Init, StillListening
<1>2. ASSUME I, [Next]_vars PROVE I'
  <2>1. CASE UNCHANGED vars
    BY <1>2, <2>1 DEF vars, acceptVars, StillListening
  <2>2. CASE \E c \in Conns, f \in Fds : AcceptClient(c, f)
    BY <1>2, <2>2 DEF AcceptClient, ArmListener, StillListening
  <2>3. CASE \E c \in Conns : AcceptRefused(c)
    BY <1>2, <2>3 DEF AcceptRefused, ArmListener, StillListening
  <2>4. CASE AcceptFails
    BY <1>2, <2>4 DEF AcceptFails, ArmListener, StillListening
  <2>5. CASE CqeLost
    BY <1>2, <2>5 DEF CqeLost, StillListening
  <2>6. CASE FirstWaitTimeout
    BY <1>2, <2>6 DEF FirstWaitTimeout, ArmListener, StillListening
  <2>7. CASE EndSweep
    BY <1>2, <2>7 DEF EndSweep, ArmListener, StillListening
  <2>8. CASE PeerStep \/ EventfdCompletes \/ TurnStep \/ Sweep
    <3>1. UNCHANGED acceptVars
      BY <2>8, Zenon DEF PeerStep, Connect, PeerReads, PeerCloses, PeerSends, EventfdCompletes,
        Sweep, TurnStep, PumpDone, Deliver, FlushTurn, ReadTurn, Authenticate, NoAuth,
        Execute, EndPublish, LastAnswer, EndServe, PumpNext, CloseLate, Publish
    <3> QED BY <1>2, <3>1 DEF acceptVars, StillListening
  <2>9. CASE EventfdReady \/ SubmitBacklog \/ \E c \in Conns :
               ReadReady(c) \/ WriteReady(c) \/ \E dir \in {"in", "out"} : StaleTicket(c, dir)
    <3>1. UNCHANGED acceptVars
      BY <2>9, Zenon DEF EventfdReady, SubmitBacklog, ReadReady, WriteReady, StaleTicket
    <3> QED BY <1>2, <3>1 DEF acceptVars, StillListening
  <2> QED
    BY <1>2, <2>1, <2>2, <2>3, <2>4, <2>5, <2>6, <2>7, <2>8, <2>9 DEF Next, Completion
<1>3. I => StillListening
  OBVIOUS
<1> QED
  BY <1>1, <1>2, <1>3, PTL DEF Spec

-----------------------------------------------------------------------------
(* Routes                                                                  *)

LEMMA RoutesUnchanged ==
  ASSUME Routes, UNCHANGED <<peer, idVars, dbVars, ownRoom, ownChannels>>
  PROVE  Routes'
BY DEF Routes, ConnTypes, RouteTypes, Registry, RoutesAreOwn, idVars, dbVars

(* schedule_close() takes the routes of the client with it.                *)
LEMMA CloseKeepsRoutes ==
  ASSUME Routes, NEW c \in Conns, Close(c)
  PROVE  /\ Routes'
         /\ \A d \in Conns : d # c => state'[d] = state[d]
<1>1. CASE state[c] = "closed" /\ UNCHANGED <<peerVars, idVars, bufVars, dbVars, ghostVars>>
  <2>1. UNCHANGED <<peer, idVars, dbVars, ownRoom, ownChannels>>
    BY <1>1 DEF peerVars, ghostVars
  <2> QED BY <2>1, RoutesUnchanged DEF idVars
<1>2. CASE /\ state[c] = "open"
           /\ state' = [state EXCEPT ![c] = "closed"]
           /\ CleanupClient(fd[c])
           /\ clients' = [clients EXCEPT ![fd[c]] = NoClient]
           /\ UNCHANGED fd
           /\ Forget(c)
  <2>1. fd[c] \in Fds /\ clients[fd[c]] = c /\ c # NoClient
    BY <1>2, ConnsAssumption, Zenon DEF Routes, Registry, NoClient
  <2>2. ConnTypes'
    BY <1>2, <2>1 DEF Routes, ConnTypes, Forget
  <2>3. RouteTypes'
    BY <1>2, <2>1 DEF Routes, RouteTypes, Forget, CleanupClient
  <2>4. Registry'
    <3>1. ASSUME NEW d \in Conns, state'[d] = "open"
          PROVE  fd'[d] \in Fds /\ clients'[fd'[d]] = d
      BY <1>2, <2>1, <3>1 DEF Routes, ConnTypes, Registry
    <3>2. ASSUME NEW f \in Fds, clients'[f] # NoClient
          PROVE  state'[clients'[f]] = "open" /\ fd'[clients'[f]] = f
      BY <1>2, <2>1, <3>2 DEF Routes, ConnTypes, Registry
    <3>3. ASSUME NEW d \in Conns, state'[d] # "open"
          PROVE  ownRoom'[d] = NoRoom /\ ownChannels'[d] = {}
      BY <1>2, <3>3 DEF Routes, ConnTypes, RouteTypes, Registry, Forget
    <3>4. ASSUME NEW d \in Conns, peer'[d] \in {"none", "queued"}
          PROVE  state'[d] = "new"
      BY <1>2, <3>4 DEF Routes, ConnTypes, Registry, Forget
    <3> QED BY <3>1, <3>2, <3>3, <3>4 DEF Registry
  <2>5. ASSUME NEW f \in Fds, NEW ch \in Channels
        PROVE  (f \in channel_subscribers[ch] <=> ch \in client_subscriptions[f])'
    BY <1>2, <2>1, <2>5 DEF Routes, RouteTypes, RoutesAreOwn, CleanupClient
  <2>6. ASSUME NEW f \in Fds
        PROVE  /\ client_subscriptions'[f] =
                    IF clients'[f] = NoClient THEN {} ELSE ownChannels'[clients'[f]]
               /\ client_rooms'[f] =
                    IF clients'[f] = NoClient THEN NoRoom ELSE ownRoom'[clients'[f]]
    <3>1. CASE f = fd[c]
      BY <1>2, <2>1, <3>1 DEF Routes, ConnTypes, RouteTypes, CleanupClient
    <3>2. CASE f # fd[c]
      <4>1. clients'[f] = clients[f] /\ clients[f] # c
        BY <1>2, <2>1, <3>2 DEF Routes, ConnTypes, Registry
      <4>2. client_subscriptions'[f] = client_subscriptions[f] /\ client_rooms'[f] = client_rooms[f]
        BY <1>2, <3>2 DEF Routes, RouteTypes, CleanupClient
      <4>3. clients[f] # NoClient =>
              /\ ownChannels'[clients[f]] = ownChannels[clients[f]]
              /\ ownRoom'[clients[f]] = ownRoom[clients[f]]
        BY <1>2, <4>1 DEF Routes, ConnTypes, RouteTypes, Forget
      <4> QED BY <4>1, <4>2, <4>3 DEF Routes, RoutesAreOwn
    <3> QED BY <3>1, <3>2
  <2>7. RoutesAreOwn'
    BY <2>5, <2>6 DEF RoutesAreOwn
  <2> QED BY <1>2, <2>2, <2>3, <2>4, <2>7 DEF Routes, ConnTypes
<1> QED BY <1>1, <1>2 DEF Close

(* The room and the channels of a client in its turn.                      *)
LEMMA SelectRoomKeepsRoutes ==
  ASSUME Routes, NEW c \in Conns, state[c] = "open", SelectRoom(c),
         UNCHANGED <<peer, state, fd, clients>>,
         \/ UNCHANGED <<channel_subscribers, client_subscriptions, ownChannels>>
         \/ \E ch \in Channels : Subscribe(c, ch)
         \/ Unsubscribe(c)
  PROVE  Routes'
<1>1. fd[c] \in Fds /\ clients[fd[c]] = c /\ c # NoClient
  BY ConnsAssumption, Zenon DEF Routes, Registry, NoClient
<1>2. ConnTypes'
  BY DEF Routes, ConnTypes
<1>3. /\ client_rooms' \in [Fds -> {NoRoom, "default", "attic"}]
      /\ ownRoom' \in [Conns -> {NoRoom, "default", "attic"}]
  BY <1>1, Zenon DEF Routes, RouteTypes, SelectRoom, RoomOr, NoRoom
<1>4. /\ client_subscriptions' \in [Fds -> SUBSET Channels]
      /\ channel_subscribers' \in [Channels -> SUBSET Fds]
      /\ ownChannels' \in [Conns -> SUBSET Channels]
  BY <1>1 DEF Routes, RouteTypes, Subscribe, Unsubscribe
<1>5. \A d \in Conns : d # c => ownRoom'[d] = ownRoom[d] /\ ownChannels'[d] = ownChannels[d]
  BY DEF Routes, RouteTypes, SelectRoom, Subscribe, Unsubscribe
<1>6. \A f \in Fds : f # fd[c] => /\ client_rooms'[f] = client_rooms[f]
                                  /\ client_subscriptions'[f] = client_subscriptions[f]
  BY <1>1 DEF Routes, RouteTypes, SelectRoom, Subscribe, Unsubscribe
<1>7. client_rooms[fd[c]] = ownRoom[c] /\ client_subscriptions[fd[c]] = ownChannels[c]
  BY <1>1 DEF Routes, RoutesAreOwn
<1>8. client_rooms'[fd[c]] = ownRoom'[c]
  BY <1>1, <1>7 DEF Routes, RouteTypes, SelectRoom, RoomOr
<1>9. client_subscriptions'[fd[c]] = ownChannels'[c]
  <2>1. CASE UNCHANGED <<channel_subscribers, client_subscriptions, ownChannels>>
    BY <1>7, <2>1
  <2>2. ASSUME NEW ch \in Channels, Subscribe(c, ch)
        PROVE  client_subscriptions'[fd[c]] = ownChannels'[c]
    <3>1. client_subscriptions'[fd[c]] = client_subscriptions[fd[c]] \cup {ch}
      BY <1>1, <2>2 DEF Routes, RouteTypes, Subscribe
    <3>2. ownChannels'[c] = ownChannels[c] \cup {ch}
      BY <2>2 DEF Routes, RouteTypes, Subscribe
    <3> QED BY <1>7, <3>1, <3>2
  <2>3. CASE Unsubscribe(c)
    BY <1>1, <2>3 DEF Routes, RouteTypes, Unsubscribe
  <2> QED BY <2>1, <2>2, <2>3
<1>10. Registry'
  BY <1>5 DEF Routes, ConnTypes, Registry
<1>11. ASSUME NEW f \in Fds, NEW ch \in Channels
       PROVE  (f \in channel_subscribers[ch] <=> ch \in client_subscriptions[f])'
  BY <1>1, <1>11 DEF Routes, RouteTypes, RoutesAreOwn, Subscribe, Unsubscribe
<1>12. ASSUME NEW f \in Fds
       PROVE  /\ client_subscriptions'[f] =
                   IF clients'[f] = NoClient THEN {} ELSE ownChannels'[clients'[f]]
              /\ client_rooms'[f] =
                   IF clients'[f] = NoClient THEN NoRoom ELSE ownRoom'[clients'[f]]
  <2>1. CASE f = fd[c]
    BY <1>1, <1>8, <1>9, <2>1
  <2>2. CASE f # fd[c]
    <3>1. clients'[f] = clients[f] /\ clients[f] # c
      BY <1>1, <2>2 DEF Routes, ConnTypes, Registry
    <3> QED BY <1>5, <1>6, <2>2, <3>1 DEF Routes, ConnTypes, RoutesAreOwn
  <2> QED BY <2>1, <2>2
<1>13. RoutesAreOwn'
  BY <1>11, <1>12 DEF RoutesAreOwn
<1> QED BY <1>2, <1>3, <1>4, <1>10, <1>13 DEF Routes, RouteTypes

(* A new client finds a free descriptor, which has no routes.              *)
LEMMA AcceptKeepsRoutes ==
  ASSUME Routes, NEW c \in Conns, NEW f \in Fds, AcceptClient(c, f)
  PROVE  /\ Routes'
         /\ \A d \in Conns : d # c => state'[d] = state[d]
<1>1. state[c] = "new" /\ clients[f] = NoClient /\ c # NoClient
  BY ConnsAssumption, Zenon DEF AcceptClient, Routes, Registry, NoClient
<1>2. /\ state' = [state EXCEPT ![c] = "open"] /\ fd' = [fd EXCEPT ![c] = f]
      /\ clients' = [clients EXCEPT ![f] = c] /\ peer' = [peer EXCEPT ![c] = "alive"]
      /\ UNCHANGED <<client_rooms, client_subscriptions, channel_subscribers, ownRoom, ownChannels>>
  BY DEF AcceptClient, dbVars, ghostVars
<1>3. ConnTypes'
  BY <1>2 DEF Routes, ConnTypes
<1>4. RouteTypes'
  BY <1>2 DEF Routes, RouteTypes
<1>5. Registry'
  <2>1. ASSUME NEW d \in Conns, state'[d] = "open"
        PROVE  fd'[d] \in Fds /\ clients'[fd'[d]] = d
    <3>1. CASE d = c
      BY <1>2, <3>1 DEF Routes, ConnTypes
    <3>2. CASE d # c
      <4>1. state[d] = "open" /\ fd'[d] = fd[d]
        BY <1>2, <2>1, <3>2 DEF Routes, ConnTypes
      <4>2. fd[d] \in Fds /\ clients[fd[d]] = d
        BY <4>1 DEF Routes, Registry
      <4>3. d # NoClient
        BY ConnsAssumption, Zenon DEF NoClient
      <4> QED BY <1>1, <1>2, <4>1, <4>2, <4>3 DEF Routes, ConnTypes
    <3> QED BY <3>1, <3>2
  <2>2. ASSUME NEW g \in Fds, clients'[g] # NoClient
        PROVE  state'[clients'[g]] = "open" /\ fd'[clients'[g]] = g
    BY <1>1, <1>2, <2>2 DEF Routes, ConnTypes, Registry
  <2>3. ASSUME NEW d \in Conns, state'[d] # "open"
        PROVE  ownRoom'[d] = NoRoom /\ ownChannels'[d] = {}
    BY <1>2, <2>3 DEF Routes, ConnTypes, Registry
  <2>4. ASSUME NEW d \in Conns, peer'[d] \in {"none", "queued"}
        PROVE  state'[d] = "new"
    BY <1>2, <2>4 DEF Routes, ConnTypes, Registry
  <2> QED BY <2>1, <2>2, <2>3, <2>4 DEF Registry
<1>6. ASSUME NEW g \in Fds
      PROVE  /\ client_subscriptions'[g] =
                  IF clients'[g] = NoClient THEN {} ELSE ownChannels'[clients'[g]]
             /\ client_rooms'[g] =
                  IF clients'[g] = NoClient THEN NoRoom ELSE ownRoom'[clients'[g]]
  <2>1. CASE g = f
    <3>1. clients'[g] = c
      BY <1>2, <2>1 DEF Routes, ConnTypes
    <3>2. ownRoom[c] = NoRoom /\ ownChannels[c] = {}
      BY <1>1 DEF Routes, Registry
    <3>3. client_subscriptions[f] = {} /\ client_rooms[f] = NoRoom
      BY <1>1 DEF Routes, RoutesAreOwn
    <3> QED BY <1>1, <1>2, <2>1, <3>1, <3>2, <3>3
  <2>2. CASE g # f
    BY <1>2, <2>2 DEF Routes, ConnTypes, RoutesAreOwn
  <2> QED BY <2>1, <2>2
<1>7. RoutesAreOwn'
  BY <1>2, <1>6 DEF Routes, RoutesAreOwn
<1> QED BY <1>2, <1>3, <1>4, <1>5, <1>7 DEF Routes, ConnTypes

(* A peer only moves on, and never back into the queue.                    *)
LEMMA PeerKeepsRoutes ==
  ASSUME Routes, NEW c \in Conns, NEW p \in {"queued", "refused", "alive", "midway", "gone"},
         peer' = [peer EXCEPT ![c] = p],
         p = "queued" => peer[c] = "none",
         UNCHANGED <<idVars, dbVars, ownRoom, ownChannels>>
  PROVE  Routes'
<1>1. ConnTypes'
  BY DEF Routes, ConnTypes, idVars
<1>2. RouteTypes' /\ RoutesAreOwn'
  BY DEF Routes, RouteTypes, RoutesAreOwn, idVars, dbVars
<1>3. Registry'
  BY DEF Routes, ConnTypes, Registry, idVars
<1> QED BY <1>1, <1>2, <1>3 DEF Routes

-----------------------------------------------------------------------------
(* Turns                                                                   *)

LEMMA WaitingShape ==
  ASSUME turn' = Waiting
  PROVE  TurnShape'
BY Zenon DEF TurnShape, Waiting, NoClient

LEMMA TurnUnchanged ==
  ASSUME TurnShape, UNCHANGED <<turn, state>>
  PROVE  TurnShape'
BY DEF TurnShape

LEMMA AfterShape ==
  ASSUME TurnShape, turn' = TurnAfter
  PROVE  TurnShape'
<1>1. CASE turn.via = "pump"
  <2>1. turn' = [at |-> "pump", who |-> NoClient, via |-> "read", todo |-> turn.todo,
                 pos |-> 0, n |-> 0, targets |-> {}]
    BY <1>1, Zenon DEF TurnAfter, Waiting
  <2> QED BY <2>1 DEF TurnShape
<1>2. CASE turn.via # "pump"
  BY <1>2, WaitingShape DEF TurnAfter
<1> QED BY <1>1, <1>2

LEMMA ServingShape ==
  ASSUME NEW c \in Conns, NEW via \in {"read", "pump"}, NEW todo \in SUBSET Conns,
         via = "read" => todo = {},
         turn' = Serving(via, c, todo), state'[c] = "open"
  PROVE  TurnShape'
<1>1. turn' = [at |-> "serve", who |-> c, via |-> via, todo |-> todo, pos |-> 0, n |-> 0,
               targets |-> {}]
  BY Zenon DEF Serving, Waiting
<1>2. c # NoClient
  BY ConnsAssumption, Zenon DEF NoClient
<1> QED BY <1>1, <1>2 DEF TurnShape

LEMMA DropKeeps ==
  ASSUME Routes, TurnShape, NEW c \in Conns, DropClient(c)
  PROVE  Routes' /\ TurnShape'
BY CloseKeepsRoutes, AfterShape DEF DropClient

LEMMA AnsweredShape ==
  ASSUME TurnShape, NEW c \in Conns, NEW trusted \in BOOLEAN, Answered(c, trusted),
         turn.who = c, turn.at \in {"serve", "publish"}
  PROVE  TurnShape'
<1>1. RequestLength(c) \in Nat
  BY DEF RequestLength
<1>2. turn' = [turn EXCEPT !.pos = turn.pos + RequestLength(c), !.n = turn.n + 1, !.at = "serve"]
  BY DEF Answered, Consumed, TurnShape
<1>3. state'[c] = "open"
  BY DEF Answered, Fits
<1>4. c # NoClient
  BY ConnsAssumption, Zenon DEF NoClient
<1>5. /\ turn'.at = "serve" /\ turn'.who = c /\ turn'.via = turn.via /\ turn'.todo = turn.todo
  BY <1>2 DEF TurnShape
<1>6. turn' \in [at : {"wait", "read", "flush", "serve", "publish", "pump", "sweep"},
                who : Conns \cup {NoClient}, via : {"read", "pump"}, todo : SUBSET Conns,
                pos : Nat, n : Nat, targets : SUBSET Fds]
  <2>1. turn' = [at |-> "serve", who |-> turn.who, via |-> turn.via, todo |-> turn.todo,
                 pos |-> turn.pos + RequestLength(c), n |-> turn.n + 1,
                 targets |-> turn.targets]
    BY <1>2, Zenon DEF TurnShape
  <2>2. turn.pos + RequestLength(c) \in Nat /\ turn.n + 1 \in Nat
    BY <1>1 DEF TurnShape
  <2> QED BY <2>1, <2>2 DEF TurnShape
<1> QED BY <1>3, <1>4, <1>5, <1>6 DEF TurnShape

LEMMA RoutesStep ==
  ASSUME Routes, TurnShape, [Next]_vars
  PROVE  Routes' /\ TurnShape'
<1>1. CASE UNCHANGED vars
  <2>1. UNCHANGED <<peer, idVars, dbVars, ownRoom, ownChannels>> /\ UNCHANGED <<turn, state>>
    BY <1>1 DEF vars, peerVars, ghostVars, idVars
  <2> QED BY <2>1, RoutesUnchanged, TurnUnchanged
<1>2. ASSUME NEW c \in Conns, Connect(c)
      PROVE  Routes' /\ TurnShape'
  BY <1>2, PeerKeepsRoutes, TurnUnchanged, Zenon DEF Connect, idVars, ghostVars
<1>3. ASSUME NEW c \in Conns, PeerReads(c)
      PROVE  Routes' /\ TurnShape'
  BY <1>3, RoutesUnchanged, TurnUnchanged DEF PeerReads, idVars, ghostVars
<1>4. ASSUME NEW c \in Conns, PeerCloses(c)
      PROVE  Routes' /\ TurnShape'
  BY <1>4, PeerKeepsRoutes, TurnUnchanged, Zenon DEF PeerCloses, idVars, ghostVars
<1>5. ASSUME NEW c \in Conns, NEW kind, PeerSends(c, kind)
      PROVE  Routes' /\ TurnShape'
  <2>1. UNCHANGED <<idVars, dbVars, ownRoom, ownChannels>> /\ UNCHANGED <<turn, state>>
    BY <1>5 DEF PeerSends, idVars, ghostVars
  <2>2. PICK p \in {"alive", "midway"} : peer' = [peer EXCEPT ![c] = p]
    BY <1>5 DEF PeerSends
  <2> QED BY <2>1, <2>2, PeerKeepsRoutes, TurnUnchanged, Zenon
<1>6. CASE EventfdCompletes \/ CqeLost \/ AcceptFails \/ FirstWaitTimeout \/ SubmitBacklog
  <2>1. UNCHANGED <<peer, idVars, dbVars, ownRoom, ownChannels>> /\ UNCHANGED <<turn, state>>
    BY <1>6, Zenon DEF EventfdCompletes, CqeLost, AcceptFails, FirstWaitTimeout, SubmitBacklog,
      peerVars, ghostVars, idVars
  <2> QED BY <2>1, RoutesUnchanged, TurnUnchanged
<1>7. ASSUME NEW c \in Conns, NEW dir \in {"in", "out"}, StaleTicket(c, dir)
      PROVE  Routes' /\ TurnShape'
  BY <1>7, RoutesUnchanged, TurnUnchanged DEF StaleTicket, peerVars, ghostVars, idVars
<1>8. ASSUME NEW c \in Conns, AcceptRefused(c)
      PROVE  Routes' /\ TurnShape'
  BY <1>8, PeerKeepsRoutes, TurnUnchanged, Zenon DEF AcceptRefused, idVars, ghostVars
<1>9. ASSUME NEW c \in Conns, NEW f \in Fds, AcceptClient(c, f)
      PROVE  Routes' /\ TurnShape'
  <2>1. Routes'
    BY <1>9, AcceptKeepsRoutes
  <2>2. turn' = turn /\ turn.at = "wait"
    BY <1>9 DEF AcceptClient
  <2> QED BY <2>1, <2>2 DEF TurnShape
<1>10. CASE EventfdReady \/ Sweep
  <2>1. UNCHANGED <<peer, idVars, dbVars, ownRoom, ownChannels>>
    BY <1>10, Zenon DEF EventfdReady, Sweep, peerVars, ghostVars
  <2>2. PICK at \in {"pump", "sweep"}, todo \in SUBSET Conns :
          turn.at = "wait" /\ turn' = [turn EXCEPT !.at = at, !.todo = todo]
    BY <1>10, Zenon DEF EventfdReady, Sweep, Open
  <2>3. TurnShape'
    BY <2>2, Zenon DEF TurnShape
  <2> QED BY <2>1, <2>3, RoutesUnchanged
<1>11. ASSUME NEW c \in Conns, ReadReady(c) \/ WriteReady(c)
       PROVE  Routes' /\ TurnShape'
  <2>1. UNCHANGED <<peer, idVars, dbVars, ownRoom, ownChannels>> /\ UNCHANGED state
    BY <1>11 DEF ReadReady, WriteReady, peerVars, ghostVars, idVars
  <2>2. PICK at \in {"read", "flush"} :
          turn.at = "wait" /\ state[c] = "open" /\ turn' = [turn EXCEPT !.at = at, !.who = c]
    BY <1>11 DEF ReadReady, WriteReady
  <2>3. c # NoClient
    BY ConnsAssumption, Zenon DEF NoClient
  <2>4. TurnShape'
    BY <2>1, <2>2, <2>3, Zenon DEF TurnShape
  <2> QED BY <2>1, <2>4, RoutesUnchanged
<1>12. CASE PumpDone \/ EndSweep
  <2>1. UNCHANGED <<peer, idVars, dbVars, ownRoom, ownChannels>> /\ turn' = Waiting
    BY <1>12, Zenon DEF PumpDone, EndSweep, peerVars, ghostVars
  <2> QED BY <2>1, RoutesUnchanged, WaitingShape
<1>13. ASSUME NEW f \in Fds, Deliver(f)
       PROVE  Routes' /\ TurnShape'
  <2>1. turn.at = "publish" /\ turn' = [turn EXCEPT !.targets = turn.targets \ {f}]
    BY <1>13 DEF Deliver
  <2>2. TurnShape'
    BY <2>1 DEF TurnShape
  <2>3. \/ UNCHANGED <<peer, idVars, dbVars, ownRoom, ownChannels>>
        \/ clients[f] # NoClient /\ Close(clients[f])
    BY <1>13, Zenon DEF Deliver, peerVars, ghostVars
  <2>4. clients[f] # NoClient => clients[f] \in Conns
    BY DEF Routes, ConnTypes
  <2> QED BY <2>2, <2>3, <2>4, RoutesUnchanged, CloseKeepsRoutes
<1>14. ASSUME NEW c \in Conns, FlushTurn(c)
       PROVE  Routes' /\ TurnShape'
  <2>1. \/ DropClient(c)
        \/ UNCHANGED <<peer, idVars, dbVars, ownRoom, ownChannels>> /\ turn' = Waiting
    BY <1>14, Zenon DEF FlushTurn, ghostVars
  <2> QED BY <2>1, DropKeeps, RoutesUnchanged, WaitingShape
<1>15. ASSUME NEW c \in Conns, ReadTurn(c)
       PROVE  Routes' /\ TurnShape'
  <2>1. \/ DropClient(c)
        \/ /\ UNCHANGED <<peer, idVars, dbVars, ownRoom, ownChannels>>
           /\ turn' = Serving("read", c, {}) \/ turn' = turn
    BY <1>15, Zenon DEF ReadTurn, peerVars, ghostVars
  <2>2. state[c] = "open"
    BY <1>15, Zenon DEF ReadTurn, TurnShape
  <2>3. CASE UNCHANGED <<peer, idVars, dbVars, ownRoom, ownChannels>>
             /\ turn' = Serving("read", c, {})
    BY <2>2, <2>3, RoutesUnchanged, ServingShape DEF idVars
  <2>4. CASE UNCHANGED <<peer, idVars, dbVars, ownRoom, ownChannels>> /\ turn' = turn
    BY <2>4, RoutesUnchanged, TurnUnchanged DEF idVars
  <2> QED BY <2>1, <2>3, <2>4, DropKeeps
<1>16. ASSUME NEW c \in Conns, Authenticate(c) \/ NoAuth(c) \/ EndPublish(c)
       PROVE  Routes' /\ TurnShape'
  <2>1. turn.who = c /\ turn.at \in {"serve", "publish"}
    BY <1>16, Zenon DEF Authenticate, NoAuth, EndPublish, AtRequest
  <2>2. \/ DropClient(c)
        \/ \E t \in BOOLEAN : Answered(c, t) /\ UNCHANGED <<dbVars, ownRoom, ownChannels>>
    BY <1>16, Zenon DEF Authenticate, NoAuth, EndPublish, Overflows
  <2>3. ASSUME NEW t \in BOOLEAN, Answered(c, t), UNCHANGED <<dbVars, ownRoom, ownChannels>>
        PROVE  Routes' /\ TurnShape'
    <3>1. UNCHANGED <<peer, state, fd, clients>>
      BY <2>3 DEF Answered, peerVars
    <3>2. Routes'
      BY <2>3, <3>1 DEF Routes, ConnTypes, RouteTypes, Registry, RoutesAreOwn, dbVars
    <3> QED BY <2>1, <2>3, <3>2, AnsweredShape
  <2> QED BY <2>2, <2>3, DropKeeps
<1>17. ASSUME NEW c \in Conns, Execute(c)
       PROVE  Routes' /\ TurnShape'
  <2>1. turn.who = c /\ turn.at = "serve"
    BY <1>17 DEF Execute, AtRequest
  <2>2. CASE Overflows(c, TRUE)
    BY <2>2, DropKeeps DEF Overflows
  <2>3. CASE /\ Answered(c, TRUE) /\ SelectRoom(c)
             /\ \/ \E ch \in Channels : Subscribe(c, ch)
                \/ Unsubscribe(c)
                \/ UNCHANGED <<channel_subscribers, client_subscriptions, ownChannels>>
    <3>1. UNCHANGED <<peer, state, fd, clients>> /\ state[c] = "open"
      BY <2>3 DEF Answered, Fits, peerVars
    <3> QED BY <2>1, <2>3, <3>1, AnsweredShape, SelectRoomKeepsRoutes, Zenon
  <2> QED BY <1>17, <2>2, <2>3, Zenon DEF Execute
<1>18. ASSUME NEW c \in Conns, NEW ch \in Channels, Publish(c, ch)
       PROVE  Routes' /\ TurnShape'
  <2>1. turn.who = c /\ turn.at = "serve" /\ state[c] = "open"
    BY <1>18 DEF Publish, AtRequest, TurnShape
  <2>2. UNCHANGED <<peer, state, fd, clients>> /\ SelectRoom(c)
        /\ UNCHANGED <<channel_subscribers, client_subscriptions, ownChannels>>
    BY <1>18 DEF Publish, peerVars, idVars
  <2>3. turn' = [turn EXCEPT !.at = "publish", !.targets = channel_subscribers[ch]]
    BY <1>18 DEF Publish
  <2>4. channel_subscribers[ch] \in SUBSET Fds
    BY DEF Routes, RouteTypes
  <2>5. TurnShape'
    BY <2>1, <2>2, <2>3, <2>4, Zenon DEF TurnShape
  <2> QED BY <2>1, <2>2, <2>5, SelectRoomKeepsRoutes
<1>19. ASSUME NEW c \in Conns, LastAnswer(c)
       PROVE  Routes' /\ TurnShape'
  BY <1>19, DropKeeps DEF LastAnswer
<1>20. ASSUME NEW c \in Conns, EndServe(c)
       PROVE  Routes' /\ TurnShape'
  <2>1. \/ DropClient(c)
        \/ UNCHANGED <<peer, idVars, dbVars, ownRoom, ownChannels>> /\ turn' = TurnAfter
    BY <1>20, Zenon DEF EndServe, ghostVars
  <2> QED BY <2>1, DropKeeps, RoutesUnchanged, AfterShape
<1>21. ASSUME NEW c \in Conns, PumpNext(c)
       PROVE  Routes' /\ TurnShape'
  <2>1. UNCHANGED <<peer, idVars, dbVars, ownRoom, ownChannels>> /\ UNCHANGED state
    BY <1>21 DEF PumpNext, peerVars, ghostVars, idVars
  <2>2. state[c] = "open" /\ turn' = Serving("pump", c, turn.todo \ {c})
        /\ turn.todo \ {c} \in SUBSET Conns
    BY <1>21 DEF PumpNext, Pumpable, TurnShape
  <2> QED BY <2>1, <2>2, RoutesUnchanged, ServingShape
<1>22. ASSUME NEW c \in Conns, CloseLate(c)
       PROVE  Routes' /\ TurnShape'
  <2>1. turn.at = "sweep" /\ turn' = [turn EXCEPT !.todo = turn.todo \ {c}] /\ Close(c)
    BY <1>22 DEF CloseLate
  <2>2. TurnShape'
    BY <2>1 DEF TurnShape
  <2> QED BY <2>1, <2>2, CloseKeepsRoutes
<1> HIDE DEF Routes, TurnShape
<1>23. CASE PeerStep
  BY <1>23, <1>2, <1>3, <1>4, <1>5, Zenon DEF PeerStep
<1>24. CASE Completion
  BY <1>24, <1>6, <1>7, <1>8, <1>9, <1>10, <1>11, Zenon DEF Completion
<1>25. CASE TurnStep
  <2>1. ASSUME NEW c \in Conns,
               FlushTurn(c) \/ ReadTurn(c) \/ Authenticate(c) \/ NoAuth(c) \/ Execute(c)
        PROVE  Routes' /\ TurnShape'
    BY <2>1, <1>14, <1>15, <1>16, <1>17, Zenon
  <2>2. ASSUME NEW c \in Conns,
               EndPublish(c) \/ LastAnswer(c) \/ EndServe(c) \/ PumpNext(c) \/ CloseLate(c)
        PROVE  Routes' /\ TurnShape'
    BY <2>2, <1>16, <1>19, <1>20, <1>21, <1>22, Zenon
  <2> QED BY <1>25, <1>12, <1>13, <1>18, <2>1, <2>2, Zenon DEF TurnStep
<1> QED BY <1>1, <1>6, <1>10, <1>12, <1>23, <1>24, <1>25, Zenon DEF Next

LEMMA RoutesInvariant == Spec => [](Routes /\ TurnShape)
<1>1. Init => Routes
  <2> SUFFICES ASSUME Init PROVE Routes
    OBVIOUS
  <2>1. ConnTypes
    BY DEF Init, ConnTypes
  <2>2. RouteTypes
    BY DEF Init, RouteTypes
  <2>3. Registry
    BY DEF Init, Registry
  <2>4. RoutesAreOwn
    BY DEF Init, RoutesAreOwn
  <2> QED BY <2>1, <2>2, <2>3, <2>4 DEF Routes
<1>2. Init => TurnShape
  <2>1. Init => turn = Waiting
    BY DEF Init
  <2>2. turn = Waiting => TurnShape
    BY DEF TurnShape, Waiting
  <2> QED BY <2>1, <2>2
<1>3. Routes /\ TurnShape /\ [Next]_vars => (Routes /\ TurnShape)'
  BY RoutesStep
<1> QED
  BY <1>1, <1>2, <1>3, PTL DEF Spec

(* RoutesAreOwn: cleanup_client() runs before the descriptor is free, so   *)
(* accept() never hands out one with a room or a subscription; the two     *)
(* maps of PubSubManager change together.                                  *)
THEOREM RoutesAreOwnHolds == Spec => []RoutesAreOwn
<1>1. Routes => RoutesAreOwn
  BY DEF Routes
<1> QED
  BY <1>1, RoutesInvariant, PTL

-----------------------------------------------------------------------------
(* Waiting clients                                                         *)

(* What NobodyForgotten asks for one client.                               *)
HasSignal(c) == counter \/ events > 0 \/ (turn.at # "sweep" /\ c \in turn.todo)
WriteCovered(c) == PendingOut(c) > 0 => write_armed[c]
RequestCovered(c) == HasRequest(c) => HasSignal(c)

Inputs ==
  /\ sent \in [Conns -> Nat]
  /\ sock \in [Conns -> Seq(Unit)]
  /\ in_buf \in [Conns -> Seq(Unit)]

Outputs ==
  /\ DOMAIN out_buf = Conns /\ DOMAIN out_off = Conns
  /\ read_armed \in [Conns -> BOOLEAN] /\ write_armed \in [Conns -> BOOLEAN]
  /\ events \in Nat

(* A connection that was not accepted has empty buffers.                   *)
Fresh ==
  \A c \in Conns : state[c] = "new" => in_buf[c] = <<>> /\ out_buf[c] = <<>> /\ out_off[c] = 0

(* A client in a turn of its own is exempt from NobodyForgotten, but the   *)
(* completion of a POLLOUT arms nothing for reading and signals nothing:   *)
(* that has to be so already.                                              *)
FlushShape ==
  turn.at = "flush" => /\ read_armed[turn.who]
                       /\ HasRequest(turn.who) => counter \/ events > 0

Attended == Inputs /\ Outputs /\ Fresh /\ FlushShape /\ NobodyForgotten

LEMMA NobodyForgottenParts ==
  NobodyForgotten <=> \A c \in Conns : state[c] = "open" /\ turn.who # c =>
                        read_armed[c] /\ WriteCovered(c) /\ RequestCovered(c)
BY DEF NobodyForgotten, Open, WriteCovered, RequestCovered, HasSignal

LEMMA NobodyForgottenPartsNext ==
  NobodyForgotten' <=> \A c \in Conns : state'[c] = "open" /\ turn'.who # c =>
                         read_armed'[c] /\ WriteCovered(c)' /\ RequestCovered(c)'
BY DEF NobodyForgotten, Open, WriteCovered, RequestCovered, HasSignal

(* A client whose buffers and flags a step leaves alone stays covered,     *)
(* provided that its signal stays.                                         *)
Same(d) ==
  /\ in_buf'[d] = in_buf[d] /\ out_buf'[d] = out_buf[d] /\ out_off'[d] = out_off[d]
  /\ read_armed'[d] = read_armed[d] /\ write_armed'[d] = write_armed[d]

LEMMA SameStaysCovered ==
  ASSUME NEW d \in Conns, Same(d), HasSignal(d) => HasSignal(d)',
         read_armed[d] /\ WriteCovered(d) /\ RequestCovered(d)
  PROVE  read_armed'[d] /\ WriteCovered(d)' /\ RequestCovered(d)'
<1>1. WriteCovered(d)'
  BY DEF Same, WriteCovered, PendingOut
<1>2. HasRequest(d)' <=> HasRequest(d)
  BY DEF Same, HasRequest
<1>3. RequestCovered(d)'
  BY <1>2 DEF RequestCovered
<1> QED BY <1>1, <1>3 DEF Same

(* Steps that move only the turn, or nothing of this.                      *)
LEMMA OnlyTurnMoves ==
  ASSUME Attended, UNCHANGED <<sent, sock, in_buf, out_buf, out_off, state, read_armed, write_armed>>,
         UNCHANGED <<counter, events>>,
         turn'.at # "flush" \/ turn' = turn,
         \A d \in Conns : state[d] = "open" /\ turn'.who # d =>
           /\ turn.who # d
           /\ RequestCovered(d) => RequestCovered(d)'
  PROVE  Attended'
<1>1. Inputs'
  BY DEF Attended, Inputs
<1>2. Outputs'
  BY DEF Attended, Outputs
<1>3. Fresh'
  BY DEF Attended, Fresh
<1>4. FlushShape'
  BY DEF Attended, FlushShape, HasRequest
<1>5. ASSUME NEW d \in Conns, state'[d] = "open" /\ turn'.who # d
      PROVE  read_armed'[d] /\ WriteCovered(d)' /\ RequestCovered(d)'
  <2>1. state[d] = "open" /\ turn.who # d /\ (RequestCovered(d) => RequestCovered(d)')
    BY <1>5
  <2>2. read_armed[d] /\ WriteCovered(d) /\ RequestCovered(d)
    BY <2>1, NobodyForgottenParts DEF Attended
  <2>3. WriteCovered(d)'
    BY <2>2 DEF WriteCovered, PendingOut
  <2> QED BY <2>1, <2>2, <2>3
<1>6. NobodyForgotten'
  BY <1>5, NobodyForgottenPartsNext
<1> QED BY <1>1, <1>2, <1>3, <1>4, <1>6 DEF Attended

(* Steps that move one client.                                             *)
LEMMA OneClientMoves ==
  ASSUME Attended, NEW c \in Conns, Inputs', Outputs', FlushShape', state'[c] # "new",
         \A d \in Conns : d # c =>
           /\ Same(d) /\ state'[d] = state[d]
           /\ state[d] = "open" /\ turn'.who # d =>
                turn.who # d /\ (HasSignal(d) => HasSignal(d)'),
         state'[c] = "open" /\ turn'.who # c =>
           read_armed'[c] /\ WriteCovered(c)' /\ RequestCovered(c)'
  PROVE  Attended'
<1>1. Fresh'
  <2> SUFFICES ASSUME NEW d \in Conns, state'[d] = "new"
               PROVE  in_buf'[d] = <<>> /\ out_buf'[d] = <<>> /\ out_off'[d] = 0
    BY Zenon DEF Fresh
  <2>1. Same(d) /\ state[d] = "new"
    BY Zenon
  <2>2. in_buf[d] = <<>> /\ out_buf[d] = <<>> /\ out_off[d] = 0
    BY <2>1, Zenon DEF Attended, Fresh
  <2> QED BY <2>1, <2>2, Zenon DEF Same
<1>2. ASSUME NEW d \in Conns, state'[d] = "open" /\ turn'.who # d
      PROVE  read_armed'[d] /\ WriteCovered(d)' /\ RequestCovered(d)'
  <2>1. CASE d = c
    BY <1>2, <2>1
  <2>2. CASE d # c
    <3>1. Same(d) /\ state[d] = "open" /\ turn.who # d /\ (HasSignal(d) => HasSignal(d)')
      BY <1>2, <2>2
    <3>2. read_armed[d] /\ WriteCovered(d) /\ RequestCovered(d)
      BY <3>1, NobodyForgottenParts DEF Attended
    <3> QED BY <3>1, <3>2, SameStaysCovered, Zenon
  <2> QED BY <2>1, <2>2, Zenon
<1>3. NobodyForgotten'
  BY <1>2, NobodyForgottenPartsNext
<1> QED BY <1>1, <1>3 DEF Attended

LEMMA CloseMoves ==
  ASSUME Attended, ConnTypes, NEW c \in Conns, Close(c)
  PROVE  /\ Inputs'
         /\ DOMAIN out_buf' = Conns /\ DOMAIN out_off' = Conns
         /\ state'[c] = "closed"
         /\ \A d \in Conns : d # c =>
              /\ state'[d] = state[d] /\ in_buf'[d] = in_buf[d]
              /\ out_buf'[d] = out_buf[d] /\ out_off'[d] = out_off[d]
<1>1. CASE state[c] = "closed" /\ UNCHANGED <<peerVars, idVars, bufVars, dbVars, ghostVars>>
  BY <1>1 DEF Attended, Inputs, Outputs, peerVars, idVars, bufVars
<1>2. CASE /\ state' = [state EXCEPT ![c] = "closed"]
           /\ Buffers(c, <<>>, <<>>, 0)
           /\ Forget(c)
  <2>1. Inputs'
    BY <1>2 DEF Attended, Inputs, Buffers, Forget
  <2>2. DOMAIN out_buf' = Conns /\ DOMAIN out_off' = Conns
    BY <1>2 DEF Attended, Outputs, Buffers
  <2>3. state'[c] = "closed" /\ \A d \in Conns : d # c => state'[d] = state[d]
    BY <1>2 DEF ConnTypes
  <2>4. \A d \in Conns : d # c => /\ in_buf'[d] = in_buf[d]
                                 /\ out_buf'[d] = out_buf[d] /\ out_off'[d] = out_off[d]
    BY <1>2 DEF Attended, Inputs, Outputs, Buffers
  <2> QED BY <2>1, <2>2, <2>3, <2>4, Zenon
<1> QED BY <1>1, <1>2, Zenon DEF Close

(* Buffers() for one client, with any new output.                          *)
LEMMA BuffersMove ==
  ASSUME Attended, NEW c \in Conns, NEW input \in Seq(Unit), NEW output, NEW off,
         Buffers(c, input, output, off)
  PROVE  /\ in_buf' \in [Conns -> Seq(Unit)]
         /\ DOMAIN out_buf' = Conns /\ DOMAIN out_off' = Conns
         /\ in_buf'[c] = input /\ out_buf'[c] = output /\ out_off'[c] = off
         /\ \A d \in Conns : d # c => /\ in_buf'[d] = in_buf[d]
                                     /\ out_buf'[d] = out_buf[d] /\ out_off'[d] = out_off[d]
<1>1. /\ in_buf' = [in_buf EXCEPT ![c] = input]
      /\ out_buf' = [out_buf EXCEPT ![c] = output]
      /\ out_off' = [out_off EXCEPT ![c] = off]
  BY DEF Buffers
<1> QED BY <1>1 DEF Attended, Inputs, Outputs

LEMMA ArmMoves ==
  ASSUME Outputs, NEW c \in Conns, NEW w \in BOOLEAN, NEW r \in BOOLEAN, ArmClient(c, w, r)
  PROVE  /\ read_armed' \in [Conns -> BOOLEAN] /\ write_armed' \in [Conns -> BOOLEAN]
         /\ r \/ read_armed[c] => read_armed'[c]
         /\ w \/ write_armed[c] => write_armed'[c]
         /\ \A d \in Conns : d # c =>
              read_armed'[d] = read_armed[d] /\ write_armed'[d] = write_armed[d]
<1>1. /\ write_armed' = [write_armed EXCEPT ![c] = write_armed[c] \/ w]
      /\ read_armed' = [read_armed EXCEPT ![c] = read_armed[c] \/ r]
  BY DEF ArmClient
<1>2. (write_armed[c] \/ w) \in BOOLEAN /\ (read_armed[c] \/ r) \in BOOLEAN
  OBVIOUS
<1> QED BY <1>1, <1>2 DEF Outputs

(* flush_output() leaves nothing pending or reports that it does.          *)
LEMMA FlushCovers ==
  ASSUME NEW c \in Conns, NEW output, NEW off,
         out_buf'[c] = OutputAfter(c, output, off), out_off'[c] = OffsetAfter(c, output, off),
         ~AllSent(c, output, off) => write_armed'[c]
  PROVE  WriteCovered(c)'
<1>1. CASE AllSent(c, output, off)
  <2>1. out_buf'[c] = <<>> /\ out_off'[c] = 0
    BY <1>1 DEF OutputAfter, OffsetAfter
  <2> QED BY <2>1 DEF WriteCovered, PendingOut
<1>2. CASE ~AllSent(c, output, off)
  BY <1>2 DEF WriteCovered
<1> QED BY <1>1, <1>2

(* The end of a client's turn keeps the snapshot of a running pump.        *)
LEMMA SignalAfter ==
  ASSUME TurnShape, turn.who # NoClient, turn' = TurnAfter, counter => counter', events' = events,
         NEW d \in Conns, HasSignal(d)
  PROVE  HasSignal(d)'
<1>1. CASE d \in turn.todo
  <2>1. turn.via = "pump"
    BY <1>1 DEF TurnShape
  <2>2. turn' = [at |-> "pump", who |-> NoClient, via |-> "read", todo |-> turn.todo,
                 pos |-> 0, n |-> 0, targets |-> {}]
    BY <2>1, Zenon DEF TurnAfter, Waiting
  <2>3. turn'.at # "sweep" /\ d \in turn'.todo
    BY <1>1, <2>2
  <2> QED BY <2>3 DEF HasSignal
<1>2. CASE d \notin turn.todo
  BY <1>2 DEF HasSignal
<1> QED BY <1>1, <1>2

LEMMA AfterIsNobodys ==
  ASSUME turn' = TurnAfter
  PROVE  turn'.who = NoClient /\ turn'.at \in {"wait", "pump"}
BY DEF TurnAfter, Waiting

LEMMA DropAttended ==
  ASSUME Attended, ConnTypes, TurnShape, NEW c \in Conns, DropClient(c), turn.who = c,
         read_armed' \in [Conns -> BOOLEAN], write_armed' \in [Conns -> BOOLEAN],
         \A d \in Conns : d # c =>
           read_armed'[d] = read_armed[d] /\ write_armed'[d] = write_armed[d],
         counter => counter', events' = events
  PROVE  Attended'
<1>1. c # NoClient
  BY ConnsAssumption, Zenon DEF NoClient
<1>2. turn' = TurnAfter /\ Close(c)
  BY DEF DropClient
<1>3. /\ Inputs' /\ state'[c] = "closed"
      /\ DOMAIN out_buf' = Conns /\ DOMAIN out_off' = Conns
      /\ \A d \in Conns : d # c =>
           /\ state'[d] = state[d] /\ in_buf'[d] = in_buf[d]
           /\ out_buf'[d] = out_buf[d] /\ out_off'[d] = out_off[d]
  BY <1>2, CloseMoves, Zenon
<1>4. Outputs'
  BY <1>3 DEF Attended, Outputs
<1>5. FlushShape'
  BY <1>2, AfterIsNobodys DEF FlushShape
<1>6. ASSUME NEW d \in Conns, d # c
      PROVE  /\ Same(d) /\ state'[d] = state[d]
             /\ turn.who # d /\ (HasSignal(d) => HasSignal(d)')
  <2>1. Same(d) /\ state'[d] = state[d]
    BY <1>3, <1>6 DEF Same
  <2>2. HasSignal(d) => HasSignal(d)'
    BY <1>1, <1>2, SignalAfter
  <2> QED BY <1>6, <2>1, <2>2
<1> QED BY <1>3, <1>4, <1>5, <1>6, OneClientMoves

(* What serve() leaves behind holds a complete request only if the budget  *)
(* is used up, and then queue_work() is called.                            *)
LEMMA UnconsumedRequest ==
  ASSUME Inputs, TurnShape, NEW c \in Conns, turn.n = Budget \/ RequestLength(c) = 0,
         in_buf'[c] = Unconsumed(c), HasRequest(c)'
  PROVE  More(c)
<1> DEFINE s == in_buf[c]
           r == SubSeq(s, turn.pos + 1, Len(s))
<1>1. s \in Seq(Unit) /\ turn.pos \in Nat /\ Len(s) \in Nat
  BY DEF Inputs, TurnShape
<1>2. r # <<>> /\ (r[1].kind = "long" => Len(r) > 1)
  BY Zenon DEF HasRequest, Unconsumed
<1>3. turn.pos < Len(s)
  BY <1>1, <1>2
<1>4. r[1] = s[turn.pos + 1] /\ Len(r) = Len(s) - turn.pos
  BY <1>1, <1>3
<1>5. s[turn.pos + 1].kind # "long" \/ turn.pos + 2 <= Len(s)
  <2>1. s[turn.pos + 1].kind = "long" => Len(r) > 1
    BY <1>2, <1>4, Zenon
  <2>2. Len(r) > 1 => turn.pos + 2 <= Len(s)
    BY <1>1, <1>4
  <2> QED BY <2>1, <2>2, Zenon
<1>6. RequestLength(c) # 0
  BY <1>1, <1>3, <1>5 DEF RequestLength
<1> QED BY <1>2, <1>6 DEF More, Unconsumed

LEMMA UnconsumedType ==
  ASSUME Inputs, TurnShape, NEW c \in Conns
  PROVE  Unconsumed(c) \in Seq(Unit)
<1>1. in_buf[c] \in Seq(Unit) /\ turn.pos \in Nat
  BY DEF Inputs, TurnShape
<1> QED BY <1>1 DEF Unconsumed

LEMMA EndServeAttended ==
  ASSUME Attended, ConnTypes, TurnShape, NEW c \in Conns, EndServe(c)
  PROVE  Attended'
<1>1. turn.who = c /\ c # NoClient /\ (turn.n = Budget \/ RequestLength(c) = 0) /\ events' = events
  BY ConnsAssumption, Zenon DEF EndServe, NoClient
<1>2. CASE DropClient(c) /\ UNCHANGED <<armVars, counter>>
  <2>1. UNCHANGED <<read_armed, write_armed>>
    BY <1>2 DEF armVars
  <2>2. read_armed' \in [Conns -> BOOLEAN] /\ write_armed' \in [Conns -> BOOLEAN]
    BY <2>1 DEF Attended, Outputs
  <2> QED BY <1>1, <1>2, <2>1, <2>2, DropAttended
<1>3. CASE /\ ArmClient(c, ~AllSent(c, out_buf[c], out_off[c]), TRUE)
           /\ counter' = (counter \/ More(c))
           /\ \/ DropClient(c)
              \/ /\ Buffers(c, Unconsumed(c), OutputAfter(c, out_buf[c], out_off[c]),
                            OffsetAfter(c, out_buf[c], out_off[c]))
                 /\ turn' = TurnAfter
                 /\ UNCHANGED <<sent, sock, idVars>>
  <2>1. (~AllSent(c, out_buf[c], out_off[c])) \in BOOLEAN
    BY DEF AllSent
  <2>2. /\ read_armed' \in [Conns -> BOOLEAN] /\ write_armed' \in [Conns -> BOOLEAN]
        /\ read_armed'[c]
        /\ ~AllSent(c, out_buf[c], out_off[c]) => write_armed'[c]
        /\ \A d \in Conns : d # c =>
             read_armed'[d] = read_armed[d] /\ write_armed'[d] = write_armed[d]
    BY <1>3, <2>1, ArmMoves, Zenon DEF Attended
  <2>3. (counter => counter') /\ (More(c) => counter')
    BY <1>3, Zenon
  <2>4. CASE DropClient(c)
    BY <1>1, <2>2, <2>3, <2>4, DropAttended, Zenon
  <2>5. CASE /\ Buffers(c, Unconsumed(c), OutputAfter(c, out_buf[c], out_off[c]),
                        OffsetAfter(c, out_buf[c], out_off[c]))
             /\ turn' = TurnAfter
             /\ UNCHANGED <<sent, sock, idVars>>
    <3>1. /\ in_buf' \in [Conns -> Seq(Unit)]
          /\ DOMAIN out_buf' = Conns /\ DOMAIN out_off' = Conns
          /\ in_buf'[c] = Unconsumed(c)
          /\ out_buf'[c] = OutputAfter(c, out_buf[c], out_off[c])
          /\ out_off'[c] = OffsetAfter(c, out_buf[c], out_off[c])
          /\ \A d \in Conns : d # c => /\ in_buf'[d] = in_buf[d]
                                      /\ out_buf'[d] = out_buf[d] /\ out_off'[d] = out_off[d]
      <4>1. /\ in_buf' = [in_buf EXCEPT ![c] = Unconsumed(c)]
            /\ out_buf' = [out_buf EXCEPT ![c] = OutputAfter(c, out_buf[c], out_off[c])]
            /\ out_off' = [out_off EXCEPT ![c] = OffsetAfter(c, out_buf[c], out_off[c])]
        BY <2>5 DEF Buffers
      <4>2. Unconsumed(c) \in Seq(Unit)
        BY UnconsumedType DEF Attended
      <4> QED BY <4>1, <4>2 DEF Attended, Inputs, Outputs
    <3>2. Inputs' /\ Outputs'
      BY <1>1, <2>2, <2>5, <3>1, Zenon DEF Attended, Inputs, Outputs
    <3>3. WriteCovered(c)'
      BY <2>2, <3>1, FlushCovers, Zenon
    <3>4. RequestCovered(c)'
      BY <1>1, <2>3, <3>1, UnconsumedRequest, Zenon DEF Attended, RequestCovered, HasSignal
    <3>5. FlushShape'
      BY <2>5, AfterIsNobodys, Zenon DEF FlushShape
    <3>6. ASSUME NEW d \in Conns, d # c
          PROVE  /\ Same(d) /\ state'[d] = state[d]
                 /\ turn.who # d /\ (HasSignal(d) => HasSignal(d)')
      <4>1. Same(d) /\ state'[d] = state[d]
        BY <2>2, <2>5, <3>1, <3>6, Zenon DEF Same, idVars
      <4>2. HasSignal(d) => HasSignal(d)'
        BY <1>1, <2>3, <2>5, SignalAfter, Zenon
      <4> QED BY <1>1, <3>6, <4>1, <4>2, Zenon
    <3>7. state[c] = "open" /\ state' = state
      BY <1>1, <2>5, <3>1, Zenon DEF idVars, TurnShape, EndServe
    <3> QED BY <2>2, <3>2, <3>3, <3>4, <3>5, <3>6, <3>7, OneClientMoves, Zenon
  <2> QED BY <1>3, <2>4, <2>5, Zenon
<1> QED BY <1>2, <1>3, Zenon DEF EndServe

-----------------------------------------------------------------------------
LEMMA FlushAttended ==
  ASSUME Attended, ConnTypes, TurnShape, NEW c \in Conns, FlushTurn(c)
  PROVE  Attended'
<1>1. /\ turn.who = c /\ turn.at = "flush" /\ c # NoClient /\ events' = events
      /\ counter' = counter
  BY ConnsAssumption, Zenon DEF FlushTurn, NoClient, eventVars
<1>2. CASE DropClient(c) /\ UNCHANGED armVars
  <2>1. UNCHANGED <<read_armed, write_armed>>
    BY <1>2 DEF armVars
  <2>2. read_armed' \in [Conns -> BOOLEAN] /\ write_armed' \in [Conns -> BOOLEAN]
    BY <2>1 DEF Attended, Outputs
  <2> QED BY <1>1, <1>2, <2>1, <2>2, DropAttended
<1>3. CASE /\ Buffers(c, in_buf[c], OutputAfter(c, out_buf[c], out_off[c]),
                      OffsetAfter(c, out_buf[c], out_off[c]))
           /\ ArmClient(c, ~AllSent(c, out_buf[c], out_off[c]), FALSE)
           /\ turn' = Waiting
           /\ UNCHANGED <<sent, sock, idVars>>
  <2>1. (~AllSent(c, out_buf[c], out_off[c])) \in BOOLEAN
    BY DEF AllSent
  <2>2. /\ read_armed' \in [Conns -> BOOLEAN] /\ write_armed' \in [Conns -> BOOLEAN]
        /\ read_armed[c] => read_armed'[c]
        /\ ~AllSent(c, out_buf[c], out_off[c]) => write_armed'[c]
        /\ \A d \in Conns : d # c =>
             read_armed'[d] = read_armed[d] /\ write_armed'[d] = write_armed[d]
    BY <1>3, <2>1, ArmMoves, Zenon DEF Attended
  <2>3. in_buf[c] \in Seq(Unit)
    BY DEF Attended, Inputs
  <2>4. /\ in_buf' \in [Conns -> Seq(Unit)]
        /\ DOMAIN out_buf' = Conns /\ DOMAIN out_off' = Conns
        /\ in_buf'[c] = in_buf[c]
        /\ out_buf'[c] = OutputAfter(c, out_buf[c], out_off[c])
        /\ out_off'[c] = OffsetAfter(c, out_buf[c], out_off[c])
        /\ \A d \in Conns : d # c => /\ in_buf'[d] = in_buf[d]
                                    /\ out_buf'[d] = out_buf[d] /\ out_off'[d] = out_off[d]
    <3>1. /\ in_buf' = [in_buf EXCEPT ![c] = in_buf[c]]
          /\ out_buf' = [out_buf EXCEPT ![c] = OutputAfter(c, out_buf[c], out_off[c])]
          /\ out_off' = [out_off EXCEPT ![c] = OffsetAfter(c, out_buf[c], out_off[c])]
      BY <1>3 DEF Buffers
    <3> QED BY <2>3, <3>1 DEF Attended, Inputs, Outputs
  <2>5. Inputs' /\ Outputs'
    BY <1>1, <1>3, <2>2, <2>4, Zenon DEF Attended, Inputs, Outputs
  <2>6. WriteCovered(c)'
    BY <2>2, <2>4, FlushCovers, Zenon
  <2>7. read_armed[c] /\ (HasRequest(c) => counter \/ events > 0)
    BY <1>1, Zenon DEF Attended, FlushShape
  <2>8. RequestCovered(c)'
    BY <1>1, <2>4, <2>7, Zenon DEF RequestCovered, HasSignal, HasRequest
  <2>9. turn'.at = "wait" /\ turn'.who = NoClient
    BY <1>3, Zenon DEF Waiting
  <2>10. FlushShape'
    BY <2>9 DEF FlushShape
  <2>11. ASSUME NEW d \in Conns, d # c
         PROVE  /\ Same(d) /\ state'[d] = state[d]
                /\ turn.who # d /\ (HasSignal(d) => HasSignal(d)')
    <3>1. Same(d) /\ state'[d] = state[d]
      BY <1>3, <2>2, <2>4, <2>11, Zenon DEF Same, idVars
    <3>2. d \notin turn.todo
      BY <1>1 DEF TurnShape
    <3> QED BY <1>1, <2>11, <3>1, <3>2 DEF HasSignal
  <2>12. state[c] = "open" /\ state' = state
    BY <1>1, <1>3, Zenon DEF idVars, TurnShape
  <2> QED BY <2>2, <2>5, <2>6, <2>7, <2>8, <2>10, <2>11, <2>12, OneClientMoves, Zenon
<1> QED BY <1>2, <1>3, Zenon DEF FlushTurn

LEMMA ReadAttended ==
  ASSUME Attended, Routes, TurnShape, NEW c \in Conns, ReadTurn(c)
  PROVE  Attended'
<1>1. /\ turn.who = c /\ turn.at = "read" /\ c # NoClient /\ state[c] = "open"
      /\ UNCHANGED <<counter, events, read_armed, write_armed>>
  BY ConnsAssumption, Zenon DEF ReadTurn, NoClient, eventVars, armVars, TurnShape
<1>2. turn' = Serving("read", c, {}) => turn'.who = c /\ turn'.at = "serve"
  BY DEF Serving, Waiting
<1>3. \A d \in Conns : d \notin turn.todo
  BY <1>1 DEF TurnShape
<1>4. CASE DropClient(c)
  <2>1. read_armed' \in [Conns -> BOOLEAN] /\ write_armed' \in [Conns -> BOOLEAN]
    BY <1>1 DEF Attended, Outputs
  <2> QED BY <1>1, <1>4, <2>1, DropAttended DEF Routes
<1>5. CASE /\ turn' = Serving("read", c, {})
           /\ UNCHANGED <<peerVars, bufVars, idVars, dbVars, ghostVars>>
  <2>1. UNCHANGED <<sent, sock, in_buf, out_buf, out_off, state, read_armed, write_armed>>
    BY <1>1, <1>5, Zenon DEF peerVars, bufVars, idVars
  <2>2. \A d \in Conns : turn'.who # d =>
          turn.who # d /\ (RequestCovered(d) => RequestCovered(d)')
    BY <1>1, <1>2, <1>3, <1>5, <2>1, Zenon DEF RequestCovered, HasSignal, HasRequest
  <2> QED BY <1>1, <1>2, <1>5, <2>1, <2>2, OnlyTurnMoves, Zenon
<1>6. ASSUME NEW s \in Conns, NEW k \in Nat, k <= Len(sock[s]),
             sock' = [sock EXCEPT ![s] = SubSeq(sock[s], k + 1, Len(sock[s]))],
             Buffers(c, in_buf[c] \o SubSeq(sock[s], 1, k), out_buf[c], out_off[c]),
             turn' = Serving("read", c, {}) \/ turn' = turn,
             UNCHANGED <<sent, idVars>>
      PROVE  Attended'
  <2>1. sock[s] \in Seq(Unit) /\ in_buf[c] \in Seq(Unit)
    BY DEF Attended, Inputs
  <2>2. SubSeq(sock[s], k + 1, Len(sock[s])) \in Seq(Unit) /\ SubSeq(sock[s], 1, k) \in Seq(Unit)
    <3>1. \A q \in Seq(Unit), j \in Nat : j <= Len(q) =>
            SubSeq(q, j + 1, Len(q)) \in Seq(Unit) /\ SubSeq(q, 1, j) \in Seq(Unit)
      OBVIOUS
    <3> QED BY <1>6, <2>1, <3>1, Zenon
  <2>3. in_buf[c] \o SubSeq(sock[s], 1, k) \in Seq(Unit)
    BY <2>1, <2>2
  <2>4. sock' \in [Conns -> Seq(Unit)]
    BY <1>6, <2>2, Zenon DEF Attended, Inputs
  <2>5. /\ in_buf' \in [Conns -> Seq(Unit)]
        /\ DOMAIN out_buf' = Conns /\ DOMAIN out_off' = Conns
        /\ \A d \in Conns : d # c => /\ in_buf'[d] = in_buf[d]
                                    /\ out_buf'[d] = out_buf[d] /\ out_off'[d] = out_off[d]
    BY <1>6, <2>3, BuffersMove, Zenon
  <2>6. Inputs' /\ Outputs'
    BY <1>1, <1>6, <2>4, <2>5, Zenon DEF Attended, Inputs, Outputs
  <2>7. turn'.who = c /\ turn'.at \in {"serve", "read"}
    BY <1>1, <1>2, <1>6, Zenon
  <2>8. FlushShape'
    BY <2>7 DEF FlushShape
  <2>9. ASSUME NEW d \in Conns, d # c
        PROVE  /\ Same(d) /\ state'[d] = state[d]
               /\ turn.who # d /\ (HasSignal(d) => HasSignal(d)')
    BY <1>1, <1>3, <1>6, <2>5, <2>9, Zenon DEF Same, idVars, HasSignal
  <2>10. state' = state
    BY <1>6 DEF idVars
  <2> QED BY <1>1, <2>6, <2>7, <2>8, <2>9, <2>10, OneClientMoves, Zenon
<1>7. Socket(c) = c
  BY <1>1, Zenon DEF Socket, Routes, Registry
<1>8. Len(sock[c]) \in Nat /\ Chunk \in Nat
  BY LimitsAssumption DEF Attended, Inputs
<1>9. Smaller(Chunk, Len(sock[c])) \in Nat /\ Smaller(Chunk, Len(sock[c])) <= Len(sock[c])
  BY <1>8 DEF Smaller
<1>10. \/ DropClient(c)
       \/ turn' = Serving("read", c, {}) /\ UNCHANGED <<peerVars, bufVars, idVars, dbVars, ghostVars>>
       \/ LET k == Smaller(Chunk, Len(sock[c])) IN
          /\ sock' = [sock EXCEPT ![c] = SubSeq(sock[c], k + 1, Len(sock[c]))]
          /\ Buffers(c, in_buf[c] \o SubSeq(sock[c], 1, k), out_buf[c], out_off[c])
          /\ turn' = Serving("read", c, {}) \/ turn' = turn
          /\ UNCHANGED <<sent, idVars>>
  BY <1>1, <1>7, Zenon DEF ReadTurn
<1> QED BY <1>4, <1>5, <1>6, <1>9, <1>10, Zenon

LEMMA AnsweredAttended ==
  ASSUME Attended, TurnShape, NEW c \in Conns, NEW trusted \in BOOLEAN, Answered(c, trusted),
         turn.who = c, turn.at \in {"serve", "publish"},
         UNCHANGED <<counter, events, read_armed, write_armed>>
  PROVE  Attended'
<1>1. in_buf[c] \in Seq(Unit)
  BY DEF Attended, Inputs
<1>2. Buffers(c, in_buf[c], Append(out_buf[c], NextId(c)), out_off[c])
  BY DEF Answered
<1>3. /\ in_buf' \in [Conns -> Seq(Unit)]
      /\ DOMAIN out_buf' = Conns /\ DOMAIN out_off' = Conns
      /\ \A d \in Conns : d # c => /\ in_buf'[d] = in_buf[d]
                                  /\ out_buf'[d] = out_buf[d] /\ out_off'[d] = out_off[d]
  BY <1>1, <1>2, BuffersMove, Zenon
<1>4. UNCHANGED <<sent, sock, state>> /\ state[c] = "open"
  BY DEF Answered, Fits, peerVars
<1>5. Inputs' /\ Outputs'
  BY <1>3, <1>4 DEF Attended, Inputs, Outputs
<1>6. turn'.at = "serve" /\ turn'.who = c /\ turn'.todo = turn.todo
  BY DEF Answered, Consumed, TurnShape
<1>7. FlushShape'
  BY <1>6 DEF FlushShape
<1>8. ASSUME NEW d \in Conns, d # c
      PROVE  /\ Same(d) /\ state'[d] = state[d]
             /\ turn.who # d /\ (HasSignal(d) => HasSignal(d)')
  <2>1. HasSignal(d) => HasSignal(d)'
    BY <1>6 DEF HasSignal
  <2> QED BY <1>3, <1>4, <1>8, <2>1, Zenon DEF Same
<1> QED BY <1>4, <1>5, <1>6, <1>7, <1>8, OneClientMoves, Zenon

LEMMA DeliverAttended ==
  ASSUME Attended, Routes, TurnShape, NEW f \in Fds, Deliver(f)
  PROVE  Attended'
<1>1. /\ turn.at = "publish" /\ turn'.at = "publish" /\ turn'.who = turn.who
      /\ turn'.todo = turn.todo /\ UNCHANGED <<counter, events>>
  BY DEF Deliver, TurnShape, eventVars
<1>2. \A d \in Conns : HasSignal(d) => HasSignal(d)'
  BY <1>1 DEF HasSignal
<1>3. FlushShape'
  BY <1>1 DEF FlushShape
<1>4. clients[f] # NoClient => clients[f] \in Conns /\ state[clients[f]] = "open"
  BY DEF Routes, ConnTypes, Registry
<1>5. CASE UNCHANGED <<peerVars, bufVars, idVars, armVars, dbVars, ghostVars>>
  <2>1. UNCHANGED <<sent, sock, in_buf, out_buf, out_off, state, read_armed, write_armed>>
    BY <1>5 DEF peerVars, bufVars, idVars, armVars
  <2>2. \A d \in Conns : RequestCovered(d) => RequestCovered(d)'
    BY <1>2, <2>1 DEF RequestCovered, HasRequest
  <2> QED BY <1>1, <2>1, <2>2, OnlyTurnMoves
<1>6. ASSUME NEW t \in Conns, Close(t), UNCHANGED armVars
      PROVE  Attended'
  <2>1. UNCHANGED <<read_armed, write_armed>>
    BY <1>6 DEF armVars
  <2>2. /\ Inputs' /\ state'[t] = "closed"
        /\ DOMAIN out_buf' = Conns /\ DOMAIN out_off' = Conns
        /\ \A d \in Conns : d # t =>
             /\ state'[d] = state[d] /\ in_buf'[d] = in_buf[d]
             /\ out_buf'[d] = out_buf[d] /\ out_off'[d] = out_off[d]
    BY <1>6, CloseMoves, Zenon DEF Routes
  <2>3. Outputs'
    BY <1>1, <2>1, <2>2, Zenon DEF Attended, Outputs
  <2>4. \A d \in Conns : d # t => Same(d) /\ state'[d] = state[d]
    BY <2>1, <2>2, Zenon DEF Same
  <2> QED BY <1>1, <1>2, <1>3, <1>6, <2>2, <2>3, <2>4, OneClientMoves, Zenon
<1>7. ASSUME NEW t \in Conns, state[t] = "open", NEW output,
             Buffers(t, in_buf[t], OutputAfter(t, output, out_off[t]),
                     OffsetAfter(t, output, out_off[t])),
             ArmClient(t, ~AllSent(t, output, out_off[t]), FALSE),
             UNCHANGED <<sent, sock, idVars>>
      PROVE  Attended'
  <2>1. state[t] = "open" /\ state' = state
    BY <1>7, Zenon DEF idVars
  <2>2. (~AllSent(t, output, out_off[t])) \in BOOLEAN
    BY DEF AllSent
  <2>3. /\ read_armed' \in [Conns -> BOOLEAN] /\ write_armed' \in [Conns -> BOOLEAN]
        /\ read_armed[t] => read_armed'[t]
        /\ ~AllSent(t, output, out_off[t]) => write_armed'[t]
        /\ \A d \in Conns : d # t =>
             read_armed'[d] = read_armed[d] /\ write_armed'[d] = write_armed[d]
    BY <1>7, <2>1, <2>2, ArmMoves, Zenon DEF Attended
  <2>4. in_buf[t] \in Seq(Unit)
    BY <2>1 DEF Attended, Inputs
  <2>5. /\ in_buf' \in [Conns -> Seq(Unit)]
        /\ DOMAIN out_buf' = Conns /\ DOMAIN out_off' = Conns
        /\ in_buf'[t] = in_buf[t]
        /\ out_buf'[t] = OutputAfter(t, output, out_off[t])
        /\ out_off'[t] = OffsetAfter(t, output, out_off[t])
        /\ \A d \in Conns : d # t => /\ in_buf'[d] = in_buf[d]
                                    /\ out_buf'[d] = out_buf[d] /\ out_off'[d] = out_off[d]
    <3>1. /\ in_buf' = [in_buf EXCEPT ![t] = in_buf[t]]
          /\ out_buf' = [out_buf EXCEPT ![t] = OutputAfter(t, output, out_off[t])]
          /\ out_off' = [out_off EXCEPT ![t] = OffsetAfter(t, output, out_off[t])]
      BY <1>7 DEF Buffers
    <3> QED BY <2>4, <3>1 DEF Attended, Inputs, Outputs
  <2>6. Inputs' /\ Outputs'
    BY <1>1, <1>7, <2>3, <2>5, Zenon DEF Attended, Inputs, Outputs
  <2>7. WriteCovered(t)'
    BY <2>1, <2>3, <2>5, FlushCovers, Zenon
  <2>8. turn.who # t => read_armed'[t] /\ RequestCovered(t)'
    <3>1. turn.who # t => read_armed[t] /\ RequestCovered(t)
      BY <2>1, NobodyForgottenParts DEF Attended
    <3>2. HasRequest(t)' <=> HasRequest(t)
      BY <2>5, Zenon DEF HasRequest
    <3>3. RequestCovered(t) => RequestCovered(t)'
      BY <1>2, <2>1, <3>2 DEF RequestCovered
    <3> QED BY <2>3, <3>1, <3>3, Zenon
  <2>9. \A d \in Conns : d # t => Same(d)
    BY <2>3, <2>5, Zenon DEF Same
  <2> QED BY <1>1, <1>2, <1>3, <2>1, <2>6, <2>7, <2>8, <2>9, OneClientMoves, Zenon
<1>8. CASE clients[f] # NoClient /\ Close(clients[f]) /\ UNCHANGED armVars
  BY <1>4, <1>6, <1>8, Zenon
<1>9. CASE /\ clients[f] # NoClient
           /\ LET t == clients[f]
                  output == Append(out_buf[t], Message) IN
              /\ Buffers(t, in_buf[t], OutputAfter(t, output, out_off[t]),
                         OffsetAfter(t, output, out_off[t]))
              /\ ArmClient(t, ~AllSent(t, output, out_off[t]), FALSE)
              /\ UNCHANGED <<sent, sock, idVars>>
  BY <1>4, <1>7, <1>9, Zenon
<1> QED BY <1>5, <1>8, <1>9, Zenon DEF Deliver

LEMMA AcceptAttended ==
  ASSUME Attended, Routes, TurnShape, NEW c \in Conns, NEW f \in Fds, AcceptClient(c, f)
  PROVE  Attended'
<1>1. state[c] = "new" /\ turn.at = "wait" /\ c # NoClient
  BY ConnsAssumption, Zenon DEF AcceptClient, Routes, Registry, NoClient
<1>2. /\ UNCHANGED <<sent, sock, in_buf, out_buf, out_off, counter, events, turn>>
      /\ ArmClient(c, FALSE, TRUE) /\ state' = [state EXCEPT ![c] = "open"]
  BY Zenon DEF AcceptClient, bufVars, eventVars
<1>3. /\ read_armed' \in [Conns -> BOOLEAN] /\ write_armed' \in [Conns -> BOOLEAN]
      /\ read_armed'[c]
      /\ \A d \in Conns : d # c =>
           read_armed'[d] = read_armed[d] /\ write_armed'[d] = write_armed[d]
  BY <1>2, ArmMoves, Zenon DEF Attended
<1>4. in_buf[c] = <<>> /\ out_buf[c] = <<>> /\ out_off[c] = 0
  BY <1>1 DEF Attended, Fresh
<1>5. WriteCovered(c)' /\ RequestCovered(c)'
  <2>1. in_buf'[c] = <<>> /\ out_buf'[c] = <<>> /\ out_off'[c] = 0
    BY <1>2, <1>4, Zenon
  <2>2. ~(PendingOut(c)' > 0)
    BY <2>1 DEF PendingOut
  <2>3. ~HasRequest(c)'
    BY <2>1 DEF HasRequest
  <2> QED BY <2>2, <2>3 DEF WriteCovered, RequestCovered
<1>6. Inputs' /\ Outputs'
  BY <1>2, <1>3, Zenon DEF Attended, Inputs, Outputs
<1>7. FlushShape'
  BY <1>1, <1>2 DEF FlushShape
<1>8. \A d \in Conns : d # c =>
        Same(d) /\ state'[d] = state[d] /\ (HasSignal(d) => HasSignal(d)')
  BY <1>2, <1>3, Zenon DEF Same, HasSignal, Routes, ConnTypes
<1>9. state'[c] = "open" /\ turn'.who = turn.who
  BY <1>2 DEF Routes, ConnTypes
<1> QED BY <1>3, <1>5, <1>6, <1>7, <1>8, <1>9, OneClientMoves, Zenon

LEMMA ReadyAttended ==
  ASSUME Attended, TurnShape, NEW c \in Conns, ReadReady(c) \/ WriteReady(c)
  PROVE  Attended'
<1>1. /\ turn.at = "wait" /\ turn.who = NoClient /\ turn.todo = {} /\ c # NoClient
      /\ state[c] = "open"
  BY ConnsAssumption, Zenon DEF ReadReady, WriteReady, TurnShape, NoClient
<1>2. UNCHANGED <<sent, sock, in_buf, out_buf, out_off, state, counter, events>>
  BY DEF ReadReady, WriteReady, peerVars, bufVars, idVars, eventVars
<1>3. /\ \/ read_armed' = [read_armed EXCEPT ![c] = FALSE] /\ write_armed' = write_armed
         \/ write_armed' = [write_armed EXCEPT ![c] = FALSE] /\ read_armed' = read_armed
      /\ turn'.who = c /\ turn'.todo = {} /\ turn'.at \in {"read", "flush"}
      /\ turn'.at = "flush" => read_armed' = read_armed
  BY <1>1, Zenon DEF ReadReady, WriteReady, TurnShape
<1>4. Inputs' /\ Outputs'
  BY <1>2, <1>3, Zenon DEF Attended, Inputs, Outputs
<1>5. read_armed[c] /\ RequestCovered(c)
  BY <1>1, NobodyForgottenParts, Zenon DEF Attended
<1>6. HasRequest(c) => counter \/ events > 0
  BY <1>1, <1>5, Zenon DEF RequestCovered, HasSignal
<1>7. FlushShape'
  BY <1>2, <1>3, <1>5, <1>6 DEF FlushShape, HasRequest
<1>8. \A d \in Conns : d # c => Same(d) /\ (HasSignal(d) => HasSignal(d)')
  BY <1>1, <1>2, <1>3, Zenon DEF Same, HasSignal, Attended, Outputs
<1>9. \A d \in Conns : turn.who # d
  BY <1>1, ConnsAssumption, Zenon DEF NoClient
<1> QED BY <1>1, <1>2, <1>3, <1>4, <1>7, <1>8, <1>9, OneClientMoves, Zenon

LEMMA CloseLateAttended ==
  ASSUME Attended, Routes, TurnShape, NEW c \in Conns, CloseLate(c)
  PROVE  Attended'
<1>1. /\ turn.at = "sweep" /\ turn'.at = "sweep" /\ turn'.who = turn.who /\ Close(c)
      /\ UNCHANGED <<read_armed, write_armed, counter, events>>
  BY DEF CloseLate, TurnShape, armVars, eventVars
<1>2. /\ Inputs' /\ state'[c] = "closed"
      /\ DOMAIN out_buf' = Conns /\ DOMAIN out_off' = Conns
      /\ \A d \in Conns : d # c =>
           /\ state'[d] = state[d] /\ in_buf'[d] = in_buf[d]
           /\ out_buf'[d] = out_buf[d] /\ out_off'[d] = out_off[d]
  BY <1>1, CloseMoves, Zenon DEF Routes
<1>3. Outputs'
  BY <1>1, <1>2, Zenon DEF Attended, Outputs
<1>4. FlushShape'
  BY <1>1 DEF FlushShape
<1>5. \A d \in Conns : d # c =>
        Same(d) /\ state'[d] = state[d] /\ (HasSignal(d) => HasSignal(d)')
  BY <1>1, <1>2 DEF Same, HasSignal
<1> QED BY <1>1, <1>2, <1>3, <1>4, <1>5, OneClientMoves, Zenon

(* The eventfd: its read takes the signal with it, and the completion      *)
(* starts a pump that has every open client in its snapshot.               *)
LEMMA EventfdAttended ==
  ASSUME Attended, TurnShape, EventfdCompletes \/ EventfdReady
  PROVE  Attended'
<1>1. UNCHANGED <<sent, sock, in_buf, out_buf, out_off, state, read_armed, write_armed>>
  BY DEF EventfdCompletes, EventfdReady, peerVars, bufVars, idVars, armVars
<1>2. \/ events' = events + 1 /\ turn' = turn
      \/ /\ events' = events - 1 /\ events > 0 /\ turn.who = NoClient
         /\ turn'.at = "pump" /\ turn'.todo = Open /\ turn'.who = turn.who
  BY Zenon DEF EventfdCompletes, EventfdReady, TurnShape
<1>3. Inputs' /\ Fresh'
  BY <1>1, Zenon DEF Attended, Inputs, Fresh
<1>4. Outputs'
  BY <1>1, <1>2 DEF Attended, Outputs
<1>5. turn'.at = "flush" => turn' = turn /\ events' > 0
  BY <1>2 DEF Attended, Outputs
<1>6. FlushShape'
  <2> SUFFICES ASSUME turn'.at = "flush"
               PROVE  read_armed'[turn'.who] /\ events' > 0
    BY DEF FlushShape
  <2>1. turn' = turn /\ events' > 0
    BY <1>5
  <2>2. read_armed[turn.who]
    BY <2>1 DEF Attended, FlushShape
  <2> QED BY <1>1, <2>1, <2>2
<1>7. ASSUME NEW d \in Conns, state'[d] = "open" /\ turn'.who # d
      PROVE  read_armed'[d] /\ WriteCovered(d)' /\ RequestCovered(d)'
  <2>1. state[d] = "open" /\ turn.who # d
    BY <1>1, <1>2, <1>7
  <2>2. read_armed[d] /\ WriteCovered(d)
    BY <2>1, NobodyForgottenParts DEF Attended
  <2>3. WriteCovered(d)'
    BY <1>1, <2>2 DEF WriteCovered, PendingOut
  <2>4. events' > 0 \/ (turn'.at # "sweep" /\ d \in turn'.todo)
    BY <1>2, <2>1 DEF Attended, Outputs, Open
  <2> QED BY <1>1, <2>2, <2>3, <2>4 DEF RequestCovered, HasSignal
<1>8. NobodyForgotten'
  BY <1>7, NobodyForgottenPartsNext
<1> QED BY <1>3, <1>4, <1>6, <1>8 DEF Attended

(* A peer sends what the types allow.                                      *)
LEMMA PeerSendsAttended ==
  ASSUME Attended, NEW c \in Conns, NEW kind \in Requests[c], PeerSends(c, kind)
  PROVE  Attended'
<1>1. /\ UNCHANGED <<in_buf, out_buf, out_off, state, read_armed, write_armed>>
      /\ UNCHANGED <<counter, events, turn>>
  BY DEF PeerSends, bufVars, idVars, armVars, eventVars
<1>2. sent' \in [Conns -> Nat]
  <2>1. sent \in [Conns -> Nat]
    BY DEF Attended, Inputs
  <2>2. sent' = sent \/ sent' = [sent EXCEPT ![c] = sent[c] + 1]
    BY Zenon DEF PeerSends
  <2> QED BY <2>1, <2>2
<1>3. [kind |-> kind, id |-> sent'[c]] \in Unit
  BY <1>2, ConnsAssumption, Zenon DEF Unit
<1>4. sock' = [sock EXCEPT ![c] = Append(sock[c], [kind |-> kind, id |-> sent'[c]])]
  BY DEF PeerSends
<1>5. sock[c] \in Seq(Unit)
  BY DEF Attended, Inputs
<1>6. Append(sock[c], [kind |-> kind, id |-> sent'[c]]) \in Seq(Unit)
  <2>1. \A s \in Seq(Unit), u \in Unit : Append(s, u) \in Seq(Unit)
    OBVIOUS
  <2> QED BY <1>3, <1>5, <2>1, Zenon
<1>7. Inputs'
  BY <1>1, <1>2, <1>4, <1>6, Zenon DEF Attended, Inputs
<1>8. Outputs' /\ Fresh' /\ FlushShape'
  BY <1>1, Zenon DEF Attended, Outputs, Fresh, FlushShape, HasRequest
<1>9. NobodyForgotten'
  BY <1>1, Zenon DEF Attended, NobodyForgotten, Open, PendingOut, HasRequest
<1> QED BY <1>7, <1>8, <1>9 DEF Attended

LEMMA AttendedStep ==
  ASSUME Attended, Routes, TurnShape, [Next]_vars
  PROVE  Attended'
<1> USE DEF Routes
<1>1. CASE \/ UNCHANGED vars \/ CqeLost \/ AcceptFails \/ FirstWaitTimeout \/ SubmitBacklog
           \/ \E c \in Conns : \/ Connect(c) \/ PeerReads(c) \/ PeerCloses(c) \/ AcceptRefused(c)
                               \/ \E dir \in {"in", "out"} : StaleTicket(c, dir)
  <2>1. /\ UNCHANGED <<sent, sock, in_buf, out_buf, out_off, state, read_armed, write_armed>>
        /\ UNCHANGED <<counter, events, turn>>
    <3>1. CASE UNCHANGED vars
      BY <3>1 DEF vars, peerVars, bufVars, idVars, armVars, eventVars
    <3>2. CASE CqeLost \/ AcceptFails \/ FirstWaitTimeout \/ SubmitBacklog
      BY <3>2, Zenon DEF CqeLost, AcceptFails, FirstWaitTimeout, SubmitBacklog, peerVars, bufVars,
        idVars, armVars, eventVars
    <3>3. ASSUME NEW c \in Conns, Connect(c) \/ PeerReads(c) \/ PeerCloses(c) \/ AcceptRefused(c)
          PROVE  /\ UNCHANGED <<sent, sock, in_buf, out_buf, out_off, state>>
                 /\ UNCHANGED <<read_armed, write_armed, counter, events, turn>>
      BY <3>3, Zenon DEF Connect, PeerReads, PeerCloses, AcceptRefused, bufVars, idVars, armVars,
        eventVars
    <3>4. ASSUME NEW c \in Conns, NEW dir \in {"in", "out"}, StaleTicket(c, dir)
          PROVE  /\ UNCHANGED <<sent, sock, in_buf, out_buf, out_off, state>>
                 /\ UNCHANGED <<read_armed, write_armed, counter, events, turn>>
      BY <3>4 DEF StaleTicket, peerVars, bufVars, idVars, armVars, eventVars
    <3> QED BY <1>1, <3>1, <3>2, <3>3, <3>4
  <2>2. \A d \in Conns : RequestCovered(d) => RequestCovered(d)'
    BY <2>1 DEF RequestCovered, HasRequest, HasSignal
  <2> QED BY <2>1, <2>2, OnlyTurnMoves
<1>2. CASE Sweep \/ EndSweep \/ PumpDone
  <2>1. /\ UNCHANGED <<sent, sock, in_buf, out_buf, out_off, state, read_armed, write_armed>>
        /\ UNCHANGED <<counter, events>>
    BY <1>2, Zenon DEF Sweep, EndSweep, PumpDone, peerVars, bufVars, idVars, armVars, eventVars
  <2>2. turn'.at # "flush" /\ turn.who = NoClient /\ turn'.who = NoClient
    <3>1. turn.who = NoClient
      BY <1>2, Zenon DEF Sweep, EndSweep, PumpDone, TurnShape
    <3>2. CASE Sweep
      <4>1. PICK late : turn' = [turn EXCEPT !.at = "sweep", !.todo = late]
        BY <3>2, Zenon DEF Sweep
      <4> QED BY <3>1, <4>1 DEF TurnShape
    <3>3. CASE EndSweep \/ PumpDone
      <4>1. turn' = Waiting
        BY <3>3, Zenon DEF EndSweep, PumpDone
      <4> QED BY <3>1, <4>1 DEF Waiting
    <3> QED BY <1>2, <3>2, <3>3
  <2>3. ASSUME NEW d \in Conns, state[d] = "open", RequestCovered(d), HasRequest(d)
        PROVE  counter \/ events > 0
    <3>1. HasSignal(d)
      BY <2>3 DEF RequestCovered
    <3>2. turn.at # "sweep" => d \notin turn.todo
      BY <1>2, <2>3, Zenon DEF Sweep, EndSweep, PumpDone, Pumpable, HasRequest, TurnShape
    <3> QED BY <3>1, <3>2 DEF HasSignal
  <2>4. ASSUME NEW d \in Conns, state[d] = "open", RequestCovered(d)
        PROVE  RequestCovered(d)'
    <3>1. HasRequest(d)' <=> HasRequest(d)
      BY <2>1 DEF HasRequest
    <3> QED BY <2>1, <2>3, <2>4, <3>1 DEF RequestCovered, HasSignal
  <2> QED BY <2>1, <2>2, <2>4, OnlyTurnMoves, Zenon
<1>3. ASSUME NEW c \in Conns, PumpNext(c) \/ \E ch \in Channels : Publish(c, ch)
      PROVE  Attended'
  <2>1. /\ UNCHANGED <<sent, sock, in_buf, out_buf, out_off, state, read_armed, write_armed>>
        /\ UNCHANGED <<counter, events>>
    BY <1>3, Zenon DEF PumpNext, Publish, peerVars, bufVars, idVars, armVars, eventVars
  <2>2. /\ turn'.at \in {"serve", "publish"} /\ turn'.who = c
        /\ turn.who \in {c, NoClient} /\ turn.todo \ {c} \subseteq turn'.todo
    BY <1>3, Zenon DEF PumpNext, Publish, Serving, Waiting, AtRequest, TurnShape
  <2>3. ASSUME NEW d \in Conns, d # c
        PROVE  turn.who # d /\ (RequestCovered(d) => RequestCovered(d)')
    <3>1. HasRequest(d)' <=> HasRequest(d)
      BY <2>1 DEF HasRequest
    <3>2. HasSignal(d) => HasSignal(d)'
      BY <2>1, <2>2, <2>3 DEF HasSignal
    <3>3. turn.who # d
      BY <2>2, <2>3, ConnsAssumption, Zenon DEF NoClient
    <3> QED BY <3>1, <3>2, <3>3 DEF RequestCovered
  <2> QED BY <2>1, <2>2, <2>3, OnlyTurnMoves, Zenon
<1>4. ASSUME NEW c \in Conns, Authenticate(c) \/ NoAuth(c) \/ EndPublish(c) \/ Execute(c) \/ LastAnswer(c)
      PROVE  Attended'
  <2>1. turn.who = c /\ turn.at \in {"serve", "publish"}
    BY <1>4, Zenon DEF Authenticate, NoAuth, EndPublish, Execute, LastAnswer, AtRequest
  <2>2. UNCHANGED <<counter, events, read_armed, write_armed>>
    BY <1>4, Zenon DEF Authenticate, NoAuth, EndPublish, Execute, LastAnswer, armVars, eventVars
  <2>3. DropClient(c) \/ \E t \in BOOLEAN : Answered(c, t)
    BY <1>4, Zenon DEF Authenticate, NoAuth, EndPublish, Execute, LastAnswer, Overflows
  <2>4. read_armed' \in [Conns -> BOOLEAN] /\ write_armed' \in [Conns -> BOOLEAN]
    BY <2>2 DEF Attended, Outputs
  <2>5. CASE DropClient(c)
    BY <2>1, <2>2, <2>4, <2>5, DropAttended
  <2> QED BY <2>1, <2>2, <2>3, <2>5, AnsweredAttended
<1> HIDE DEF Routes
<1>5. CASE PeerStep
  BY <1>5, <1>1, PeerSendsAttended, Zenon DEF PeerStep
<1>6. CASE Completion
  BY <1>6, <1>1, EventfdAttended, ReadyAttended, AcceptAttended, Zenon DEF Completion
<1>7. CASE TurnStep
  <2>1. ASSUME NEW c \in Conns, FlushTurn(c) \/ ReadTurn(c) \/ EndServe(c) \/ CloseLate(c)
        PROVE  Attended'
    BY <2>1, FlushAttended, ReadAttended, EndServeAttended, CloseLateAttended, Zenon DEF Routes
  <2> QED BY <1>7, <1>2, <1>3, <1>4, <2>1, DeliverAttended, Zenon DEF TurnStep
<1> QED BY <1>1, <1>2, <1>5, <1>6, <1>7, EventfdAttended, Zenon DEF Next

(* NobodyForgotten: whatever closes, fills up or is interrupted when, each *)
(* handler of the loop ends with the polls armed and the eventfd signalled *)
(* that its clients still need.                                            *)
THEOREM NobodyForgottenHolds == Spec => []NobodyForgotten
<1>1. Init => Attended
  <2> SUFFICES ASSUME Init PROVE Attended
    OBVIOUS
  <2>1. Inputs /\ Outputs /\ Fresh
    BY DEF Init, Inputs, Outputs, Fresh
  <2>2. FlushShape
    BY DEF Init, FlushShape, Waiting
  <2>3. NobodyForgotten
    BY Zenon DEF Init, NobodyForgotten, Open
  <2> QED BY <2>1, <2>2, <2>3 DEF Attended
<1>2. Attended /\ Routes /\ TurnShape /\ [Next]_vars => Attended'
  BY AttendedStep
<1>3. Attended => NobodyForgotten
  BY DEF Attended
<1> QED
  BY <1>1, <1>2, <1>3, RoutesInvariant, PTL DEF Spec
=============================================================================
