------------------------------ MODULE EventLoop ------------------------------
(***************************************************************************)
(* The command thread: the io_uring loop of main.cpp, the connections of   *)
(* net/connection.cpp and the publish/subscribe routes of core/pubsub.cpp. *)
(*                                                                         *)
(* A Client object is identified with its connection; a descriptor is a    *)
(* small number that the kernel hands out again after close().  A buffer   *)
(* is a sequence of units: a request is one unit (a long one two), an      *)
(* answer and a published message one each.  What runs between two system  *)
(* calls of the thread is one step, so that peers act in between.          *)
(***************************************************************************)
EXTENDS Integers, Sequences, FiniteSets, Functions

CONSTANTS
  Conns,        \* connections, each made at most once
  Fds,          \* descriptors for connections; the kernel hands out the lowest
  Channels,
  Reader,       \* a connection whose peer keeps reading
  Requests,     \* the kinds of requests each peer sends
  MaxSent,      \* bound on the number of requests of each peer
  MaxArmed,     \* bound on the accepts and eventfd reads of the first wait
  Settings,     \* pairs of whether there is a password, and SOMNIUM_MAXCLIENTS
  Entries,      \* URING_ENTRIES
  Budget,       \* MAX_COMMANDS_PER_TURN
  Chunk,        \* READ_CHUNK
  InputCap,     \* MAX_INPUT_BUFFER
  OutputCap,    \* Database::MAX_REPLY
  UnauthCap,    \* MAX_UNAUTH_BUFFER
  MaxBuffers,   \* SOMNIUM_MAX_CLIENT_BUFFERS
  SendSpace,    \* what the kernel keeps for a peer that does not read
  Faults        \* subset of {"sqe", "sqe_eventfd", "lost_cqe", "accept"}

(* ROOM, SUBSCRIBE, UNSUBSCRIBE, PUBLISH and AUTH; "long" is any command   *)
(* that arrives in two pieces, "rest" its second piece; "last" is QUIT, or *)
(* input that cannot be parsed.                                            *)
Kinds == {"room", "sub", "unsub", "pub", "auth", "long", "rest", "last"}

ASSUME ConnsAssumption ==
  /\ IsFiniteSet(Conns) /\ Fds \subseteq Nat /\ "no client" \notin Conns
  /\ Requests \in [Conns -> SUBSET Kinds] /\ MaxSent \in [Conns -> Nat]
  /\ Settings \subseteq BOOLEAN \X (Nat \ {0})
ASSUME LimitsAssumption ==
  /\ {Entries, Budget, Chunk, InputCap, UnauthCap, SendSpace} \subseteq Nat \ {0}
  /\ {OutputCap, MaxBuffers, MaxArmed} \subseteq Nat

NoFd == -1
NoClient == "no client"
NoRoom == "no room"
Message == 0             \* in out_buf: a published message; n: the answer to request n

VARIABLES
  peer,         \* what the other end of the connection does
  sent,         \* number of requests it has sent
  sock,         \* units in the socket, not yet read by the server
  wire,         \* units sent to the peer, not yet read by it
  got,          \* number of answers the peer has read
  state,        \* "new", "open" or "closed": Client::closed
  fd,           \* Client::fd
  in_buf, out_buf, out_off,
  authenticated,
  held,         \* Client::held
  g_client_buffers,
  read_armed, write_armed,
  arm_backlog,  \* tickets waiting for a submission entry
  ring,         \* number of polls in the ring, per ticket
  clients,      \* the registry, by descriptor
  client_rooms, client_subscriptions, channel_subscribers,
  accepts,      \* accept operations in the ring
  accept_paused,
  first_wait,
  reads,        \* eventfd reads in the ring
  counter,      \* the eventfd is not zero
  events,       \* completions of eventfd reads
  turn,         \* what the thread is doing
  password,     \* SOMNIUM_PASSWORD is set
  maxclients,   \* SOMNIUM_MAXCLIENTS, as fit_fd_limit() leaves it
  ran,          \* ghost: requests of a connection that were executed
  ownRoom,      \* ghost: the room a connection has selected itself
  ownChannels   \* ghost: the channels it has subscribed to itself

peerVars == <<peer, sent, sock, wire, got>>
bufVars == <<in_buf, out_buf, out_off, held, g_client_buffers>>
idVars == <<state, fd, authenticated, clients>>
armVars == <<read_armed, write_armed, arm_backlog>>
dbVars == <<client_rooms, client_subscriptions, channel_subscribers>>
acceptVars == <<accepts, accept_paused, first_wait>>
eventVars == <<reads, counter, events>>
cfgVars == <<password, maxclients>>
ghostVars == <<ran, ownRoom, ownChannels>>
vars == <<peerVars, bufVars, idVars, armVars, ring, dbVars, acceptVars, eventVars,
          turn, cfgVars, ghostVars>>

Smaller(a, b) == IF a <= b THEN a ELSE b
Tickets == Conns \X {"in", "out"}
Unit == [kind : Kinds, id : Nat]
Open == {c \in Conns : state[c] = "open"}
Waiting == [at |-> "wait", who |-> NoClient, via |-> "read", todo |-> {}, pos |-> 0,
            n |-> 0, targets |-> {}]

Init ==
  /\ peer = [c \in Conns |-> "none"]
  /\ sent = [c \in Conns |-> 0]
  /\ sock = [c \in Conns |-> <<>>]
  /\ wire = [c \in Conns |-> <<>>]
  /\ got = [c \in Conns |-> 0]
  /\ state = [c \in Conns |-> "new"]
  /\ fd = [c \in Conns |-> NoFd]
  /\ in_buf = [c \in Conns |-> <<>>]
  /\ out_buf = [c \in Conns |-> <<>>]
  /\ out_off = [c \in Conns |-> 0]
  /\ authenticated = [c \in Conns |-> FALSE]
  /\ held = [c \in Conns |-> 0]
  /\ g_client_buffers = 0
  /\ read_armed = [c \in Conns |-> FALSE]
  /\ write_armed = [c \in Conns |-> FALSE]
  /\ arm_backlog = <<>>
  /\ ring = [t \in Tickets |-> 0]
  /\ clients = [f \in Fds |-> NoClient]
  /\ client_rooms = [f \in Fds |-> NoRoom]
  /\ client_subscriptions = [f \in Fds |-> {}]
  /\ channel_subscribers = [ch \in Channels |-> {}]
  /\ accepts = 1 /\ accept_paused = FALSE /\ first_wait = TRUE
  /\ reads = 1 /\ counter = FALSE /\ events = 0
  /\ turn = Waiting
  /\ \E s \in Settings : password = s[1] /\ maxclients = s[2]
  /\ ran = [c \in Conns |-> 0]
  /\ ownRoom = [c \in Conns |-> NoRoom]
  /\ ownChannels = [c \in Conns |-> {}]

-----------------------------------------------------------------------------
(* The peers and the kernel                                                *)

Connect(c) ==
  /\ peer[c] = "none"
  /\ peer' = [peer EXCEPT ![c] = "queued"]
  /\ UNCHANGED <<sent, sock, wire, got, bufVars, idVars, armVars, ring, dbVars, acceptVars,
                 eventVars, turn, cfgVars, ghostVars>>

(* A request, or the first half of a long one, or its second half.         *)
PeerSends(c, kind) ==
  /\ state[c] = "open"
  /\ \/ /\ peer[c] = "alive" /\ kind # "rest" /\ sent[c] < MaxSent[c]
        /\ sent' = [sent EXCEPT ![c] = @ + 1]
        /\ peer' = [peer EXCEPT ![c] = IF kind = "long" THEN "midway" ELSE "alive"]
     \/ /\ peer[c] = "midway" /\ kind = "rest"
        /\ peer' = [peer EXCEPT ![c] = "alive"]
        /\ UNCHANGED sent
  /\ sock' = [sock EXCEPT ![c] = Append(@, [kind |-> kind, id |-> sent'[c]])]
  /\ UNCHANGED <<wire, got, bufVars, idVars, armVars, ring, dbVars, acceptVars, eventVars,
                 turn, cfgVars, ghostVars>>

PeerReads(c) ==
  /\ peer[c] \in {"alive", "midway"} /\ wire[c] # <<>>
  /\ wire' = [wire EXCEPT ![c] = Tail(@)]
  /\ got' = [got EXCEPT ![c] = IF Head(wire[c]) = Message THEN @ ELSE @ + 1]
  /\ UNCHANGED <<peer, sent, sock, bufVars, idVars, armVars, ring, dbVars, acceptVars,
                 eventVars, turn, cfgVars, ghostVars>>

PeerCloses(c) ==
  /\ state[c] = "open" /\ peer[c] \in {"alive", "midway"}
  /\ peer' = [peer EXCEPT ![c] = "gone"]
  /\ UNCHANGED <<sent, sock, wire, got, bufVars, idVars, armVars, ring, dbVars, acceptVars,
                 eventVars, turn, cfgVars, ghostVars>>

(* A read of the eventfd takes the counter when it completes, which is     *)
(* before the loop gets to see the completion.                             *)
EventfdCompletes ==
  /\ counter /\ reads > 0
  /\ counter' = FALSE /\ reads' = reads - 1 /\ events' = events + 1
  /\ UNCHANGED <<peerVars, bufVars, idVars, armVars, ring, dbVars, acceptVars, turn, cfgVars,
                 ghostVars>>

-----------------------------------------------------------------------------
(* net/connection.cpp                                                      *)

InputLimit(c) == IF authenticated[c] THEN InputCap ELSE UnauthCap
OutputLimit(trusted) == IF trusted THEN OutputCap ELSE UnauthCap
PendingOut(c) == Len(out_buf[c]) - out_off[c]

(* The descriptor decides whose socket a system call reaches.              *)
Socket(c) == clients[fd[c]]

Track(c, bytes) ==
  /\ held' = [held EXCEPT ![c] = bytes]
  /\ g_client_buffers' = g_client_buffers - held[c] + bytes

(* The buffers of c after a change, tracked.                               *)
Buffers(c, input, output, off) ==
  /\ in_buf' = [in_buf EXCEPT ![c] = input]
  /\ out_buf' = [out_buf EXCEPT ![c] = output]
  /\ out_off' = [out_off EXCEPT ![c] = off]
  /\ Track(c, Len(input) + Len(output))

(* enqueue_output(): whether one more unit fits.                           *)
Fits(c, trusted, output, off) ==
  /\ state[c] = "open"
  /\ Len(output) - off + 1 <= OutputLimit(trusted)
  /\ g_client_buffers + 1 <= MaxBuffers

(* flush_output() of output from off: how much the socket takes.           *)
Sendable(c, output, off) ==
  IF Socket(c) = NoClient THEN 0
  ELSE Smaller(Len(output) - off, SendSpace - Len(wire[Socket(c)]))

(* The connection is broken: reads see its end, sends may fail.            *)
Broken(c) == Socket(c) = NoClient \/ peer[Socket(c)] = "gone"

Sends(c, output, off) ==
  LET k == Sendable(c, output, off) IN
  /\ Socket(c) # NoClient
  /\ Broken(c) => k > 0 \/ off = Len(output)
  /\ wire' = [wire EXCEPT ![Socket(c)] = @ \o SubSeq(output, off + 1, off + k)]

(* out_buf and out_off after the sends: cleared once all has left.         *)
AllSent(c, output, off) == off + Sendable(c, output, off) = Len(output)
OutputAfter(c, output, off) == IF AllSent(c, output, off) THEN <<>> ELSE output
OffsetAfter_Kept(c, output, off) == off + Sendable(c, output, off)  \* mutant: out_off is not reset

OffsetAfter(c, output, off) ==
  IF AllSent(c, output, off) THEN 0 ELSE off + Sendable(c, output, off)

-----------------------------------------------------------------------------
(* main.cpp: closing and arming                                            *)

(* Database::cleanup_client(): remove_client() and the room.               *)
CleanupClient_KeepsRoom(f) ==  \* mutant: the room stays with the descriptor
  /\ channel_subscribers' =
       [ch \in Channels |-> IF ch \in client_subscriptions[f]
                             THEN channel_subscribers[ch] \ {f} ELSE channel_subscribers[ch]]
  /\ client_subscriptions' = [client_subscriptions EXCEPT ![f] = {}]
  /\ UNCHANGED client_rooms

CleanupClient(f) ==
  /\ channel_subscribers' =
       [ch \in Channels |-> IF ch \in client_subscriptions[f]
                             THEN channel_subscribers[ch] \ {f} ELSE channel_subscribers[ch]]
  /\ client_subscriptions' = [client_subscriptions EXCEPT ![f] = {}]
  /\ client_rooms' = [client_rooms EXCEPT ![f] = NoRoom]

(* A closed connection: its peer learns of it, what was under way is lost. *)
Forget(c) ==
  /\ peer' = [peer EXCEPT ![c] = "gone"]
  /\ sock' = [sock EXCEPT ![c] = <<>>]
  /\ wire' = [wire EXCEPT ![c] = <<>>]
  /\ got' = [got EXCEPT ![c] = 0]
  /\ ran' = [ran EXCEPT ![c] = 0]
  /\ ownRoom' = [ownRoom EXCEPT ![c] = NoRoom]
  /\ ownChannels' = [ownChannels EXCEPT ![c] = {}]
  /\ UNCHANGED sent

(* schedule_close().  The object lives on with its tickets, but its        *)
(* buffers are never looked at again and are modelled as empty.            *)
Close_Untracked(c) ==  \* mutant: track() is not called
  \/ /\ state[c] = "closed"
     /\ UNCHANGED <<peerVars, idVars, bufVars, dbVars, ghostVars>>
  \/ /\ state[c] = "open"
     /\ state' = [state EXCEPT ![c] = "closed"]
     /\ in_buf' = [in_buf EXCEPT ![c] = <<>>]
     /\ out_buf' = [out_buf EXCEPT ![c] = <<>>]
     /\ out_off' = [out_off EXCEPT ![c] = 0]
     /\ CleanupClient(fd[c])
     /\ clients' = [clients EXCEPT ![fd[c]] = NoClient]
     /\ UNCHANGED <<fd, authenticated, held, g_client_buffers>>
     /\ Forget(c)

Close(c) ==
  \/ /\ state[c] = "closed"
     /\ UNCHANGED <<peerVars, idVars, bufVars, dbVars, ghostVars>>
  \/ /\ state[c] = "open"
     /\ state' = [state EXCEPT ![c] = "closed"]
     /\ Buffers(c, <<>>, <<>>, 0)
     /\ CleanupClient(fd[c])
     /\ clients' = [clients EXCEPT ![fd[c]] = NoClient]
     /\ UNCHANGED <<fd, authenticated>>
     /\ Forget(c)

(* arm_client() for writing and for reading: no second ticket.             *)
Ticket_Always(c, dir, armed) == <<<<c, dir>>>>  \* mutant: armed twice

Ticket(c, dir, armed) == IF armed THEN <<>> ELSE <<<<c, dir>>>>

ArmClient_ReadOnly(c, forWrite, forRead) ==  \* mutant: no POLLOUT
  /\ read_armed' = [read_armed EXCEPT ![c] = @ \/ forRead]
  /\ arm_backlog' = arm_backlog \o (IF forRead THEN Ticket(c, "in", read_armed[c]) ELSE <<>>)
  /\ UNCHANGED write_armed

ArmClient(c, forWrite, forRead) ==
  /\ write_armed' = [write_armed EXCEPT ![c] = @ \/ forWrite]
  /\ read_armed' = [read_armed EXCEPT ![c] = @ \/ forRead]
  /\ arm_backlog' = arm_backlog
                     \o (IF forWrite THEN Ticket(c, "out", write_armed[c]) ELSE <<>>)
                     \o (IF forRead THEN Ticket(c, "in", read_armed[c]) ELSE <<>>)

(* arm_listener() with n accepts left in the ring: without a submission    *)
(* entry the sweep has to try again.                                       *)
ArmListener(n, paused) ==
  \/ accepts' = n + 1 /\ accept_paused' = paused
  \/ "sqe" \in Faults /\ accepts' = n /\ accept_paused' = TRUE

(* arm_eventfd() with n reads left in the ring: without an entry it        *)
(* returns.  More than MaxArmed reads are counted as MaxArmed.             *)
ArmEventfd(n) ==
  \/ reads' = Smaller(n + 1, MaxArmed)
  \/ "sqe_eventfd" \in Faults /\ reads' = n

(* submit_backlog() and the submission; what finds no entry waits.         *)
SubmitBacklog ==
  LET live == SelectSeq(arm_backlog, LAMBDA t : state[t[1]] = "open")
      k == Smaller(Entries, Len(live)) IN
  /\ turn.at = "wait" /\ arm_backlog # <<>>
  /\ arm_backlog' = SubSeq(live, k + 1, Len(live))
  /\ ring' = [t \in Tickets |-> ring[t] + Cardinality({i \in 1..k : live[i] = t})]
  /\ UNCHANGED <<peerVars, bufVars, idVars, read_armed, write_armed, dbVars, acceptVars,
                 eventVars, turn, cfgVars, ghostVars>>

-----------------------------------------------------------------------------
(* main.cpp: completions                                                   *)

AcceptClient(c, f) ==
  /\ turn.at = "wait" /\ accepts > 0 /\ peer[c] = "queued"
  /\ Cardinality(Open) < maxclients
  /\ clients[f] = NoClient /\ \A g \in Fds : g < f => clients[g] # NoClient
  /\ peer' = [peer EXCEPT ![c] = "alive"]
  /\ state' = [state EXCEPT ![c] = "open"]
  /\ fd' = [fd EXCEPT ![c] = f]
  /\ authenticated' = [authenticated EXCEPT ![c] = ~password]
  /\ clients' = [clients EXCEPT ![f] = c]
  /\ ArmClient(c, FALSE, TRUE)
  /\ ArmListener(accepts - 1, accept_paused)
  /\ first_wait' = FALSE
  /\ UNCHANGED <<sent, sock, wire, got, bufVars, ring, dbVars, eventVars, turn,
                 cfgVars, ghostVars>>

(* "max number of clients reached"                                         *)
AcceptRefused(c) ==
  /\ turn.at = "wait" /\ accepts > 0 /\ peer[c] = "queued"
  /\ Cardinality(Open) >= maxclients
  /\ peer' = [peer EXCEPT ![c] = "refused"]
  /\ ArmListener(accepts - 1, accept_paused)
  /\ first_wait' = FALSE
  /\ UNCHANGED <<sent, sock, wire, got, bufVars, idVars, armVars, ring, dbVars,
                 eventVars, turn, cfgVars, ghostVars>>

(* No descriptors or no memory: paused until the sweep.  Any other error   *)
(* re-arms at once.                                                        *)
AcceptFails_NotPaused ==  \* mutant: neither re-armed nor paused
  /\ turn.at = "wait" /\ accepts > 0 /\ "accept" \in Faults
  /\ \E c \in Conns : peer[c] = "queued"
  /\ accepts' = accepts - 1
  /\ first_wait' = FALSE
  /\ UNCHANGED <<peerVars, bufVars, idVars, armVars, ring, dbVars, accept_paused, eventVars,
                 turn, cfgVars, ghostVars>>

AcceptFails ==
  /\ turn.at = "wait" /\ accepts > 0 /\ "accept" \in Faults
  /\ \E c \in Conns : peer[c] = "queued"
  /\ \/ accepts' = accepts - 1 /\ accept_paused' = TRUE
     \/ ArmListener(accepts - 1, accept_paused)
  /\ first_wait' = FALSE
  /\ UNCHANGED <<peerVars, bufVars, idVars, armVars, ring, dbVars, eventVars, turn,
                 cfgVars, ghostVars>>

(* The completion of an accept is lost at startup ...                      *)
CqeLost ==
  /\ "lost_cqe" \in Faults /\ first_wait /\ accepts > 0
  /\ \E c \in Conns : peer[c] = "queued"
  /\ accepts' = accepts - 1
  /\ UNCHANGED <<peerVars, bufVars, idVars, armVars, ring, dbVars, accept_paused, first_wait,
                 eventVars, turn, cfgVars, ghostVars>>

(* ... so the first wait times out and arms both again.                    *)
FirstWaitTimeout ==
  /\ turn.at = "wait" /\ first_wait /\ accepts < MaxArmed
  /\ ArmListener(accepts, accept_paused)
  /\ ArmEventfd(reads)
  /\ UNCHANGED <<peerVars, bufVars, idVars, armVars, ring, dbVars, first_wait, counter,
                 events, turn, cfgVars, ghostVars>>

(* The eventfd was signalled: re-arm, then pump_work() on a snapshot of    *)
(* the clients.                                                            *)
EventfdReady ==
  /\ turn.at = "wait" /\ events > 0
  /\ events' = events - 1
  /\ ArmEventfd(reads)
  /\ turn' = [turn EXCEPT !.at = "pump", !.todo = Open]
  /\ UNCHANGED <<peerVars, bufVars, idVars, armVars, ring, dbVars, acceptVars, counter,
                 cfgVars, ghostVars>>

(* The completion of a poll whose client was closed meanwhile; shutdown()  *)
(* completes it.                                                           *)
StaleTicket(c, dir) ==
  /\ turn.at = "wait" /\ ring[<<c, dir>>] > 0
  /\ state[c] = "closed"
  /\ ring' = [ring EXCEPT ![<<c, dir>>] = @ - 1]
  /\ UNCHANGED <<peerVars, bufVars, idVars, armVars, dbVars, acceptVars, eventVars, turn,
                 cfgVars, ghostVars>>

(* POLLIN: there is something to read, or the end of the stream.           *)
ReadReady(c) ==
  /\ turn.at = "wait" /\ ring[<<c, "in">>] > 0
  /\ state[c] = "open"
  /\ sock[c] # <<>> \/ peer[c] = "gone"
  /\ ring' = [ring EXCEPT ![<<c, "in">>] = @ - 1]
  /\ read_armed' = [read_armed EXCEPT ![c] = FALSE]
  /\ turn' = [turn EXCEPT !.at = "read", !.who = c]
  /\ UNCHANGED <<peerVars, bufVars, idVars, write_armed, arm_backlog, dbVars, acceptVars,
                 eventVars, cfgVars, ghostVars>>

(* POLLOUT.                                                                *)
WriteReady(c) ==
  /\ turn.at = "wait" /\ ring[<<c, "out">>] > 0
  /\ state[c] = "open"
  /\ Len(wire[c]) < SendSpace \/ peer[c] = "gone"
  /\ ring' = [ring EXCEPT ![<<c, "out">>] = @ - 1]
  /\ write_armed' = [write_armed EXCEPT ![c] = FALSE]
  /\ turn' = [turn EXCEPT !.at = "flush", !.who = c]
  /\ UNCHANGED <<peerVars, bufVars, idVars, read_armed, arm_backlog, dbVars, acceptVars,
                 eventVars, cfgVars, ghostVars>>

-----------------------------------------------------------------------------
(* A turn: what one completion makes the thread do                         *)

(* After c the pump goes on with its snapshot; a read turn is over.        *)
TurnAfter == IF turn.via = "pump" THEN [Waiting EXCEPT !.at = "pump", !.todo = turn.todo]
             ELSE Waiting

Serving(via, c, todo) ==
  [Waiting EXCEPT !.at = "serve", !.who = c, !.via = via, !.todo = todo]

(* The client of the turn is dropped: Step::Drop, or false from            *)
(* drain_read().                                                           *)
DropClient(c) == Close(c) /\ turn' = TurnAfter

(* The completion of a POLLOUT: flush_output(), and again if needed.       *)
FlushTurn(c) ==
  /\ turn.at = "flush" /\ turn.who = c
  /\ \/ /\ Broken(c) /\ PendingOut(c) > 0 /\ DropClient(c)
        /\ UNCHANGED armVars
     \/ /\ Sends(c, out_buf[c], out_off[c])
        /\ Buffers(c, in_buf[c], OutputAfter(c, out_buf[c], out_off[c]),
                   OffsetAfter(c, out_buf[c], out_off[c]))
        /\ ArmClient(c, ~AllSent(c, out_buf[c], out_off[c]), FALSE)
        /\ turn' = Waiting
        /\ UNCHANGED <<peer, sent, sock, got, idVars, dbVars, ghostVars>>
  /\ UNCHANGED <<ring, acceptVars, eventVars, cfgVars>>

(* One read() of drain_read(): up to the cap, a short read or EAGAIN; the  *)
(* end of the stream and a full budget drop the client.                    *)
ReadTurn(c) ==
  LET s == Socket(c)
      k == IF s = NoClient THEN 0 ELSE Smaller(Chunk, Len(sock[s]))
      full == Len(in_buf[c]) >= InputLimit(c) IN
  /\ turn.at = "read" /\ turn.who = c
  /\ \/ /\ full \/ (k = 0 /\ ~Broken(c))
        /\ turn' = Serving("read", c, {})
        /\ UNCHANGED <<peerVars, bufVars, idVars, dbVars, ghostVars>>
     \/ /\ ~full
        /\ \/ k = 0 /\ Broken(c)
           \/ k > 0 /\ g_client_buffers + k > MaxBuffers
        /\ DropClient(c)
     \/ /\ ~full /\ k > 0 /\ g_client_buffers + k <= MaxBuffers
        /\ sock' = [sock EXCEPT ![s] = SubSeq(@, k + 1, Len(@))]
        /\ Buffers(c, in_buf[c] \o SubSeq(sock[s], 1, k), out_buf[c], out_off[c])
        /\ turn' = IF k < Chunk THEN Serving("read", c, {}) ELSE turn
        /\ UNCHANGED <<peer, sent, wire, got, idVars, dbVars, ghostVars>>
  /\ UNCHANGED <<armVars, ring, acceptVars, eventVars, cfgVars>>

(* parse_request() at pos: 0 stands for NeedMore, otherwise the units of   *)
(* the request.                                                            *)
RequestLength(c) ==
  IF turn.pos >= Len(in_buf[c]) THEN 0
  ELSE IF in_buf[c][turn.pos + 1].kind # "long" THEN 1
  ELSE IF turn.pos + 2 <= Len(in_buf[c]) THEN 2 ELSE 0

NextKind(c) == in_buf[c][turn.pos + 1].kind
NextId(c) == in_buf[c][turn.pos + 1].id

AtRequest(c) ==
  /\ turn.at = "serve" /\ turn.who = c
  /\ turn.n < Budget /\ RequestLength(c) > 0

Consumed(c) == [turn EXCEPT !.pos = @ + RequestLength(c), !.n = @ + 1]

(* A request was executed and its answer is queued ...                     *)
Answered(c, trusted) ==
  /\ Fits(c, trusted, out_buf[c], out_off[c])
  /\ Buffers(c, in_buf[c], Append(out_buf[c], NextId(c)), out_off[c])
  /\ turn' = [Consumed(c) EXCEPT !.at = "serve"]
  /\ ran' = [ran EXCEPT ![c] = @ + 1]
  /\ authenticated' = [authenticated EXCEPT ![c] = trusted]
  /\ UNCHANGED <<peerVars, state, fd, clients>>

(* ... or it does not fit, and c is dropped with what the request did.     *)
Overflows(c, trusted) ==
  /\ ~Fits(c, trusted, out_buf[c], out_off[c])
  /\ DropClient(c)

(* AUTH, which raises the limits of c; without it the rest is refused.     *)
Authenticate(c) ==
  /\ AtRequest(c) /\ NextKind(c) = "auth"
  /\ \/ Answered(c, TRUE) /\ UNCHANGED <<dbVars, ownRoom, ownChannels>>
     \/ Overflows(c, TRUE)
  /\ UNCHANGED <<armVars, ring, acceptVars, eventVars, cfgVars>>

NoAuth(c) ==
  /\ AtRequest(c) /\ ~authenticated[c] /\ NextKind(c) \notin {"auth", "last"}
  /\ \/ Answered(c, FALSE) /\ UNCHANGED <<dbVars, ownRoom, ownChannels>>
     \/ Overflows(c, FALSE)
  /\ UNCHANGED <<armVars, ring, acceptVars, eventVars, cfgVars>>

(* get_client_room(): the entry is made on the first command.              *)
RoomOr(room) == IF room = NoRoom THEN "default" ELSE room

(* ROOM selects a room, unless the client is in subscribe mode or          *)
(* wake_room() refuses; every other command leaves the room it finds.      *)
SelectRoom(c) ==
  LET f == fd[c] IN
  \/ /\ NextKind(c) = "room" /\ client_subscriptions[f] = {}
     /\ client_rooms' = [client_rooms EXCEPT ![f] = "attic"]
     /\ ownRoom' = [ownRoom EXCEPT ![c] = "attic"]
  \/ /\ client_rooms' = [client_rooms EXCEPT ![f] = RoomOr(@)]
     /\ ownRoom' = [ownRoom EXCEPT ![c] = RoomOr(@)]

(* SUBSCRIBE to one channel, UNSUBSCRIBE from all.                         *)
Subscribe(c, ch) ==
  /\ channel_subscribers' = [channel_subscribers EXCEPT ![ch] = @ \cup {fd[c]}]
  /\ client_subscriptions' = [client_subscriptions EXCEPT ![fd[c]] = @ \cup {ch}]
  /\ ownChannels' = [ownChannels EXCEPT ![c] = @ \cup {ch}]

Unsubscribe(c) ==
  /\ channel_subscribers' =
       [ch \in Channels |-> IF ch \in client_subscriptions[fd[c]]
                             THEN channel_subscribers[ch] \ {fd[c]} ELSE channel_subscribers[ch]]
  /\ client_subscriptions' = [client_subscriptions EXCEPT ![fd[c]] = {}]
  /\ ownChannels' = [ownChannels EXCEPT ![c] = {}]

(* Database::execute() of anything but PUBLISH.                            *)
Execute(c) ==
  /\ AtRequest(c) /\ authenticated[c] /\ NextKind(c) \in {"room", "long", "sub", "unsub"}
  /\ \/ /\ Answered(c, TRUE)
        /\ SelectRoom(c)
        /\ \/ NextKind(c) = "sub" /\ \E ch \in Channels : Subscribe(c, ch)
           \/ NextKind(c) = "unsub" /\ Unsubscribe(c)
           \/ /\ NextKind(c) \in {"room", "long"}
              /\ UNCHANGED <<channel_subscribers, client_subscriptions, ownChannels>>
     \/ Overflows(c, TRUE)
  /\ UNCHANGED <<armVars, ring, acceptVars, eventVars, cfgVars>>

(* PUBLISH copies the subscribers and delivers to one after the other ...  *)
Publish(c, ch) ==
  /\ AtRequest(c) /\ authenticated[c] /\ NextKind(c) = "pub"
  /\ turn' = [turn EXCEPT !.at = "publish", !.targets = channel_subscribers[ch]]
  /\ SelectRoom(c)
  /\ UNCHANGED <<peerVars, bufVars, idVars, armVars, ring, channel_subscribers,
                 client_subscriptions, acceptVars, eventVars, cfgVars, ran, ownChannels>>

(* ... through deliver_pubsub(), which closes a subscriber that is too     *)
(* slow, the publisher itself included ...                                 *)
Deliver(f) ==
  LET t == clients[f]
      output == Append(out_buf[t], Message) IN
  /\ turn.at = "publish" /\ f \in turn.targets
  /\ turn' = [turn EXCEPT !.targets = @ \ {f}]
  /\ \/ /\ t = NoClient
        /\ UNCHANGED <<peerVars, bufVars, idVars, armVars, dbVars, ghostVars>>
     \/ /\ t # NoClient
        /\ ~Fits(t, authenticated[t], out_buf[t], out_off[t]) \/ Broken(t)
        /\ Close(t)
        /\ UNCHANGED armVars
     \/ /\ t # NoClient
        /\ Fits(t, authenticated[t], out_buf[t], out_off[t])
        /\ Sends(t, output, out_off[t])
        /\ Buffers(t, in_buf[t], OutputAfter(t, output, out_off[t]),
                   OffsetAfter(t, output, out_off[t]))
        /\ ArmClient(t, ~AllSent(t, output, out_off[t]), FALSE)
        /\ UNCHANGED <<peer, sent, sock, got, idVars, dbVars, ghostVars>>
  /\ UNCHANGED <<ring, acceptVars, eventVars, cfgVars>>

(* ... and then answers.                                                   *)
EndPublish(c) ==
  /\ turn.at = "publish" /\ turn.who = c /\ turn.targets = {}
  /\ \/ Answered(c, TRUE) /\ UNCHANGED <<dbVars, ownRoom, ownChannels>>
     \/ Overflows(c, TRUE)
  /\ UNCHANGED <<armVars, ring, acceptVars, eventVars, cfgVars>>

(* QUIT or input that cannot be parsed: a last answer, which may or may    *)
(* not reach the peer, and the end.                                        *)
LastAnswer(c) ==
  /\ AtRequest(c) /\ NextKind(c) = "last"
  /\ DropClient(c)
  /\ UNCHANGED <<armVars, ring, acceptVars, eventVars, cfgVars>>

(* The budget is used up or the rest of the input is incomplete: erase     *)
(* what was consumed, flush, and arm again; serve() and the rest of the    *)
(* handler.                                                                *)
Unconsumed_All(c) == in_buf[c]  \* mutant: no erase()

Unconsumed(c) == SubSeq(in_buf[c], turn.pos + 1, Len(in_buf[c]))
More_Never(c) == FALSE  \* mutant: queue_work() is forgotten

More(c) == turn.n = Budget /\ Unconsumed(c) # <<>>
InputIsFull(c) == turn.via = "read" /\ ~More(c) /\ Len(Unconsumed(c)) >= InputLimit(c)

EndServe(c) ==
  /\ turn.at = "serve" /\ turn.who = c
  /\ turn.n = Budget \/ RequestLength(c) = 0
  /\ \/ /\ Broken(c) /\ PendingOut(c) > 0 /\ DropClient(c)
        /\ UNCHANGED <<armVars, counter>>
     \/ /\ ArmClient(c, ~AllSent(c, out_buf[c], out_off[c]), TRUE)
        /\ counter' = (counter \/ More(c))
        /\ \/ InputIsFull(c) /\ DropClient(c)
           \/ /\ ~InputIsFull(c)
              /\ Sends(c, out_buf[c], out_off[c])
              /\ Buffers(c, Unconsumed(c), OutputAfter(c, out_buf[c], out_off[c]),
                         OffsetAfter(c, out_buf[c], out_off[c]))
              /\ turn' = TurnAfter
              /\ UNCHANGED <<peer, sent, sock, got, idVars, dbVars, ghostVars>>
  /\ UNCHANGED <<ring, acceptVars, reads, events, cfgVars>>

(* pump_work(): the next client of the snapshot that is still open and has *)
(* input.                                                                  *)
Pumpable(c) == c \in turn.todo /\ state[c] = "open" /\ in_buf[c] # <<>>

PumpNext(c) ==
  /\ turn.at = "pump" /\ Pumpable(c)
  /\ turn' = Serving("pump", c, turn.todo \ {c})
  /\ UNCHANGED <<peerVars, bufVars, idVars, armVars, ring, dbVars, acceptVars, eventVars,
                 cfgVars, ghostVars>>

PumpDone ==
  /\ turn.at = "pump" /\ \A c \in Conns : ~Pumpable(c)
  /\ turn' = Waiting
  /\ UNCHANGED <<peerVars, bufVars, idVars, armVars, ring, dbVars, acceptVars, eventVars,
                 cfgVars, ghostVars>>

(* The sweep of each second: clients that have not authenticated in time   *)
(* are closed, if there are any ...                                        *)
Sweep ==
  /\ turn.at = "wait" /\ ~first_wait
  /\ \E late \in SUBSET {c \in Open : ~authenticated[c]} \ {{}} :
       turn' = [turn EXCEPT !.at = "sweep", !.todo = late]
  /\ UNCHANGED <<peerVars, bufVars, idVars, armVars, ring, dbVars, acceptVars, eventVars,
                 cfgVars, ghostVars>>

CloseLate(c) ==
  /\ turn.at = "sweep" /\ c \in turn.todo
  /\ Close(c)
  /\ turn' = [turn EXCEPT !.todo = @ \ {c}]
  /\ UNCHANGED <<armVars, ring, acceptVars, eventVars, cfgVars>>

(* ... and a paused accept is armed again.                                 *)
EndSweep ==
  /\ turn.at \in {"wait", "sweep"} /\ turn.todo = {} /\ ~first_wait
  /\ turn' = Waiting
  /\ \/ accept_paused /\ ArmListener(accepts, FALSE)
     \/ ~accept_paused /\ UNCHANGED <<accepts, accept_paused>>
  /\ UNCHANGED <<peerVars, bufVars, idVars, armVars, ring, dbVars, first_wait, eventVars,
                 cfgVars, ghostVars>>

-----------------------------------------------------------------------------
PeerStep ==
  \E c \in Conns :
    \/ Connect(c) \/ PeerReads(c) \/ PeerCloses(c)
    \/ \E kind \in Requests[c] : PeerSends(c, kind)

Completion ==
  \/ EventfdReady \/ AcceptFails \/ FirstWaitTimeout
  \/ SubmitBacklog
  \/ \E c \in Conns :
       \/ AcceptRefused(c) \/ ReadReady(c) \/ WriteReady(c)
       \/ \E f \in Fds : AcceptClient(c, f)
       \/ \E dir \in {"in", "out"} : StaleTicket(c, dir)

TurnStep ==
  \/ PumpDone
  \/ \E f \in Fds : Deliver(f)
  \/ \E c \in Conns :
       \/ FlushTurn(c) \/ ReadTurn(c) \/ Authenticate(c) \/ NoAuth(c) \/ Execute(c)
       \/ EndPublish(c) \/ LastAnswer(c) \/ EndServe(c) \/ PumpNext(c) \/ CloseLate(c)
       \/ \E ch \in Channels : Publish(c, ch)

Next == PeerStep \/ EventfdCompletes \/ CqeLost \/ Completion \/ TurnStep \/ Sweep \/ EndSweep

Spec == Init /\ [][Next]_vars

(* The thread goes on with its turn and takes every completion; the kernel *)
(* completes what is ready.  An accept that is tried again and again is    *)
(* let through some time.  Peers need not read.                            *)
Fairness ==
  /\ WF_vars(turn.at # "wait" /\ TurnStep) /\ WF_vars(EndSweep) /\ WF_vars(SubmitBacklog)
  /\ WF_vars(EventfdCompletes) /\ WF_vars(EventfdReady) /\ WF_vars(FirstWaitTimeout)
  /\ WF_vars(ReadReady(Reader)) /\ WF_vars(WriteReady(Reader)) /\ WF_vars(PeerReads(Reader))
  /\ SF_vars(AcceptRefused(Reader) \/ \E f \in Fds : AcceptClient(Reader, f))

FairSpec == Spec /\ Fairness

-----------------------------------------------------------------------------
(* Properties                                                              *)

(* Every variable has its type; in particular out_off never points behind  *)
(* out_buf: flush_output() resets both.                                    *)
TypeOK ==
  /\ peer \in [Conns -> {"none", "queued", "refused", "alive", "midway", "gone"}]
  /\ sent \in [Conns -> Nat] /\ got \in [Conns -> Nat] /\ ran \in [Conns -> Nat]
  /\ sock \in [Conns -> Seq(Unit)] /\ in_buf \in [Conns -> Seq(Unit)]
  /\ wire \in [Conns -> Seq(Nat)] /\ out_buf \in [Conns -> Seq(Nat)]
  /\ \A c \in Conns : out_off[c] \in 0..Len(out_buf[c])
  /\ state \in [Conns -> {"new", "open", "closed"}]
  /\ fd \in [Conns -> Fds \cup {NoFd}]
  /\ clients \in [Fds -> Conns \cup {NoClient}]
  /\ authenticated \in [Conns -> BOOLEAN] /\ held \in [Conns -> Nat]
  /\ g_client_buffers \in Nat
  /\ read_armed \in [Conns -> BOOLEAN] /\ write_armed \in [Conns -> BOOLEAN]
  /\ arm_backlog \in Seq(Tickets) /\ ring \in [Tickets -> Nat]
  /\ client_rooms \in [Fds -> {NoRoom, "default", "attic"}]
  /\ client_subscriptions \in [Fds -> SUBSET Channels]
  /\ channel_subscribers \in [Channels -> SUBSET Fds]
  /\ accepts \in Nat /\ accept_paused \in BOOLEAN /\ first_wait \in BOOLEAN
  /\ reads \in Nat /\ counter \in BOOLEAN /\ events \in Nat
  /\ turn \in [at : {"wait", "read", "flush", "serve", "publish", "pump", "sweep"},
               who : Conns \cup {NoClient}, via : {"read", "pump"}, todo : SUBSET Conns,
               pos : Nat, n : 0..Budget, targets : SUBSET Fds]

InFlight(c, dir) ==
  ring[<<c, dir>>] + Cardinality({i \in DOMAIN arm_backlog : arm_backlog[i] = <<c, dir>>})

(* An open client has one ticket in the backlog or in the ring for each    *)
(* armed flag and none without it: arm_client() never arms twice, and      *)
(* submit_backlog() neither loses nor doubles a ticket when the ring is    *)
(* full.                                                                   *)
TicketsExact ==
  \A c \in Open :
    /\ InFlight(c, "in") = IF read_armed[c] THEN 1 ELSE 0
    /\ InFlight(c, "out") = IF write_armed[c] THEN 1 ELSE 0

HasRequest(c) ==
  /\ in_buf[c] # <<>>
  /\ in_buf[c][1].kind = "long" => Len(in_buf[c]) > 1

(* Nobody waits for an event that cannot come: outside its own turn an     *)
(* open client has a POLLIN under way, a POLLOUT if it has unsent output,  *)
(* and a signal on the eventfd (or a place in the running pump) if a       *)
(* complete request is left in its buffer.                                 *)
NobodyForgotten ==
  \A c \in Open : turn.who # c =>
    /\ read_armed[c]
    /\ PendingOut(c) > 0 => write_armed[c]
    /\ HasRequest(c) => \/ counter \/ events > 0
                        \/ turn.at # "sweep" /\ c \in turn.todo

(* The descriptor number is the key of the rooms and of the subscriptions, *)
(* and the kernel gives it to the next client: whatever is closed when, a  *)
(* client is in the room and on the channels it has asked for itself, a    *)
(* free descriptor has none, and the two maps of PubSubManager agree.      *)
RoutesAreOwn ==
  /\ \A f \in Fds, ch \in Channels :
       f \in channel_subscribers[ch] <=> ch \in client_subscriptions[f]
  /\ \A f \in Fds :
       LET c == clients[f] IN
       /\ client_subscriptions[f] = IF c = NoClient THEN {} ELSE ownChannels[c]
       /\ client_rooms[f] = IF c = NoClient THEN NoRoom ELSE ownRoom[c]

Answers(q) == SelectSeq(q, LAMBDA e : e # Message)
Ids(q) == {q[i].id : i \in DOMAIN q}

(* Pipelined requests are executed once each, in order, and every one gets *)
(* its own answer, in order and interleaved with published messages only:  *)
(* over partial reads, partial sends, the budget of a turn and requests    *)
(* that arrive in pieces.                                                  *)
AnsweredInOrder ==
  \A c \in Open :
    LET out == Answers(wire[c] \o SubSeq(out_buf[c], out_off[c] + 1, Len(out_buf[c])))
        pos == IF turn.who = c THEN turn.pos ELSE 0
        rest == SubSeq(in_buf[c], pos + 1, Len(in_buf[c])) \o sock[c] IN
    /\ got[c] + Len(out) = ran[c]
    /\ \A i \in DOMAIN out : out[i] = got[c] + i
    /\ Ids(rest) = ran[c] + 1 .. sent[c]
    /\ \A i \in 1 .. Len(rest) - 1 : rest[i].id <= rest[i + 1].id

(* g_client_buffers is what the buffers of the open clients hold, and no   *)
(* turn of the loop ends above SOMNIUM_MAX_CLIENT_BUFFERS: every path that *)
(* grows, empties or closes a client calls track().                        *)
BuffersAccounted ==
  /\ g_client_buffers = SumFunction([c \in Conns |-> Len(in_buf[c]) + Len(out_buf[c])])
  /\ turn.at = "wait" => g_client_buffers <= MaxBuffers

(* The server never stops accepting: an accept is in the ring, or the      *)
(* sweep knows that it has to arm one, or the first wait will time out and *)
(* do so.                                                                  *)
StillListening == accepts > 0 \/ accept_paused \/ first_wait

Requested(c) == IF peer[c] = "midway" THEN sent[c] - 1 ELSE sent[c]

(* A peer that keeps reading is served: it is not left in the queue of the *)
(* listener, and while its connection is open every request it has sent in *)
(* full is answered sooner or later, whatever the other clients do and     *)
(* whatever it has pipelined beyond the budget of a turn.                  *)
ReaderIsServed ==
  []<>(/\ peer[Reader] # "queued"
       /\ state[Reader] = "open" => got[Reader] >= Requested(Reader))
=============================================================================
