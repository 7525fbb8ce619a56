---------------------------- MODULE Replication ----------------------------
(***************************************************************************)
(* Nodes that replicate to each other: every node has a thread per peer    *)
(* that reads the node's own log from a saved offset and sends its local   *)
(* writes as a pipelined batch of merges, closed by a frontier when the    *)
(* batch reached the end of the log.  src/storage/replicator.cpp and the   *)
(* receiving side in src/core/crdt.cpp.                                    *)
(*                                                                         *)
(* Data abstraction.  There is one key per room, so a room names a key,    *)
(* and a value is its version.  Deadlines, and where a record is kept      *)
(* (RAM, cold storage, snapshot), are the subject of KeySpace, the fate of *)
(* the log that of AofManager.                                             *)
(***************************************************************************)
EXTENDS Integers, FiniteSets, Sequences, FiniteSetsExt

CONSTANTS
  Nodes, Rooms, Default,
  None,           \* no record, no tombstone, no room
  Down,           \* the peers that never run
  Faults,         \* the disturbances that may happen
  MaxTs,          \* bound: versions
  MaxWrites,      \* bound: entries of a log a client write may follow
  MaxBatch,       \* kMaxBatchBytes, in log entries
  MaxFaults       \* bound: disturbances, of all kinds together

(* "loss": a connection breaks; "restart": a node restarts ("skew": with   *)
(* its wall clock behind); "rewrite": a log is rewritten; "refusal": a     *)
(* peer refuses a room                                                     *)
FaultKinds == {"loss", "restart", "skew", "rewrite", "refusal"}

Version == [ts : Nat, node : Nodes]

ASSUME NodesAssumption == Nodes \subseteq Nat /\ Down \subseteq Nodes
ASSUME RoomsAssumption == IsFiniteSet(Rooms) /\ Default \in Rooms
ASSUME NoneAssumption == None \notin Rooms /\ None \notin Version
ASSUME FaultsAssumption == Faults \subseteq FaultKinds
ASSUME BoundsAssumption ==
  MaxTs \in Nat /\ MaxWrites \in Nat /\ MaxBatch \in Nat \ {0} /\ MaxFaults \in Nat

VARIABLES
  db,         \* the record of each room, [ts, node]
  tomb,       \* tombstones_
  clock,      \* hlc::Clock::last_
  frontier,   \* frontier_
  known,      \* frontiers_: what each peer has announced, 0 = nothing
  watermark,  \* watermark_
  aof,        \* the log: entries [op, room, ver]
  inode,      \* which file the log is
  peer,       \* Replicator::Peer: inode, offset and the room it believes in
  link,       \* the batch a thread has in flight
  croom,      \* the room of a connection, at the receiving node
  heard,      \* ghost: the operations a node has executed
  faults      \* how many disturbances there have been

nodeVars == <<db, tomb, clock, frontier, known, watermark>>
logVars == <<aof, inode>>
linkVars == <<peer, link, croom>>
vars == <<nodeVars, logVars, linkVars, heard, faults>>

Live == Nodes \ Down
Peers(n) == Nodes \ {n}

Disturb(kind) == kind \in Faults /\ faults < MaxFaults /\ faults' = faults + 1

Newer(v, w) == v.ts > w.ts \/ (v.ts = w.ts /\ v.node > w.node)

(* A batch is the part of the log it was built from (buf), of which the    *)
(* first "done" entries have been answered.  For each entry in turn that   *)
(* is the node's own a merge is sent, behind a ROOM if the connection is   *)
(* not in its room; "room" is the room the connection is in by what was    *)
(* sent so far.  "bad" is the first entry with an error reply, 0 if none,  *)
(* and "fr" the frontier that closes the batch, 0 if none or answered.     *)
NoBatch == [pc |-> "idle", fr |-> 0, buf |-> <<>>, done |-> 0, bad |-> 0,
            room |-> None]

Entry(op, r, v) == [op |-> op, room |-> r, ver |-> v]

-----------------------------------------------------------------------------
(* Client writes.                                                          *)

Above(n, r) == IF db[n][r] # None THEN db[n][r].ts
               ELSE IF tomb[n][r] # None THEN tomb[n][r].ts ELSE 0

Bigger(a, b) == IF a > b THEN a ELSE b

NextVersion(n, over) == Bigger(clock[n] + 1, over + 1)

(* the log, the record or tombstone, and the ghost of an executed entry    *)
TombsAfterDelete(n, e) ==
  IF e.ver.ts <= watermark[n] THEN tomb[n]
  ELSE [tomb[n] EXCEPT ![e.room] = IF @ # None /\ Newer(@, e.ver) THEN @ ELSE e.ver]

Apply(n, e) ==
  /\ db' = [db EXCEPT ![n][e.room] = IF e.op = "put" THEN e.ver ELSE None]
  /\ tomb' = [tomb EXCEPT ![n] = IF e.op = "del" THEN TombsAfterDelete(n, e)
                                 ELSE IF db[n][e.room] = None
                                   THEN [tomb[n] EXCEPT ![e.room] = None]
                                   ELSE tomb[n]]
  /\ aof' = [aof EXCEPT ![n] = Append(@, e)]

Write(n, r, op) ==
  LET ts == NextVersion(n, Above(n, r))
      e == Entry(op, r, [ts |-> ts, node |-> n])
  IN /\ n \in Live
     /\ ts <= MaxTs
     /\ Len(aof[n]) < MaxWrites
     /\ op = "del" => db[n][r] # None
     /\ clock' = [clock EXCEPT ![n] = ts]
     /\ Apply(n, e)
     /\ heard' = [heard EXCEPT ![n] = @ \cup {e}]
     /\ UNCHANGED <<frontier, known, watermark, inode, linkVars, faults>>

-----------------------------------------------------------------------------
(* ship(): the frontier is read before the log.                            *)

SetLink(n, m, l) == link' = [link EXCEPT ![n][m] = l]

SetPeer(n, m, ino, off, room) ==
  peer' = [peer EXCEPT ![n][m] = [ino |-> ino, off |-> off, room |-> room]]

ReadFrontier(n, m) ==
  /\ {n, m} \subseteq Live
  /\ link[n][m].pc = "idle"
  /\ SetLink(n, m, [NoBatch EXCEPT !.pc = "read", !.fr = frontier[n]])
  /\ UNCHANGED <<nodeVars, logVars, peer, croom, heard, faults>>

Offset_Kept(n, m) == peer[n][m].off  \* mutant: the inode is not compared

(* another inode: everything is sent again                                 *)
Offset(n, m) == IF peer[n][m].ino = inode[n] THEN peer[n][m].off ELSE 0

BuildBatch(n, m) ==
  /\ link[n][m].pc = "read"
  /\ LET off == Offset(n, m)
         upto == IF Len(aof[n]) - off > MaxBatch THEN off + MaxBatch ELSE Len(aof[n])
     IN /\ SetLink(n, m, [pc |-> "sent", buf |-> SubSeq(aof[n], off + 1, upto),
                          fr |-> IF upto = Len(aof[n]) THEN link[n][m].fr ELSE 0,
                          room |-> peer[n][m].room, done |-> 0, bad |-> 0])
        /\ SetPeer(n, m, inode[n], off, peer[n][m].room)
  /\ UNCHANGED <<nodeVars, logVars, croom, heard, faults>>

(* the entries of a batch that commands are sent for: those that came from *)
(* other nodes are skipped                                                 *)
Ours(n, m) == {j \in DOMAIN link[n][m].buf : link[n][m].buf[j].ver.node = n}

Pending(n, m) == {j \in Ours(n, m) : j > link[n][m].done}

OffsetAfter_All(n, m) ==  \* mutant: errors do not hold the offset back
  peer[n][m].off + Len(link[n][m].buf)

OffsetAfter_Strict(n, m) ==  \* mutant: the last confirmed entry does not count
  IF Ours(n, m) = {} THEN peer[n][m].off + Len(link[n][m].buf)
  ELSE peer[n][m].off + Min(Ours(n, m)) - 1

(* up to the last entry whose commands were all confirmed                  *)
OffsetAfter(n, m) ==
  peer[n][m].off + (IF link[n][m].bad = 0 THEN Len(link[n][m].buf)
                    ELSE link[n][m].bad - 1)

(* all replies are in                                                      *)
BatchDone(n, m) ==
  /\ link[n][m].pc = "sent"
  /\ Pending(n, m) = {} /\ link[n][m].fr = 0
  /\ SetPeer(n, m, peer[n][m].ino, OffsetAfter(n, m),
             IF link[n][m].bad = 0 THEN link[n][m].room ELSE None)
  /\ SetLink(n, m, NoBatch)
  /\ UNCHANGED <<nodeVars, logVars, croom, heard, faults>>

OffsetAfterLoss_Sent(n, m) ==  \* mutant: what was sent counts as confirmed
  peer[n][m].off + Len(link[n][m].buf)

(* no reply counts as confirmed, so only what nothing was sent for is done *)
OffsetAfterLoss(n, m) ==
  peer[n][m].off + (IF Ours(n, m) = {} THEN Len(link[n][m].buf)
                    ELSE Min(Ours(n, m)) - 1)

RoomAfterLoss_Kept(n, m) == peer[n][m].room  \* mutant: peer.room is not cleared

RoomAfterLoss(n, m) == None

(* the connection breaks or a reply is late; the next connection starts in *)
(* the default room                                                        *)
ConnectionLost(n, m) ==
  /\ link[n][m].pc = "sent"
  /\ Disturb("loss")
  /\ SetLink(n, m, NoBatch)
  /\ SetPeer(n, m, peer[n][m].ino, OffsetAfterLoss(n, m), RoomAfterLoss(n, m))
  /\ croom' = [croom EXCEPT ![m][n] = Default]
  /\ UNCHANGED <<nodeVars, logVars, heard>>

-----------------------------------------------------------------------------
(* The receiving node executes the commands of a connection in order, each *)
(* in the room the connection is in.                                       *)

NextUp(n, m) == Min(Pending(n, m))
Sent(n, m) == link[n][m].buf[NextUp(n, m)]
InRoom(n, m) == link[n][m].room = Sent(n, m).room

(* a reply to the ROOM or to the merge of the next entry                   *)
RoomReply(n, m, bad) ==
  SetLink(n, m, [link[n][m] EXCEPT !.room = Sent(n, m).room, !.bad = bad])

WriteReply(n, m, bad) ==
  SetLink(n, m, [link[n][m] EXCEPT !.done = NextUp(n, m), !.bad = bad])

(* ROOM, or a merge, when the room cannot be activated                     *)
DeliverRefused(n, m) ==
  LET bad == IF link[n][m].bad = 0 THEN NextUp(n, m) ELSE link[n][m].bad
  IN /\ Pending(n, m) # {}
     /\ Disturb("refusal")
     /\ IF InRoom(n, m) THEN WriteReply(n, m, bad) ELSE RoomReply(n, m, bad)
     /\ UNCHANGED <<nodeVars, logVars, peer, croom, heard>>

DeliverRoom(n, m) ==
  /\ Pending(n, m) # {} /\ ~InRoom(n, m)
  /\ croom' = [croom EXCEPT ![m][n] = Sent(n, m).room]
  /\ RoomReply(n, m, link[n][m].bad)
  /\ UNCHANGED <<nodeVars, logVars, peer, heard, faults>>

Stale_NoWatermark(n, r, v) ==  \* mutant
  IF db[n][r] # None THEN ~Newer(v, db[n][r])
  ELSE tomb[n][r] # None /\ ~Newer(v, tomb[n][r])

Stale(n, r, v) ==
  IF db[n][r] # None THEN ~Newer(v, db[n][r])
  ELSE IF tomb[n][r] # None THEN ~Newer(v, tomb[n][r])
  ELSE v.ts <= watermark[n]

(* CRDTMERGE and CRDTDEL                                                   *)
DeliverWrite(n, m) ==
  /\ Pending(n, m) # {} /\ InRoom(n, m)
  /\ LET e == Entry(Sent(n, m).op, croom[m][n], Sent(n, m).ver)
     IN /\ clock' = [clock EXCEPT ![m] = Bigger(@, e.ver.ts)]
        /\ heard' = [heard EXCEPT ![m] = @ \cup {e}]
        /\ IF Stale(m, e.room, e.ver) THEN UNCHANGED <<db, tomb, aof>> ELSE Apply(m, e)
  /\ WriteReply(n, m, link[n][m].bad)
  /\ UNCHANGED <<frontier, known, watermark, inode, peer, croom, faults>>

(* REPLFRONTIER: the node's own frontier moves too, and once every peer    *)
(* has announced one the tombstones below the lowest are forgotten.  (At   *)
(* the bound on versions the node's frontier stays.)                       *)
DeliverFrontier(n, m) ==
  /\ link[n][m].pc = "sent"
  /\ Pending(n, m) = {} /\ link[n][m].fr # 0
  /\ LET k == [known[m] EXCEPT ![n] = Bigger(@, link[n][m].fr)]
         w == Bigger(watermark[m], Min({k[p] : p \in Peers(m)}))
     IN /\ known' = [known EXCEPT ![m] = k]
        /\ watermark' = [watermark EXCEPT ![m] = w]
        /\ tomb' = [tomb EXCEPT ![m] = [r \in Rooms |->
             IF tomb[m][r] # None /\ tomb[m][r].ts <= w THEN None ELSE tomb[m][r]]]
  /\ clock' = [clock EXCEPT ![m] = IF @ < MaxTs THEN @ + 1 ELSE @]
  /\ frontier' = [frontier EXCEPT ![m] = IF clock[m] < MaxTs THEN clock'[m] ELSE @]
  /\ SetLink(n, m, [link[n][m] EXCEPT !.fr = 0])
  /\ UNCHANGED <<db, logVars, peer, croom, heard, faults>>

-----------------------------------------------------------------------------
(* The log is rewritten, and nodes restart.                                *)

(* the elements of a set in some order: that of an unordered_map           *)
Listed(S) == CHOOSE f \in Bijection(1..Cardinality(S), S) : TRUE

DumpOf(n) ==
  LET Puts == {r \in Rooms : db[n][r] # None}
      Dels == {r \in Rooms : tomb[n][r] # None}
  IN [i \in 1..Cardinality(Puts) |->
        LET r == Listed(Puts)[i] IN Entry("put", r, db[n][r])]
     \o
     [i \in 1..Cardinality(Dels) |->
        LET r == Listed(Dels)[i] IN Entry("del", r, tomb[n][r])]

Rewrite(n) ==
  /\ n \in Live
  /\ Disturb("rewrite")
  /\ aof' = [aof EXCEPT ![n] = DumpOf(n)]
  /\ inode' = [inode EXCEPT ![n] = @ + 1]
  /\ UNCHANGED <<nodeVars, linkVars, heard>>

EntriesOf(n, r) == {i \in DOMAIN aof[n] : aof[n][i].room = r}

ReplayedRecord(n, r) ==
  IF EntriesOf(n, r) = {} THEN None
  ELSE LET e == aof[n][Max(EntriesOf(n, r))] IN IF e.op = "put" THEN e.ver ELSE None

(* a put of the replay leaves the tombstone of an earlier delete           *)
ReplayedTomb(n, r) ==
  LET D == {aof[n][i].ver : i \in {j \in EntriesOf(n, r) : aof[n][j].op = "del"}}
  IN IF D = {} THEN None ELSE CHOOSE v \in D : \A w \in D : ~Newer(w, v)

ReplayedClock(n) == Max({0} \cup {aof[n][i].ver.ts : i \in DOMAIN aof[n]}) + 1

(* What peers announced and the watermark are lost; the offsets are files. *)
(* The wall clock has moved on, so the first version of the new process is *)
(* above those of the old one, unless the wall clock is behind.            *)
Restart(n) ==
  /\ n \in Live
  /\ Disturb("restart")
  /\ \E ts \in {ReplayedClock(n)} \cup {clock[n] + 1} :
       /\ ts <= MaxTs
       /\ ts > clock[n] \/ "skew" \in Faults
       /\ clock' = [clock EXCEPT ![n] = ts]
       /\ frontier' = [frontier EXCEPT ![n] = ts]
  /\ db' = [db EXCEPT ![n] = [r \in Rooms |-> ReplayedRecord(n, r)]]
  /\ tomb' = [tomb EXCEPT ![n] = [r \in Rooms |-> ReplayedTomb(n, r)]]
  /\ known' = [known EXCEPT ![n] = [m \in Nodes |-> 0]]
  /\ watermark' = [watermark EXCEPT ![n] = 0]
  /\ link' = [p \in Nodes |-> [q \in Nodes |->
                IF n \in {p, q} THEN NoBatch ELSE link[p][q]]]
  /\ peer' = [p \in Nodes |-> [q \in Nodes |->
                IF p = n THEN [peer[p][q] EXCEPT !.room = None]
                ELSE IF q = n THEN [peer[p][q] EXCEPT !.off = OffsetAfterLoss(p, q),
                                                      !.room = RoomAfterLoss(p, q)]
                ELSE peer[p][q]]]
  /\ croom' = [p \in Nodes |-> [q \in Nodes |->
                 IF n \in {p, q} THEN Default ELSE croom[p][q]]]
  /\ UNCHANGED <<logVars, heard>>

-----------------------------------------------------------------------------
Init ==
  /\ db = [n \in Nodes |-> [r \in Rooms |-> None]]
  /\ tomb = [n \in Nodes |-> [r \in Rooms |-> None]]
  /\ clock = [n \in Nodes |-> 1]
  /\ frontier = [n \in Nodes |-> 1]
  /\ known = [n \in Nodes |-> [m \in Nodes |-> 0]]
  /\ watermark = [n \in Nodes |-> 0]
  /\ aof = [n \in Nodes |-> <<>>]
  /\ inode = [n \in Nodes |-> 1]
  /\ peer = [n \in Nodes |-> [m \in Nodes |-> [ino |-> 0, off |-> 0, room |-> None]]]
  /\ link = [n \in Nodes |-> [m \in Nodes |-> NoBatch]]
  /\ croom = [n \in Nodes |-> [m \in Nodes |-> Default]]
  /\ heard = [n \in Nodes |-> {}]
  /\ faults = 0

Ship(n, m) ==
  \/ ReadFrontier(n, m) \/ BuildBatch(n, m) \/ BatchDone(n, m)
  \/ DeliverRoom(n, m) \/ DeliverWrite(n, m) \/ DeliverFrontier(n, m)

Next ==
  \/ \E n \in Nodes, r \in Rooms, op \in {"put", "del"} : Write(n, r, op)
  \/ \E n \in Nodes : \E m \in Peers(n) :
       Ship(n, m) \/ DeliverRefused(n, m) \/ ConnectionLost(n, m)
  \/ \E n \in Nodes : Rewrite(n) \/ Restart(n)

Spec == Init /\ [][Next]_vars

(* every thread keeps shipping, and the peers that run keep answering      *)
FairSpec == Spec /\ \A n \in Nodes : \A m \in Peers(n) : WF_vars(Ship(n, m))

-----------------------------------------------------------------------------
(* Properties.                                                             *)

Entries == [op : {"put", "del"}, room : Rooms, ver : Version]
Cursor == [ino : Nat, off : Nat, room : Rooms \cup {None}]
Batches == [pc : {"idle", "read", "sent"}, fr : Nat, buf : Seq(Entries), done : Nat,
            bad : Nat, room : Rooms \cup {None}]

TypeOK ==
  /\ db \in [Nodes -> [Rooms -> Version \cup {None}]]
  /\ tomb \in [Nodes -> [Rooms -> Version \cup {None}]]
  /\ clock \in [Nodes -> Nat \ {0}] /\ frontier \in [Nodes -> Nat \ {0}]
  /\ known \in [Nodes -> [Nodes -> Nat]] /\ watermark \in [Nodes -> Nat]
  /\ aof \in [Nodes -> Seq(Entries)] /\ inode \in [Nodes -> Nat]
  /\ peer \in [Nodes -> [Nodes -> Cursor]]
  /\ link \in [Nodes -> [Nodes -> Batches]]
  /\ croom \in [Nodes -> [Nodes -> Rooms]]
  /\ heard \in [Nodes -> SUBSET Entries]
  /\ faults \in Nat
  /\ \A n, m \in Nodes : peer[n][m].ino = inode[n] => peer[n][m].off <= Len(aof[n])

(* The newest of the operations that a node has executed in a room decides *)
(* what the room holds: merges are idempotent and the order in which they  *)
(* arrive does not matter, though tombstones are forgotten and rebuilt.    *)
LastWriteWins ==
  \A n \in Nodes, r \in Rooms :
    LET H == {e \in heard[n] : e.room = r}
    IN \A e \in H :
         (\A f \in H : ~Newer(f.ver, e.ver)) =>
            db[n][r] = (IF e.op = "put" THEN e.ver ELSE None)

(* A frontier F of node n that node m has accepted means what its comment  *)
(* says: every write of n up to F, or one that supersedes it, has been     *)
(* executed by m.                                                          *)
FrontierIsExact ==
  \A n, m \in Nodes : n # m =>
    \A e \in heard[n] :
      e.ver.node = n /\ e.ver.ts <= known[m][n] =>
        \E f \in heard[m] : f.room = e.room /\ ~Newer(e.ver, f.ver)

(* A merge is executed in the room it was written in.                      *)
RoomsStayApart ==
  \A n, m \in Nodes : \A e \in heard[m] :
    e.ver.node = n => \E f \in heard[n] : f.room = e.room /\ f.ver = e.ver

Delivered(n, m) ==
  /\ link[n][m].pc = "idle"
  /\ peer[n][m].ino = inode[n]
  /\ peer[n][m].off = Len(aof[n])

(* When every log has been confirmed to its end by every peer that runs,   *)
(* the nodes that run hold the same records.                               *)
Converged ==
  (\A n \in Live : \A m \in Live \ {n} : Delivered(n, m))
    => \A n, m \in Live : db[n] = db[m]

(* Once clients stop writing, the nodes agree and stay so.                 *)
EventuallyConverged == <>[](\A n, m \in Live : db[n] = db[m])
=============================================================================
