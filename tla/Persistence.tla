---------------------------- MODULE Persistence ----------------------------
(***************************************************************************)
(* What survives a restart: the key space with its mutations logged, the   *)
(* replay of the log over the snapshots, and the rewrites of the log, at   *)
(* startup and by a forked child.  src/core/persistence.cpp, the           *)
(* aof.append() calls of src/core/{commands,crdt}.cpp and the constructor  *)
(* in src/core/database.cpp.                                               *)
(*                                                                         *)
(* The file itself is reliable here: what errors and crashes do to it is   *)
(* the subject of AofManager.  The log is a sequence of entries, each with *)
(* the records a write installed or the version of a delete.  A dump has   *)
(* one entry per room and kind, since the file that holds it appears at    *)
(* once.                                                                   *)
(***************************************************************************)
EXTENDS KeySpace, Sequences

CONSTANTS
  MaxLog,        \* bound: entries of the log a mutation may follow
  MaxRestarts,   \* bound: restarts
  MaxRewrites    \* bound: background rewrites

ASSUME PersistenceBounds ==
  MaxLog \in Nat /\ MaxRestarts \in Nat /\ MaxRewrites \in Nat

VARIABLES
  aof,           \* the entries of appendonly.aof
  child,         \* the forked child and what it has to dump
  registered,    \* the rooms in the registry: those a dump visits
  restarts, rewrites

pvars == <<vars, aof, child, registered, restarts, rewrites>>

NoChild == [pc |-> "none", from |-> 0, todo |-> {},
            out |-> [r \in Rooms |-> Empty], tombs |-> [r \in Rooms |-> Empty]]

-----------------------------------------------------------------------------
(* Entries and their replay.                                               *)

Touches(e, r, k) == e.room = r /\ k \in DOMAIN e.recs

Touching(a, r, k) == {i \in DOMAIN a : Touches(a[i], r, k)}

LastOf(I) == CHOOSE i \in I : \A j \in I : j <= i

Mentioned(a, r) == \E i \in DOMAIN a : a[i].room = r

(* replay_record() loads the snapshot of a room before its first entry and *)
(* applies the entries verbatim: the last one for a key decides            *)
ReplayedKey(a, r, k) ==
  LET I == Touching(a, r, k)
  IN IF I = {} THEN snap[r][k]
     ELSE IF a[LastOf(I)].op = "put" THEN a[LastOf(I)].recs[k] ELSE NoRec

ReplayedRoom(a, r) ==
  IF Mentioned(a, r) THEN [k \in Keys |-> ReplayedKey(a, r, k)] ELSE Empty

(* put() does not call clear_tomb(): the newest delete of a key keeps its  *)
(* tombstone whatever follows it                                           *)
ReplayedTomb(a, r, k) ==
  LET D == {a[i].recs[k] : i \in {j \in Touching(a, r, k) : a[j].op = "del"}}
  IN IF D = {} \/ ~HasPeers THEN NoRec
     ELSE CHOOSE v \in D : \A w \in D : ~Newer(w, v)

ReplayedClock_Wall(a) == Max({now * Tick, 1})  \* mutant: no observe() in put()

(* every replayed version is observed, and the initial frontier is one     *)
(* version above them                                                      *)
ObservedIn(a) ==
  UNION {{a[i].recs[k].ts : k \in DOMAIN a[i].recs} : i \in DOMAIN a}

ReplayedClock(a) == Max({now * Tick, 1} \cup {ts + 1 : ts \in ObservedIn(a)})

-----------------------------------------------------------------------------
(* The dump of a state.                                                    *)

(* the keys of a dictionary that are not expired at time t                 *)
Dumped(d, t) == {k \in Keys : d[k] # NoRec /\ ~Expired(d[k], t)}

Entry(op, r, d, K) == [op |-> op, room |-> r, recs |-> [k \in K |-> d[k]]]

(* the elements of a set in some order: that of an unordered_map           *)
Listed(S) == CHOOSE f \in Bijection(1..Cardinality(S), S) : TRUE

(* records first, tombstones last                                          *)
DumpOf(out, tombs) ==
  LET Puts == {r \in Rooms : Held(out[r]) # {}}
      Dels == {r \in Rooms : Held(tombs[r]) # {}}
  IN [i \in 1..Cardinality(Puts) |->
        LET r == Listed(Puts)[i] IN Entry("put", r, out[r], Held(out[r]))]
     \o
     [i \in 1..Cardinality(Dels) |->
        LET r == Listed(Dels)[i] IN Entry("del", r, tombs[r], Held(tombs[r]))]

(* what dump_state() writes of a room whose keys are d; the keys in cold   *)
(* storage are written after those of the rooms                            *)
DumpedRoom(d, c, t) ==
  [k \in Keys |-> IF k \in Dumped(c, t) THEN c[k]
                  ELSE IF k \in Dumped(d, t) THEN d[k] ELSE NoRec]

-----------------------------------------------------------------------------
(* Mutations and what they log.                                            *)

Stored(r, k) == IF ram[r][k] # NoRec THEN ram[r][k] ELSE cold[r][k]

LogPut(r, K) ==
  aof' = Append(aof, [op |-> "put", room |-> r, recs |-> [k \in K |-> Stored(r, k)']])

LogDel(r, k, v) ==
  aof' = Append(aof, [op |-> "del", room |-> r, recs |-> [j \in {k} |-> v]])

LoggedStep(r) ==
  /\ Len(aof) < MaxLog
  /\ \/ \E k \in Keys, v \in Values, exp \in Deadlines :
          Set(r, k, v, exp) /\ LogPut(r, {k})
     \/ \E K \in SUBSET Keys, v \in Values :
          MSet(r, K, v) /\ LogPut(r, K)
     \/ \E k \in Keys, exp \in Deadlines :
          Expire(r, k, exp) /\ LogPut(r, {k})
     \/ \E k \in Keys :
          Del(r, k) /\ LogDel(r, k, [ts |-> clock', node |-> LocalNode])
     \/ \E k \in Keys, val \in Values, v \in Versions,
           exp \in Deadlines \cup {KeepDeadline} :
          CrdtMerge(r, k, val, v, exp) /\ LogPut(r, {k})
     \/ \E k \in Keys, v \in Versions :
          CrdtDel(r, k, v) /\ LogDel(r, k, v)

(* lookups, moves between the three places, and the clocks: never logged   *)
UnloggedStep ==
  /\ \/ \E r \in Rooms : \/ \E K \in SUBSET Keys : Read(r, K)
                         \/ \E k \in Keys, v \in Versions : CrdtIgnored(r, k, v)
                         \/ Wake(r)
                         \/ Hibernate(r)
                         \/ CleanExpired(r)
     \/ \E w \in 1..MaxTs : ReplFrontier(w)
     \/ Compact
     \/ TimePasses
  /\ UNCHANGED aof

(* a room stays in the registry once a command has named it                *)
KeyStep ==
  /\ (\E r \in Rooms : LoggedStep(r)) \/ UnloggedStep
  /\ registered' = registered \cup {r \in Rooms : state'[r] = "Active"}
  /\ UNCHANGED <<child, restarts, rewrites>>

(* find_room() registers a room that activate() then refuses               *)
ActivationRefused(r) ==
  /\ state[r] = "Sleeping"
  /\ ~CanActivate(r)
  /\ registered' = registered \cup {r}
  /\ UNCHANGED <<vars, aof, child, restarts, rewrites>>

-----------------------------------------------------------------------------
(* The background rewrite.                                                 *)

SnapshotsAfterDiscard_None == snap  \* mutant: the files of active rooms stay

(* discard_active_snapshots(): the new log has no deletes to undo what the *)
(* file of an active room would bring back                                 *)
SnapshotsAfterDiscard ==
  [r \in Rooms |-> IF state[r] = "Active" THEN Empty ELSE snap[r]]

RewriteFrom_Late == Len(aof) + 1  \* mutant: the tail starts one entry late

(* rewrite_from_                                                           *)
RewriteFrom == Len(aof)

(* start_background_rewrite(): the fork copies RAM, the index of cold      *)
(* storage and the tombstones; snapshots are files, so a room asleep at    *)
(* the fork is dumped from whatever its file holds when the child gets to  *)
(* it                                                                      *)
StartBackgroundRewrite ==
  /\ child.pc = "none"
  /\ rewrites < MaxRewrites
  /\ rewrites' = rewrites + 1
  /\ snap' = SnapshotsAfterDiscard
  /\ child' = [pc |-> "run", from |-> RewriteFrom,
               todo |-> {r \in registered : state[r] = "Sleeping"},
               out |-> [r \in Rooms |-> DumpedRoom(ram[r], cold[r], now)],
               tombs |-> tomb]
  /\ UNCHANGED <<state, ram, cold, tomb, watermark, clock, now, aof, registered,
                 restarts>>

ChildReadsSnapshot(r) ==
  /\ child.pc = "run"
  /\ r \in child.todo
  /\ child' = [child EXCEPT !.todo = @ \ {r},
                            !.out[r] = DumpedRoom(snap[r], @, now)]
  /\ UNCHANGED <<vars, aof, registered, restarts, rewrites>>

(* the child failed, or the rename did: the old log stays                  *)
AbortRewrite ==
  /\ child.pc = "run"
  /\ child' = NoChild
  /\ UNCHANGED <<vars, aof, registered, restarts, rewrites>>

(* finish_background_rewrite(): the dump and the entries since the fork    *)
RewrittenLog ==
  DumpOf(child.out, child.tombs) \o SubSeq(aof, child.from + 1, Len(aof))

FinishBackgroundRewrite ==
  /\ child.pc = "run"
  /\ child.todo = {}
  /\ aof' = RewrittenLog
  /\ child' = NoChild
  /\ UNCHANGED <<vars, registered, restarts, rewrites>>

-----------------------------------------------------------------------------
(* A restart: the process ends at any point, cold.bin is truncated and the *)
(* constructor replays the log.                                            *)
Restart ==
  /\ restarts < MaxRestarts
  /\ restarts' = restarts + 1
  /\ state' = [r \in Rooms |-> IF Mentioned(aof, r) THEN "Active" ELSE "Sleeping"]
  /\ ram' = [r \in Rooms |-> ReplayedRoom(aof, r)]
  /\ cold' = [r \in Rooms |-> Empty]
  /\ tomb' = [r \in Rooms |-> [k \in Keys |-> ReplayedTomb(aof, r, k)]]
  /\ watermark' = 0
  /\ clock' = ReplayedClock(aof)
  /\ child' = NoChild
  /\ registered' = {r \in Rooms : Mentioned(aof, r)}
  /\ UNCHANGED <<now, rewrites>>

Restarted == Restart /\ UNCHANGED <<aof, snap>>

(* a log that was old or damaged behind its last entry: the constructor    *)
(* calls rewrite_aof() once the replay is over                             *)
RestartedRewriting ==
  /\ Restart
  /\ snap' = [r \in Rooms |-> IF Mentioned(aof, r) THEN Empty ELSE snap[r]]
  /\ aof' = DumpOf([r \in Rooms |-> DumpedRoom(ReplayedRoom(aof, r), Empty, now)], tomb')

-----------------------------------------------------------------------------
PInit ==
  /\ Init
  /\ aof = <<>>
  /\ child = NoChild
  /\ registered = {}
  /\ restarts = 0
  /\ rewrites = 0

PNext ==
  \/ KeyStep
  \/ \E r \in Rooms : ActivationRefused(r)
  \/ StartBackgroundRewrite
  \/ \E r \in Rooms : ChildReadsSnapshot(r)
  \/ AbortRewrite
  \/ FinishBackgroundRewrite
  \/ Restarted
  \/ RestartedRewriting

PSpec == PInit /\ [][PNext]_pvars

-----------------------------------------------------------------------------
(* Properties.                                                             *)

EntryOK(e) ==
  /\ e.op \in {"put", "del"}
  /\ e.room \in Rooms
  /\ DOMAIN e.recs \subseteq Keys
  /\ \A k \in DOMAIN e.recs :
       e.recs[k] \in (IF e.op = "put" THEN Record ELSE Version)

PTypeOK ==
  /\ TypeOK
  /\ \A i \in DOMAIN aof : EntryOK(aof[i])
  /\ child.pc \in {"none", "run"}
  /\ child.from \in 0..Len(aof)
  /\ child.todo \subseteq Rooms
  /\ child.out \in [Rooms -> Dict]
  /\ ActiveRooms \subseteq registered /\ registered \subseteq Rooms

Restored(r, k) ==
  Live(IF Mentioned(aof, r) THEN ReplayedKey(aof, r, k) ELSE snap[r][k])

(* A restart at this moment would give clients exactly what they see now:  *)
(* values, deadlines and versions, for every key of every room, wherever   *)
(* eviction and hibernation have put it and whatever rewrites came before. *)
RestartRestores == \A r \in Rooms, k \in Keys : Found(r, k, {}) = Restored(r, k)

(* No restart takes the clock back below a version that a client or a peer *)
(* can see: the next local write still wins over every one of them.        *)
ClockCoversVisible ==
  \A r \in Rooms, k \in Keys : \A x \in {Found(r, k, {}), tomb[r][k]} :
    x # NoRec => x.ts <= clock
=============================================================================
