------------------------------ MODULE KeySpace ------------------------------
(***************************************************************************)
(* Where the keys of a server live: in RAM (Room::keys), in cold storage   *)
(* (EvictionManager::index) or in the snapshot of a sleeping room, and how *)
(* the key commands, the replicated merges, eviction, hibernation, waking, *)
(* compaction and the expiry sweep move them between the three.            *)
(* src/core/{commands,crdt,database,rooms}.cpp, src/storage/               *)
(* {eviction_manager,snapshot_manager}.cpp.                                *)
(*                                                                         *)
(* A command runs under the mutex of its room, so it is one step; what     *)
(* other threads see inside it is the subject of RoomLifecycle.            *)
(*                                                                         *)
(* Data abstraction.  Every record costs one unit of memory.  The clock of *)
(* versions counts Tick logical steps per unit of wall-clock time.  A      *)
(* missing snapshot file is an empty one.                                  *)
(***************************************************************************)
EXTENDS Integers, FiniteSets, FiniteSetsExt

CONSTANTS
  Rooms, Default,   \* the registered rooms and the pinned one
  Keys, Values,
  Nodes, LocalNode, \* SOMNIUM_NODE_ID
  HasPeers,         \* peer_count_ > 0
  NoRec,            \* no record
  MaxKeys,          \* SOMNIUM_MAX_KEYS, per room
  MaxMemory,        \* SOMNIUM_MAXMEMORY, 0 = no limit
  MaxActive,        \* MAX_ACTIVE_ROOMS
  Tick,             \* logical steps per unit of time (2^16 in hlc.h)
  MaxOffset,        \* SOMNIUM_MAX_CLOCK_OFFSET_MS
  Faults,           \* the errors the environment may inject
  MaxTime, MaxTs    \* bounds: the wall clock and the versions

Record == [val : Values, exp : Nat, ts : Nat, node : Nodes]

ASSUME RoomsAssumption == Default \in Rooms
ASSUME NodesAssumption == LocalNode \in Nodes /\ Nodes \subseteq Nat
ASSUME NoRecAssumption == NoRec \notin Record
ASSUME LimitsAssumption ==
  /\ MaxKeys \in Nat \ {0} /\ MaxActive \in Nat \ {0} /\ MaxMemory \in Nat
  /\ Tick \in Nat \ {0} /\ MaxOffset \in Nat
  /\ MaxTime \in Nat /\ MaxTs \in Nat
ASSUME FaultsAssumption == Faults \subseteq {"cold_read", "cold_write", "snapshot_read"}

VARIABLES
  state,      \* Room::state, "Sleeping" or "Active" outside the room mutex
  ram,        \* Room::keys
  cold,       \* EvictionManager::index and the records it points to
  snap,       \* the records of room_<name>.bin
  tomb,       \* tombstones_: the version of the last delete, or NoRec
  watermark,  \* watermark_
  clock,      \* hlc::Clock::last_
  now         \* the wall clock

vars == <<state, ram, cold, snap, tomb, watermark, clock, now>>
places == <<state, ram, cold, snap>>

Version == [ts : Nat, node : Nodes]
Dict == [Keys -> Record \cup {NoRec}]
Empty == [k \in Keys |-> NoRec]

-----------------------------------------------------------------------------
(* Records and versions.                                                   *)

Expired(x, t) == x.exp > 0 /\ t > x.exp

Ver(x) == [ts |-> x.ts, node |-> x.node]

Newer(v, w) == v.ts > w.ts \/ (v.ts = w.ts /\ v.node > w.node)

(* Clock::next: above the physical time, the clock and what it overwrites  *)
NextVersion(over) == Max({now * Tick, clock + 1, over + 1})

Observed_Never(ts) == clock  \* mutant: the version is not observed

(* Clock::observe                                                          *)
Observed(ts) == Max({clock, ts})

-----------------------------------------------------------------------------
(* A room and its memory.                                                  *)

Held(d) == {k \in Keys : d[k] # NoRec}

(* Room::keys once activate() has loaded the snapshot                      *)
Content(r) == IF state[r] = "Active" THEN ram[r] ELSE snap[r]

ActiveRooms == {r \in Rooms : state[r] = "Active"}

(* global_metrics.resident_bytes when room r holds the dictionary d        *)
ResidentWith(r, d) ==
  Cardinality(Held(d)) +
  Cardinality({p \in (Rooms \ {r}) \X Keys : ram[p[1]][p[2]] # NoRec})

Fits(n) == MaxMemory = 0 \/ n <= MaxMemory

CanActivate_Unbounded(r) ==  \* mutant: the snapshot is loaded whatever its size
  state[r] = "Active" \/ Cardinality(ActiveRooms) < MaxActive

(* activate(): a sleeping room needs a free place and room for its keys    *)
CanActivate(r) ==
  \/ state[r] = "Active"
  \/ /\ Cardinality(ActiveRooms) < MaxActive
     /\ Fits(ResidentWith(r, snap[r]))

(* evict_despised_keys(): keys leave RAM one at a time while the room has  *)
(* too many or the server is over its budget                               *)
Excess(r, d) ==
  Max({0, Cardinality(Held(d)) - MaxKeys} \cup
      (IF MaxMemory = 0 THEN {}
       ELSE {Min({Cardinality(Held(d)), ResidentWith(r, d) - MaxMemory})}))

Victims(r, d) ==
  {V \in SUBSET Held(d) :
     \/ Cardinality(V) = Excess(r, d)
     \/ "cold_write" \in Faults /\ Cardinality(V) < Excess(r, d)}

(* how execute_in_room() ends: room r is active, d and c are what the      *)
(* handler left in RAM and in cold storage, and eviction moves the excess  *)
Settle(r, d, c) ==
  /\ state' = [state EXCEPT ![r] = "Active"]
  /\ \E V \in Victims(r, d) :
       /\ ram' = [ram EXCEPT ![r] = [k \in Keys |-> IF k \in V THEN NoRec ELSE d[k]]]
       /\ cold' = [cold EXCEPT ![r] = [k \in Keys |-> IF k \in V THEN d[k] ELSE c[k]]]
  /\ UNCHANGED snap

-----------------------------------------------------------------------------
(* lookup() of the keys K.  The reads of the keys in bad fail: such a key  *)
(* counts as absent and its entry stays in the index.                      *)

BadReads(r, K) ==
  IF "cold_read" \in Faults
    THEN SUBSET {k \in K : Content(r)[k] = NoRec /\ cold[r][k] # NoRec}
    ELSE {{}}

Live(x) == IF x # NoRec /\ ~Expired(x, now) THEN x ELSE NoRec

Found(r, k, bad) ==
  IF Content(r)[k] # NoRec THEN Live(Content(r)[k])
  ELSE IF k \in bad THEN NoRec
  ELSE Live(cold[r][k])

RamAfterLookup(r, K, bad) ==
  [k \in Keys |-> IF k \in K THEN Found(r, k, bad) ELSE Content(r)[k]]

ColdAfterLookup_Kept(r, K, bad) == cold[r]  \* mutant: the index entry stays

ColdAfterLookup(r, K, bad) ==
  [k \in Keys |-> IF k \in K \ bad /\ Content(r)[k] = NoRec
                    THEN NoRec ELSE cold[r][k]]

(* the versions a write of key k replaces                                  *)
Overwritten(r, k, bad) ==
  IF Found(r, k, bad) # NoRec THEN Found(r, k, bad).ts
  ELSE IF tomb[r][k] # NoRec THEN tomb[r][k].ts ELSE 0

TombsAfterWrite_Kept(r, K, bad) == tomb  \* mutant: clear_tomb() is forgotten

(* insert() of an absent key is followed by clear_tomb()                   *)
TombsAfterWrite(r, K, bad) ==
  [tomb EXCEPT ![r] = [k \in Keys |->
     IF k \in K /\ Found(r, k, bad) = NoRec THEN NoRec ELSE tomb[r][k]]]

(* set_tomb()                                                              *)
TombsAfterDelete(r, k, v) ==
  IF ~HasPeers \/ v.ts <= watermark THEN tomb
  ELSE [tomb EXCEPT ![r][k] =
          IF tomb[r][k] # NoRec /\ Newer(tomb[r][k], v) THEN tomb[r][k] ELSE v]

-----------------------------------------------------------------------------
(* The key commands.                                                       *)

(* GET, MGET, EXISTS, TTL, PTTL, SAVE and every write whose condition      *)
(* fails (SET NX/XX, EXPIRE NX/XX/GT/LT, DEL of absent keys)               *)
Read(r, K) ==
  /\ UNCHANGED <<tomb, watermark, clock, now>>
  /\ CanActivate(r)
  /\ \E bad \in BadReads(r, K) :
       Settle(r, RamAfterLookup(r, K, bad), ColdAfterLookup(r, K, bad))

(* the records w replace what the lookup of their keys found               *)
Install(r, w, bad) ==
  LET K == DOMAIN w
      found == RamAfterLookup(r, K, bad)
  IN /\ Settle(r, [k \in Keys |-> IF k \in K THEN w[k] ELSE found[k]],
               ColdAfterLookup(r, K, bad))
     /\ tomb' = TombsAfterWrite(r, K, bad)

(* a local write: one version, above all those it replaces, for all keys   *)
WriteLocal(r, K, v, exp) ==
  /\ CanActivate(r)
  /\ \E bad \in BadReads(r, K) :
       \E over \in {Overwritten(r, k, bad) : k \in K} :
         LET ver == NextVersion(over)
         IN /\ \A k \in K : Overwritten(r, k, bad) <= over
            /\ ver <= MaxTs
            /\ clock' = ver
            /\ Install(r, [k \in K |-> [val |-> v, exp |-> exp, ts |-> ver,
                                        node |-> LocalNode]], bad)
  /\ UNCHANGED <<watermark, now>>

(* SET, its deadline 0 or in the future                                    *)
Set(r, k, v, exp) ==
  /\ exp = 0 \/ exp > now
  /\ WriteLocal(r, {k}, v, exp)

(* MSET                                                                    *)
MSet(r, K, v) == K # {} /\ WriteLocal(r, K, v, 0)

(* EXPIRE and PEXPIRE with a deadline in the future; PERSIST is exp = 0.   *)
(* A deadline that has passed makes them a DEL.                            *)
Expire(r, k, exp) ==
  /\ CanActivate(r)
  /\ \E bad \in BadReads(r, {k}) :
       LET x == Found(r, k, bad)
           ver == NextVersion(x.ts)
       IN /\ x # NoRec
          /\ exp > now \/ (exp = 0 /\ x.exp # 0)
          /\ ver <= MaxTs
          /\ clock' = ver
          /\ Install(r, [j \in {k} |-> [val |-> x.val, exp |-> exp, ts |-> ver,
                                        node |-> LocalNode]], bad)
  /\ UNCHANGED <<watermark, now>>

(* the lookup of k found x or nothing; erase() and set_tomb()              *)
Erase(r, k, v, bad) ==
  /\ Settle(r, [RamAfterLookup(r, {k}, bad) EXCEPT ![k] = NoRec],
            ColdAfterLookup(r, {k}, bad))
  /\ tomb' = TombsAfterDelete(r, k, v)

Del(r, k) ==
  /\ CanActivate(r)
  /\ \E bad \in BadReads(r, {k}) :
       LET x == Found(r, k, bad)
           ver == NextVersion(x.ts)
       IN /\ x # NoRec
          /\ ver <= MaxTs
          /\ clock' = ver
          /\ Erase(r, k, [ts |-> ver, node |-> LocalNode], bad)
  /\ UNCHANGED <<watermark, now>>

-----------------------------------------------------------------------------
(* Replicated writes.                                                      *)

(* incoming_version() refuses a version too far in the future; every other *)
(* one moves the clock, even when stale() then ignores the write           *)
Incoming(v) ==
  /\ v.ts <= MaxTs
  /\ v.ts \div Tick <= now + MaxOffset
  /\ clock' = Observed(v.ts)

Stale_Equal(r, k, bad, v) ==  \* mutant: an equal version is not stale
  LET x == Found(r, k, bad)
  IN IF x # NoRec THEN Newer(Ver(x), v)
     ELSE IF tomb[r][k] # NoRec THEN Newer(tomb[r][k], v)
     ELSE v.ts <= watermark

Stale(r, k, bad, v) ==
  LET x == Found(r, k, bad)
  IN IF x # NoRec THEN ~Newer(v, Ver(x))
     ELSE IF tomb[r][k] # NoRec THEN ~Newer(v, tomb[r][k])
     ELSE v.ts <= watermark

KeepDeadline == -1  \* CRDTMERGE without its optional argument

MergedDeadline(x, exp) ==
  IF exp # KeepDeadline THEN exp ELSE IF x # NoRec THEN x.exp ELSE 0

CrdtMerge(r, k, val, v, exp) ==
  /\ CanActivate(r)
  /\ Incoming(v)
  /\ \E bad \in BadReads(r, {k}) :
       /\ ~Stale(r, k, bad, v)
       /\ Install(r, [j \in {k} |->
                        [val |-> val, ts |-> v.ts, node |-> v.node,
                         exp |-> MergedDeadline(Found(r, k, bad), exp)]], bad)
  /\ UNCHANGED <<watermark, now>>

CrdtDel(r, k, v) ==
  /\ UNCHANGED <<watermark, now>>
  /\ Incoming(v)
  /\ CanActivate(r)
  /\ \E bad \in BadReads(r, {k}) :
       /\ ~Stale(r, k, bad, v)
       /\ Erase(r, k, v, bad)

CrdtIgnored(r, k, v) ==
  /\ UNCHANGED <<tomb, watermark, now>>
  /\ Incoming(v)
  /\ CanActivate(r)
  /\ \E bad \in BadReads(r, {k}) :
       /\ Stale(r, k, bad, v)
       /\ Settle(r, RamAfterLookup(r, {k}, bad), ColdAfterLookup(r, {k}, bad))

(* REPLFRONTIER that raises the minimum of the peers' frontiers to w:      *)
(* collect_tombstones() forgets the deletes below it.  The clock moves     *)
(* because the handler takes a fresh version as this node's frontier.      *)
ReplFrontier(w) ==
  /\ HasPeers
  /\ w > watermark
  /\ watermark' = w
  /\ clock' = NextVersion(0)
  /\ clock' <= MaxTs
  /\ tomb' = [r \in Rooms |-> [k \in Keys |->
                IF tomb[r][k] # NoRec /\ tomb[r][k].ts <= w THEN NoRec
                ELSE tomb[r][k]]]
  /\ UNCHANGED <<places, now>>

-----------------------------------------------------------------------------
(* Moving rooms and records.                                               *)

(* ROOM, ROOM.WAKE                                                         *)
Wake(r) ==
  /\ state[r] = "Sleeping"
  /\ CanActivate(r)
  /\ state' = [state EXCEPT ![r] = "Active"]
  /\ ram' = [ram EXCEPT ![r] = snap[r]]
  /\ UNCHANGED <<cold, snap, tomb, watermark, clock, now>>

(* activate() does not look at the result of wakeup_room(): the room of a  *)
(* snapshot that cannot be read becomes active and empty                   *)
WakeUnreadable(r) ==
  /\ "snapshot_read" \in Faults
  /\ state[r] = "Sleeping"
  /\ snap[r] # Empty
  /\ Cardinality(ActiveRooms) < MaxActive
  /\ state' = [state EXCEPT ![r] = "Active"]
  /\ UNCHANGED <<ram, cold, snap, tomb, watermark, clock, now>>

Hibernate_Unsaved(r) ==  \* mutant: a failed snapshot goes unnoticed
  /\ r # Default
  /\ state[r] = "Active"
  /\ state' = [state EXCEPT ![r] = "Sleeping"]
  /\ snap' \in {snap, [snap EXCEPT ![r] = ram[r]]}
  /\ ram' = [ram EXCEPT ![r] = Empty]
  /\ UNCHANGED <<cold, tomb, watermark, clock, now>>

(* ROOM.HIBERNATE or the watchdog; a failed snapshot changes nothing       *)
Hibernate(r) ==
  /\ r # Default
  /\ state[r] = "Active"
  /\ state' = [state EXCEPT ![r] = "Sleeping"]
  /\ snap' = [snap EXCEPT ![r] = ram[r]]
  /\ ram' = [ram EXCEPT ![r] = Empty]
  /\ UNCHANGED <<cold, tomb, watermark, clock, now>>

(* the watchdog's clean_expired_keys(), one room at a time                 *)
CleanExpired(r) ==
  /\ ram' = [ram EXCEPT ![r] = [k \in Keys |-> Live(ram[r][k])]]
  /\ UNCHANGED <<state, cold, snap, tomb, watermark, clock, now>>

(* COMPACT; a failed one changes nothing                                   *)
Compact ==
  /\ cold' = [r \in Rooms |-> [k \in Keys |-> Live(cold[r][k])]]
  /\ UNCHANGED <<state, ram, snap, tomb, watermark, clock, now>>

TimePasses ==
  /\ now < MaxTime
  /\ now' = now + 1
  /\ UNCHANGED <<places, tomb, watermark, clock>>

-----------------------------------------------------------------------------
Init ==
  /\ state = [r \in Rooms |-> "Sleeping"]
  /\ ram = [r \in Rooms |-> Empty]
  /\ cold = [r \in Rooms |-> Empty]
  /\ snap = [r \in Rooms |-> Empty]
  /\ tomb = [r \in Rooms |-> Empty]
  /\ watermark = 0
  /\ now = 0
  /\ clock = 1  \* the constructor's first version: the initial frontier

Deadlines == {0} \cup 1..(MaxTime - 1)  \* a later one never passes within the bound
Versions == [ts : 1..MaxTs, node : Nodes]

RoomStep(r) ==
  \/ \E K \in SUBSET Keys : Read(r, K)
  \/ \E k \in Keys, v \in Values, exp \in Deadlines : Set(r, k, v, exp)
  \/ \E K \in SUBSET Keys, v \in Values : MSet(r, K, v)
  \/ \E k \in Keys, exp \in Deadlines : Expire(r, k, exp)
  \/ \E k \in Keys : Del(r, k)
  \/ \E k \in Keys, val \in Values, v \in Versions,
        exp \in Deadlines \cup {KeepDeadline} : CrdtMerge(r, k, val, v, exp)
  \/ \E k \in Keys, v \in Versions : CrdtDel(r, k, v)
  \/ \E k \in Keys, v \in Versions : CrdtIgnored(r, k, v)
  \/ Wake(r)
  \/ WakeUnreadable(r)
  \/ Hibernate(r)
  \/ CleanExpired(r)

Next ==
  \/ \E r \in Rooms : RoomStep(r)
  \/ \E w \in 1..MaxTs : ReplFrontier(w)
  \/ Compact
  \/ TimePasses

Spec == Init /\ [][Next]_vars

-----------------------------------------------------------------------------
(* Properties.                                                             *)

TypeOK ==
  /\ state \in [Rooms -> {"Sleeping", "Active"}]
  /\ ram \in [Rooms -> Dict]
  /\ cold \in [Rooms -> Dict]
  /\ snap \in [Rooms -> Dict]
  /\ tomb \in [Rooms -> [Keys -> Version \cup {NoRec}]]
  /\ watermark \in Nat
  /\ clock \in Nat
  /\ now \in Nat
  /\ \A r \in Rooms : state[r] = "Sleeping" => ram[r] = Empty

(* A key is either in RAM (or in the snapshot its sleeping room will load) *)
(* or in the index of cold storage, never in both: lookup() takes it out   *)
(* of the index, and eviction out of RAM.                                  *)
RamXorCold ==
  \A r \in Rooms, k \in Keys : Content(r)[k] = NoRec \/ cold[r][k] = NoRec

(* A deleted key has a tombstone and no record anywhere: a write of the    *)
(* key clears the tombstone, a delete leaves no copy of the value behind.  *)
TombXorRecord ==
  \A r \in Rooms, k \in Keys :
    tomb[r][k] # NoRec => Content(r)[k] = NoRec /\ cold[r][k] = NoRec

(* No record or tombstone carries a version above the clock, so that the   *)
(* next local write wins over all of them on every node.                   *)
ClockCovers ==
  \A r \in Rooms, k \in Keys :
    \A x \in {Content(r)[k], cold[r][k], tomb[r][k]} :
      x # NoRec => x.ts <= clock

(* The limits hold between commands: keys per active room, resident        *)
(* memory and active rooms, however commands, wakes and merges interleave. *)
WithinLimits ==
  /\ \A r \in Rooms : Cardinality(Held(ram[r])) <= MaxKeys
  /\ Fits(ResidentWith(Default, ram[Default]))
  /\ Cardinality(ActiveRooms) <= MaxActive

Visible == [r \in Rooms |-> [k \in Keys |-> Found(r, k, {})]]

KV == INSTANCE KvStore WITH db <- Visible

(* To a client the server is a dictionary per room: a step replaces keys   *)
(* of one room by newer versions, removes one key, lets deadlines pass or  *)
(* changes nothing a lookup can see.                                       *)
ImplementsStore == KV!Spec

(* the commands that leave a record in key k of room r, and those that     *)
(* remove it; a merge whose deadline has passed removes                    *)
Merges(r, k) ==
  \E val \in Values, v \in Versions, exp \in Deadlines \cup {KeepDeadline} :
    CrdtMerge(r, k, val, v, exp)

Writes(r, k) ==
  \/ \E v \in Values, exp \in Deadlines : Set(r, k, v, exp)
  \/ \E K \in SUBSET Keys, v \in Values : k \in K /\ MSet(r, K, v)
  \/ \E exp \in Deadlines : Expire(r, k, exp)
  \/ Merges(r, k)

Removes(r, k) ==
  \/ Del(r, k)
  \/ \E v \in Versions : CrdtDel(r, k, v)
  \/ Merges(r, k)

(* A key appears, changes or disappears because a command on that key says *)
(* so or its deadline passes, never as a side effect of a lookup, a write  *)
(* of another key, an eviction, a hibernation, a wake-up, a sweep or a     *)
(* compaction.  The store alone cannot tell a lost key from a deleted one. *)
NothingLost ==
  [][\A r \in Rooms, k \in Keys :
       Visible'[r][k] # Visible[r][k] =>
         \/ TimePasses
         \/ Visible'[r][k] # NoRec /\ Writes(r, k)
         \/ Visible'[r][k] = NoRec /\ Removes(r, k)]_vars
=============================================================================
