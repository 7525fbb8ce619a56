--------------------------- MODULE RoomLifecycle ---------------------------
(***************************************************************************)
(* Rooms under their two threads: the command thread, which creates,       *)
(* wakes, uses and hibernates rooms and locks all of them to fork, and the *)
(* watchdog, which sweeps expired keys and hibernates idle rooms.          *)
(* src/core/{room.h,rooms.cpp,commands.cpp,persistence.cpp} and            *)
(* src/server/watchdog.cpp.                                                *)
(*                                                                         *)
(* A step ends where another thread can look: at a lock, at a change of    *)
(* the atomic state or of the atomic counter active_rooms, or at the I/O   *)
(* of a snapshot.  A room holds a number of keys of equal cost.  A room is *)
(* idle when nobody has used it for ROOM_IDLE_MS.                          *)
(***************************************************************************)
EXTENDS Integers, FiniteSets, FiniteSetsExt

CONSTANTS
  Rooms, Default,
  MaxRooms,       \* SOMNIUM_MAX_ROOMS
  MaxActive,      \* MAX_ACTIVE_ROOMS
  MaxKeys,        \* SOMNIUM_MAX_KEYS
  MaxMemory,      \* SOMNIUM_MAXMEMORY
  SnapshotFails   \* whether writing a snapshot may fail

ASSUME RoomsAssumption == Default \in Rooms /\ IsFiniteSet(Rooms)
ASSUME LimitsAssumption ==
  /\ MaxRooms \in Nat /\ MaxActive \in Nat \ {0}
  /\ MaxKeys \in Nat \ {0} /\ MaxMemory \in Nat
  /\ SnapshotFails \in BOOLEAN

Threads == {"cmd", "dog"}

VARIABLES
  registered,  \* the rooms in the registry
  readers,     \* the threads that hold rooms_mutex shared
  lock,        \* the owner of each room_mutex
  state,       \* Room::state
  active,      \* active_rooms
  size,        \* the keys of a room in RAM
  disk,        \* the keys in its snapshot
  bytes,       \* Room::bytes
  resident,    \* global_metrics.resident_bytes
  idle,        \* now - last_access_time > ROOM_IDLE_MS
  pc,          \* where a thread is
  goal,        \* what it does once it has the mutex of a room
  at,          \* the room it works on
  todo         \* the rooms it still has to visit

roomVars == <<state, active, size, disk, bytes, resident, idle>>
lockVars == <<registered, readers, lock>>
threadVars == <<pc, goal, at, todo>>
vars == <<roomVars, lockVars, threadVars>>

Goals == {"none", "key", "wake", "hibernate", "info", "sweep", "recheck", "discard",
          "fork"}

Fits(n) == MaxMemory = 0 \/ n <= MaxMemory

Goto(t, p) ==
  /\ pc' = [pc EXCEPT ![t] = p]
  /\ goal' = IF p = "idle" THEN [goal EXCEPT ![t] = "none"] ELSE goal
  /\ at' = IF p = "idle" THEN [at EXCEPT ![t] = Default] ELSE at
  /\ UNCHANGED todo

-----------------------------------------------------------------------------
(* The command thread reaches a room.                                      *)

BeginWith(g, r, p) ==
  /\ pc["cmd"] = "idle"
  /\ pc' = [pc EXCEPT !["cmd"] = p]
  /\ goal' = [goal EXCEPT !["cmd"] = g]
  /\ at' = [at EXCEPT !["cmd"] = r]
  /\ UNCHANGED <<roomVars, lockVars, todo>>

(* find_room(name, false) finds the room of a key command ("key"), of ROOM *)
(* or ROOM.WAKE ("wake"), of ROOM.HIBERNATE, or of ROOM.INFO, which looks  *)
(* at the state without the lock first.  Error replies change nothing.     *)
BeginRegistered(g, r) ==
  /\ r \in registered
  /\ g = "hibernate" => r # Default
  /\ g = "info" => state[r] = "Active"
  /\ BeginWith(g, r, "lock")

(* a key command runs in the default room or in one that ROOM registered   *)
BeginMissing(g, r) ==
  /\ r \notin registered
  /\ \/ g = "key" /\ r = Default
     \/ g = "wake" /\ Cardinality(registered) < MaxRooms
  /\ BeginWith(g, r, "create")

(* find_room(name, true) takes rooms_mutex exclusively                     *)
Create ==
  /\ pc["cmd"] = "create"
  /\ readers = {}
  /\ registered' = registered \cup {at["cmd"]}
  /\ Goto("cmd", "lock")
  /\ UNCHANGED <<roomVars, readers, lock>>

-----------------------------------------------------------------------------
(* The mutex of a room.                                                    *)

AfterLock(g) ==
  CASE g \in {"key", "wake"} -> "activate"
    [] g = "hibernate" -> "hibernate"
    [] g = "fork" -> "next"
    [] OTHER -> g

Lock(t) ==
  /\ pc[t] = "lock"
  /\ lock[at[t]] = "free"
  /\ lock' = [lock EXCEPT ![at[t]] = t]
  /\ Goto(t, AfterLock(goal[t]))
  /\ UNCHANGED <<roomVars, registered, readers>>

Unlock(t) ==
  /\ pc[t] = "unlock"
  /\ lock' = [lock EXCEPT ![at[t]] = "free"]
  /\ Goto(t, IF goal[t] \in {"sweep", "recheck", "discard"} THEN "next" ELSE "idle")
  /\ UNCHANGED <<roomVars, registered, readers>>

(* ROOM.INFO reads the state again, with the keys, under the lock          *)
Info ==
  /\ pc["cmd"] = "info"
  /\ Goto("cmd", "unlock")
  /\ UNCHANGED <<roomVars, lockVars>>

-----------------------------------------------------------------------------
(* activate()                                                              *)

AfterActivation == IF goal["cmd"] = "key" THEN "run" ELSE "unlock"

ActivateActive ==
  /\ pc["cmd"] = "activate"
  /\ state[at["cmd"]] = "Active"
  /\ idle' = [idle EXCEPT ![at["cmd"]] = FALSE]
  /\ Goto("cmd", AfterActivation)
  /\ UNCHANGED <<state, active, size, disk, bytes, resident, lockVars>>

ActivateRefused ==
  /\ pc["cmd"] = "activate"
  /\ state[at["cmd"]] # "Active"
  /\ active >= MaxActive
  /\ idle' = [idle EXCEPT ![at["cmd"]] = FALSE]
  /\ Goto("cmd", "unlock")
  /\ UNCHANGED <<state, active, size, disk, bytes, resident, lockVars>>

HasPlace_OffByOne == active <= MaxActive  \* mutant

HasPlace == active < MaxActive

(* the place is reserved before the I/O                                    *)
Reserve ==
  /\ pc["cmd"] = "activate"
  /\ state[at["cmd"]] # "Active"
  /\ HasPlace
  /\ active' = active + 1
  /\ idle' = [idle EXCEPT ![at["cmd"]] = FALSE]
  /\ Goto("cmd", "reserved")
  /\ UNCHANGED <<state, size, disk, bytes, resident, lockVars>>

StartLoading ==
  /\ pc["cmd"] = "reserved"
  /\ state' = [state EXCEPT ![at["cmd"]] = "Loading"]
  /\ Goto("cmd", "load")
  /\ UNCHANGED <<active, size, disk, bytes, resident, idle, lockVars>>

Loaded ==
  /\ pc["cmd"] = "load"
  /\ LET r == at["cmd"]
     IN /\ Fits(resident + disk[r])
        /\ size' = [size EXCEPT ![r] = disk[r]]
        /\ bytes' = [bytes EXCEPT ![r] = @ + disk[r]]
        /\ resident' = resident + disk[r]
        /\ state' = [state EXCEPT ![r] = "Active"]
  /\ Goto("cmd", AfterActivation)
  /\ UNCHANGED <<active, disk, idle, lockVars>>

(* too big for SOMNIUM_MAXMEMORY: what was loaded is dropped               *)
LoadedTooBig ==
  /\ pc["cmd"] = "load"
  /\ ~Fits(resident + disk[at["cmd"]])
  /\ state' = [state EXCEPT ![at["cmd"]] = "Sleeping"]
  /\ Goto("cmd", "release")
  /\ UNCHANGED <<active, size, disk, bytes, resident, idle, lockVars>>

Release(t) ==
  /\ pc[t] = "release"
  /\ active' = active - 1
  /\ Goto(t, "unlock")
  /\ UNCHANGED <<state, size, disk, bytes, resident, idle, lockVars>>

Charge(r, n) ==
  /\ size' = [size EXCEPT ![r] = n]
  /\ bytes' = [bytes EXCEPT ![r] = @ + n - size[r]]
  /\ resident' = resident + n - size[r]

(* the handler of a key command, then evict_despised_keys()                *)
Run ==
  /\ pc["cmd"] = "run"
  /\ \E n \in 0..MaxKeys :
       /\ n = 0 \/ Fits(resident + n - size[at["cmd"]])
       /\ Charge(at["cmd"], n)
  /\ Goto("cmd", "unlock")
  /\ UNCHANGED <<state, active, disk, idle, lockVars>>

-----------------------------------------------------------------------------
(* hibernate()                                                             *)

HibernateSleeping(t) ==
  /\ pc[t] = "hibernate"
  /\ state[at[t]] = "Sleeping"
  /\ Goto(t, "unlock")
  /\ UNCHANGED <<roomVars, lockVars>>

StartHibernating(t) ==
  /\ pc[t] = "hibernate"
  /\ state[at[t]] # "Sleeping"
  /\ state' = [state EXCEPT ![at[t]] = "Hibernating"]
  /\ Goto(t, "save")
  /\ UNCHANGED <<active, size, disk, bytes, resident, idle, lockVars>>

AfterFailedSave_Released == "release"  \* mutant: the place is given back

AfterFailedSave == "unlock"

StateAfterFailedSave_Stuck == "Hibernating"  \* mutant: the state is not restored

StateAfterFailedSave == "Active"

SaveFails(t) ==
  /\ SnapshotFails
  /\ pc[t] = "save"
  /\ state' = [state EXCEPT ![at[t]] = StateAfterFailedSave]
  /\ Goto(t, AfterFailedSave)
  /\ UNCHANGED <<active, size, disk, bytes, resident, idle, lockVars>>

Saved_NotDischarged(t) ==  \* mutant: charge() is missing
  /\ pc[t] = "save"
  /\ disk' = [disk EXCEPT ![at[t]] = size[at[t]]]
  /\ size' = [size EXCEPT ![at[t]] = 0]
  /\ state' = [state EXCEPT ![at[t]] = "Sleeping"]
  /\ Goto(t, "release")
  /\ UNCHANGED <<active, bytes, resident, idle, lockVars>>

Saved(t) ==
  /\ pc[t] = "save"
  /\ disk' = [disk EXCEPT ![at[t]] = size[at[t]]]
  /\ Charge(at[t], 0)
  /\ state' = [state EXCEPT ![at[t]] = "Sleeping"]
  /\ Goto(t, "release")
  /\ UNCHANGED <<active, idle, lockVars>>

-----------------------------------------------------------------------------
(* Walks over rooms: clean_expired_keys() and the two of a rewrite keep    *)
(* rooms_mutex shared, hibernate_inactive_rooms() does not.                *)

StartWalk(t, g, S) ==
  /\ todo' = [todo EXCEPT ![t] = S]
  /\ goal' = [goal EXCEPT ![t] = g]
  /\ pc' = [pc EXCEPT ![t] = "next"]
  /\ UNCHANGED <<at, registered, lock>>

Visit(t, r) ==
  /\ pc[t] = "next"
  /\ r \in todo[t]
  /\ todo' = [todo EXCEPT ![t] = @ \ {r}]
  /\ at' = [at EXCEPT ![t] = r]
  /\ pc' = [pc EXCEPT ![t] = "lock"]
  /\ UNCHANGED <<roomVars, lockVars, goal>>

AfterWalk_NoScan(g) ==  \* mutant: idle rooms are not looked for
  CASE g = "discard" -> "relock"
    [] g = "fork" -> "forked"
    [] OTHER -> "idle"

AfterWalk(g) ==
  CASE g = "sweep" -> "scan"
    [] g = "discard" -> "relock"
    [] g = "fork" -> "forked"
    [] OTHER -> "idle"

EndWalk_KeepsRegistry(t) ==  \* mutant: rooms_mutex stays shared
  /\ pc[t] = "next"
  /\ todo[t] = {}
  /\ Goto(t, AfterWalk(goal[t]))
  /\ UNCHANGED <<roomVars, lockVars>>

EndWalk(t) ==
  /\ pc[t] = "next"
  /\ todo[t] = {}
  /\ readers' = IF goal[t] = "fork" THEN readers ELSE readers \ {t}
  /\ Goto(t, AfterWalk(goal[t]))
  /\ UNCHANGED <<roomVars, registered, lock>>

(* the watchdog's clean_expired_keys()                                     *)
StartSweep ==
  /\ pc["dog"] = "idle"
  /\ readers' = readers \cup {"dog"}
  /\ StartWalk("dog", "sweep", registered)
  /\ UNCHANGED roomVars

Sweep ==
  /\ pc["dog"] = "sweep"
  /\ \E n \in 0..size[at["dog"]] : Charge(at["dog"], n)
  /\ Goto("dog", "unlock")
  /\ UNCHANGED <<state, active, disk, idle, lockVars>>

(* its hibernate_inactive_rooms(): candidates first, without their locks   *)
Candidates == {r \in registered : state[r] = "Active" /\ r # Default /\ idle[r]}

Scan ==
  /\ pc["dog"] = "scan"
  /\ StartWalk("dog", "recheck", Candidates)
  /\ UNCHANGED <<roomVars, readers>>

StillIdle_Unchecked(r) == TRUE  \* mutant: no second look under the lock

StillIdle(r) == state[r] = "Active" /\ idle[r]

Recheck ==
  /\ pc["dog"] = "recheck"
  /\ Goto("dog", IF StillIdle(at["dog"]) THEN "hibernate" ELSE "unlock")
  /\ UNCHANGED <<roomVars, lockVars>>

(* start_background_rewrite(): discard_active_snapshots(), then the fork   *)
(* with every mutex held                                                   *)
StartDiscard ==
  /\ pc["cmd"] = "idle"
  /\ readers' = readers \cup {"cmd"}
  /\ StartWalk("cmd", "discard", registered)
  /\ UNCHANGED roomVars

Discard ==
  /\ pc["cmd"] = "discard"
  /\ LET r == at["cmd"]
     IN disk' = [disk EXCEPT ![r] = IF state[r] # "Sleeping" THEN 0 ELSE @]
  /\ Goto("cmd", "unlock")
  /\ UNCHANGED <<state, active, size, bytes, resident, idle, lockVars>>

LockedForFork_None == {}  \* mutant: the fork does not take the room mutexes

LockedForFork == registered

LockAll ==
  /\ pc["cmd"] = "relock"
  /\ readers' = readers \cup {"cmd"}
  /\ StartWalk("cmd", "fork", LockedForFork)
  /\ UNCHANGED roomVars

Fork ==
  /\ pc["cmd"] = "forked"
  /\ lock' = [r \in Rooms |-> IF lock[r] = "cmd" THEN "free" ELSE lock[r]]
  /\ readers' = readers \ {"cmd"}
  /\ Goto("cmd", "idle")
  /\ UNCHANGED <<roomVars, registered>>

-----------------------------------------------------------------------------
(* time passes since the last use of a room                                *)
GrowIdle(r) ==
  /\ ~idle[r]
  /\ idle' = [idle EXCEPT ![r] = TRUE]
  /\ UNCHANGED <<state, active, size, disk, bytes, resident, lockVars, threadVars>>

(* after the replay of the log, which may activate any number of rooms     *)
Init ==
  \E A \in SUBSET Rooms :
    /\ registered = A
    /\ readers = {}
    /\ lock = [r \in Rooms |-> "free"]
    /\ state = [r \in Rooms |-> IF r \in A THEN "Active" ELSE "Sleeping"]
    /\ active = Cardinality(A)
    /\ size = [r \in Rooms |-> 0]
    /\ disk = [r \in Rooms |-> 0]
    /\ bytes = [r \in Rooms |-> 0]
    /\ resident = 0
    /\ idle = [r \in Rooms |-> r \notin A]
    /\ pc = [t \in Threads |-> "idle"]
    /\ goal = [t \in Threads |-> "none"]
    /\ at = [t \in Threads |-> Default]
    /\ todo = [t \in Threads |-> {}]

ThreadStep(t) ==
  \/ Lock(t) \/ Unlock(t) \/ Release(t)
  \/ HibernateSleeping(t) \/ StartHibernating(t) \/ SaveFails(t) \/ Saved(t)
  \/ (\E r \in Rooms : Visit(t, r)) \/ EndWalk(t)

(* the steps that carry a command to its reply                             *)
Serve ==
  \/ Create \/ Info
  \/ ActivateActive \/ ActivateRefused \/ Reserve \/ StartLoading
  \/ Loaded \/ LoadedTooBig \/ Run
  \/ Discard \/ LockAll \/ Fork

Maintain == StartSweep \/ Sweep \/ Scan \/ Recheck

Next ==
  \/ \E g \in {"key", "wake", "hibernate", "info"}, r \in Rooms :
       BeginRegistered(g, r) \/ BeginMissing(g, r)
  \/ StartDiscard
  \/ Serve
  \/ Maintain
  \/ \E t \in Threads : ThreadStep(t)
  \/ \E r \in Rooms : GrowIdle(r)

Spec == Init /\ [][Next]_vars

(* Both threads run.  A mutex that is free again and again is obtained:    *)
(* the watchdog sleeps seconds between two rounds without any lock, and    *)
(* the command thread holds none while it waits for requests.  A snapshot  *)
(* that a thread tries to write again and again is written some time.      *)
Fairness ==
  /\ WF_vars(Serve)
  /\ WF_vars(Maintain)
  /\ \A t \in Threads : WF_vars(ThreadStep(t)) /\ SF_vars(Lock(t)) /\ SF_vars(Saved(t))
  /\ SF_vars(Create)

FairSpec == Spec /\ Fairness

-----------------------------------------------------------------------------
(* Properties.                                                             *)

Awake == {r \in Rooms : state[r] # "Sleeping"}

TypeOK ==
  /\ registered \subseteq Rooms
  /\ readers \subseteq Threads
  /\ lock \in [Rooms -> Threads \cup {"free"}]
  /\ state \in [Rooms -> {"Sleeping", "Loading", "Active", "Hibernating"}]
  /\ active \in Nat
  /\ size \in [Rooms -> Nat]
  /\ disk \in [Rooms -> Nat]
  /\ bytes \in [Rooms -> Int]
  /\ resident \in Int
  /\ DOMAIN idle = Rooms
  /\ pc \in [Threads -> {"idle", "create", "lock", "unlock", "info",
                         "activate", "reserved", "load", "run", "release",
                         "hibernate", "save", "next", "sweep", "scan",
                         "recheck", "discard", "relock", "forked"}]
  /\ goal \in [Threads -> Goals]
  /\ at \in [Threads -> Rooms]
  /\ todo \in [Threads -> SUBSET Rooms]

(* Every state but Sleeping takes a place: the rooms that wake up find one *)
(* within MAX_ACTIVE_ROOMS, whatever the watchdog is releasing at that     *)
(* moment and however many rooms the replay has activated.                 *)
BudgetRespected ==
  [][~(Awake' \subseteq Awake) => Cardinality(Awake') <= MaxActive]_vars

(* active_rooms counts the rooms that are awake, and those whose place is  *)
(* reserved or about to be given back.                                     *)
CounterExact ==
  active = Cardinality(Awake)
           + Cardinality({t \in Threads : pc[t] \in {"reserved", "release"}})

(* Whoever takes the mutex of a room finds it Sleeping or Active, never in *)
(* the middle of a load or of a hibernation.                               *)
LockedIsSettled ==
  \A r \in Rooms : lock[r] = "free" => state[r] \in {"Sleeping", "Active"}

(* The bytes of a room are those of its keys, a sleeping room has none,    *)
(* and the total that decides about evictions is the sum over the rooms.   *)
MemoryAccounted ==
  /\ \A r \in Rooms : bytes[r] = size[r]
  /\ \A r \in Rooms : state[r] = "Sleeping" => size[r] = 0
  /\ resident = MapThenSumSet(LAMBDA r : bytes[r], Rooms)

(* At the fork no thread is in the middle of a change: the child copies    *)
(* rooms that are Sleeping or Active, and registered ones only.            *)
ForkSeesSettled ==
  pc["cmd"] = "forked" =>
    \A r \in registered : state[r] \in {"Sleeping", "Active"} /\ lock[r] = "cmd"

(* The default room is pinned: once active it never leaves RAM.            *)
DefaultPinned ==
  [][state[Default] = "Active" => state'[Default] = "Active"]_vars

(* The watchdog does not hibernate a room that a command has used after    *)
(* the watchdog chose it.                                                  *)
OnlyIdleHibernate ==
  [][\A r \in Rooms :
       state[r] = "Active" /\ state'[r] = "Hibernating" /\ lock[r] = "dog"
         => idle[r]]_vars

(* Every command gets its reply: the lock order admits no cycle and every  *)
(* walk ends.                                                              *)
CommandsReturn == pc["cmd"] # "idle" ~> pc["cmd"] = "idle"

(* A room nobody uses is eventually put to sleep, although a round of the  *)
(* watchdog may find it locked and a snapshot may fail.                    *)
IdleRoomsSleep ==
  \A r \in Rooms \ {Default} :
    []<>(state[r] = "Sleeping" \/ ~idle[r] \/ r \notin registered)
=============================================================================
