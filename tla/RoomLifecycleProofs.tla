------------------------ MODULE RoomLifecycleProofs ------------------------
(***************************************************************************)
(* The inductive invariant of RoomLifecycle, for every finite set of rooms *)
(* and every value of the limits: where each thread can be, which mutexes  *)
(* it owns there and which thread is responsible for an unsettled room.    *)
(* On it rest the counter of active rooms, the budget it enforces and what *)
(* a step of the two threads may never do to a room.                       *)
(***************************************************************************)
EXTENDS RoomLifecycle, FiniteSetTheorems, TLAPS

(* where a thread holds the mutex of the room it works on                  *)
Holding == {"unlock", "info", "activate", "reserved", "load", "run", "release",
            "hibernate", "save", "sweep", "recheck", "discard"}

Types ==
  /\ registered \subseteq Rooms
  /\ readers \subseteq Threads
  /\ lock \in [Rooms -> Threads \cup {"free"}]
  /\ state \in [Rooms -> {"Sleeping", "Loading", "Active", "Hibernating"}]
  /\ active \in Int
  /\ size \in [Rooms -> Nat]
  /\ disk \in [Rooms -> Nat]
  /\ bytes \in [Rooms -> Int]
  /\ resident \in Int
  /\ DOMAIN idle = Rooms
  /\ at \in [Threads -> Rooms]
  /\ todo \in [Threads -> SUBSET Rooms]

(* where each thread can be, and with which goal                           *)
Control ==
  /\ pc \in [Threads -> {"idle", "create", "lock", "next", "scan", "relock", "forked"}
                          \cup Holding]
  /\ goal \in [Threads -> Goals]
  /\ goal["dog"] \in {"none", "sweep", "recheck"}
  /\ goal["cmd"] \notin {"sweep", "recheck"}
  /\ pc["dog"] \in {"idle", "lock", "unlock", "release", "hibernate", "save", "next",
                    "sweep", "scan", "recheck"}
  /\ pc["cmd"] \notin {"sweep", "scan", "recheck"}
  /\ \A t \in Threads :
       /\ pc[t] = "create" => goal[t] \in {"key", "wake"}
       /\ pc[t] = "lock" => goal[t] # "none"
       /\ pc[t] = "next" => goal[t] \in {"sweep", "recheck", "discard", "fork"}
       /\ pc[t] \in {"hibernate", "save"} => goal[t] \in {"hibernate", "recheck"}
       /\ pc[t] = "recheck" => goal[t] = "recheck"
       /\ pc[t] \in {"lock", "recheck", "hibernate"} /\ goal[t] \in {"hibernate", "recheck"}
            => at[t] # Default
  /\ goal["dog"] = "recheck" => Default \notin todo["dog"]

(* A thread owns the mutex of the room it works on; the walk of a fork     *)
(* owns those it has visited.                                              *)
Locks ==
  /\ \A t \in Threads : pc[t] \in Holding => lock[at[t]] = t
  /\ goal["cmd"] = "fork" =>
       /\ pc["cmd"] \in {"next", "lock", "forked"}
       /\ \A r \in registered \ todo["cmd"] :
            lock[r] = "cmd" \/ (pc["cmd"] = "lock" /\ at["cmd"] = r)
  /\ pc["cmd"] = "forked" => goal["cmd"] = "fork" /\ todo["cmd"] = {}

(* Which thread is responsible for a room between two settled states.      *)
Owners ==
  /\ pc["cmd"] = "reserved" => state[at["cmd"]] = "Sleeping"
  /\ pc["cmd"] = "load" => state[at["cmd"]] = "Loading"
  /\ \A t \in Threads : pc[t] = "save" => state[at[t]] = "Hibernating"
  /\ \A r \in Rooms :
       /\ state[r] = "Loading" => pc["cmd"] = "load" /\ at["cmd"] = r
       /\ state[r] = "Hibernating" => \E t \in Threads : pc[t] = "save" /\ at[t] = r
  /\ pc["dog"] = "hibernate" => state[at["dog"]] = "Active" /\ idle[at["dog"]]

Inv == Types /\ Control /\ Locks /\ Owners

(* the assumptions on the constants that the steps use                     *)
LEMMA Constants == Default \in Rooms /\ MaxKeys \in Nat
  BY RoomsAssumption, LimitsAssumption

(* The invariant holds when the server starts.                             *)
LEMMA InvInit == Init => Inv
  <1>. SUFFICES ASSUME Init PROVE Inv
    OBVIOUS
  <1>0. active \in Int
    <2>1. PICK A \in SUBSET Rooms : active = Cardinality(A)
      BY DEF Init
    <2>. QED
      BY <2>1, RoomsAssumption, FS_Subset, FS_CardinalityType
  <1>1. Types
    BY <1>0, Constants DEF Init, Types, Threads
  <1>2. pc = [t \in Threads |-> "idle"] /\ goal = [t \in Threads |-> "none"]
    BY DEF Init
  <1>4. Control
    BY <1>2 DEF Control, Threads, Goals, Holding
  <1>5. Locks
    BY <1>2 DEF Locks, Threads, Holding
  <1>3. Owners
    BY DEF Init, Owners, Threads
  <1>. QED
    BY <1>1, <1>3, <1>4, <1>5 DEF Inv

(* Every step keeps the types.                                             *)
LEMMA TypesStep == Types /\ [Next]_vars => Types'
  <1>. SUFFICES ASSUME Types, [Next]_vars PROVE Types'
    OBVIOUS
  <1>. USE Constants DEF Types, Threads, Goto, roomVars, lockVars, threadVars
  <1>1. ASSUME NEW g, NEW r \in Rooms, BeginRegistered(g, r) PROVE Types'
    BY <1>1 DEF BeginRegistered, BeginWith
  <1>2. ASSUME NEW g, NEW r \in Rooms, BeginMissing(g, r) PROVE Types'
    BY <1>2 DEF BeginMissing, BeginWith
  <1>3. CASE StartDiscard
    BY <1>3 DEF StartDiscard, StartWalk
  <1>4. CASE Create
    BY <1>4 DEF Create
  <1>5. CASE Info
    BY <1>5 DEF Info
  <1>6. CASE ActivateActive
    BY <1>6 DEF ActivateActive
  <1>7. CASE ActivateRefused
    BY <1>7 DEF ActivateRefused
  <1>8. CASE Reserve
    BY <1>8 DEF Reserve
  <1>9. CASE StartLoading
    BY <1>9 DEF StartLoading
  <1>10. CASE Loaded
    BY <1>10 DEF Loaded
  <1>11. CASE LoadedTooBig
    BY <1>11 DEF LoadedTooBig
  <1>12. CASE Run
    BY <1>12 DEF Run, Charge
  <1>13. CASE Discard
    BY <1>13 DEF Discard
  <1>14. CASE LockAll
    BY <1>14 DEF LockAll, LockedForFork, StartWalk
  <1>15. CASE Fork
    BY <1>15 DEF Fork
  <1>16. CASE StartSweep
    BY <1>16 DEF StartSweep, StartWalk
  <1>17. CASE Sweep
    BY <1>17 DEF Sweep, Charge
  <1>18. CASE Scan
    BY <1>18 DEF Scan, Candidates, StartWalk
  <1>19. CASE Recheck
    BY <1>19 DEF Recheck
  <1>20. ASSUME NEW t \in Threads, Lock(t) PROVE Types'
    BY <1>20 DEF Lock
  <1>21. ASSUME NEW t \in Threads, Unlock(t) PROVE Types'
    BY <1>21 DEF Unlock
  <1>22. ASSUME NEW t \in Threads, Release(t) PROVE Types'
    BY <1>22 DEF Release
  <1>23. ASSUME NEW t \in Threads, HibernateSleeping(t) PROVE Types'
    BY <1>23 DEF HibernateSleeping
  <1>24. ASSUME NEW t \in Threads, StartHibernating(t) PROVE Types'
    BY <1>24 DEF StartHibernating
  <1>25. ASSUME NEW t \in Threads, SaveFails(t) PROVE Types'
    BY <1>25 DEF SaveFails, StateAfterFailedSave
  <1>26. ASSUME NEW t \in Threads, Saved(t) PROVE Types'
    BY <1>26 DEF Saved, Charge
  <1>27. ASSUME NEW t \in Threads, EndWalk(t) PROVE Types'
    BY <1>27 DEF EndWalk
  <1>28. ASSUME NEW t \in Threads, NEW r \in Rooms, Visit(t, r) PROVE Types'
    BY <1>28 DEF Visit
  <1>29. ASSUME NEW r \in Rooms, GrowIdle(r) PROVE Types'
    BY <1>29 DEF GrowIdle
  <1>30. CASE UNCHANGED vars
    BY <1>30 DEF vars
  <1>. QED
    BY <1>1, <1>2, <1>3, <1>4, <1>5, <1>6, <1>7, <1>8, <1>9, <1>10, <1>11,
       <1>12, <1>13, <1>14, <1>15, <1>16, <1>17, <1>18, <1>19, <1>20, <1>21,
       <1>22, <1>23, <1>24, <1>25, <1>26, <1>27, <1>28, <1>29, <1>30, Zenon
       DEF Next, Serve, Maintain, ThreadStep

(* Every step keeps the threads where they may be.                         *)
LEMMA ControlStep == Types /\ Control /\ [Next]_vars => Control'
  <1>. SUFFICES ASSUME Types, Control, [Next]_vars PROVE Control'
    OBVIOUS
  <1>. USE Constants DEF Control, Types, Threads, Goals, Holding, Goto, roomVars, lockVars, threadVars
  <1>1. ASSUME NEW g \in {"key", "wake", "hibernate", "info"}, NEW r \in Rooms, BeginRegistered(g, r)
        PROVE  Control'
    BY <1>1 DEF BeginRegistered, BeginWith
  <1>2. ASSUME NEW g \in {"key", "wake", "hibernate", "info"}, NEW r \in Rooms, BeginMissing(g, r)
        PROVE  Control'
    BY <1>2 DEF BeginMissing, BeginWith
  <1>3. CASE StartDiscard
    BY <1>3 DEF StartDiscard, StartWalk
  <1>4. CASE Create
    BY <1>4 DEF Create
  <1>5. CASE Info
    BY <1>5 DEF Info
  <1>6. CASE ActivateActive
    BY <1>6 DEF ActivateActive, AfterActivation
  <1>7. CASE ActivateRefused
    BY <1>7 DEF ActivateRefused
  <1>8. CASE Reserve
    BY <1>8 DEF Reserve
  <1>9. CASE StartLoading
    BY <1>9 DEF StartLoading
  <1>10. CASE Loaded
    BY <1>10 DEF Loaded, AfterActivation
  <1>11. CASE LoadedTooBig
    BY <1>11 DEF LoadedTooBig
  <1>12. CASE Run
    BY <1>12 DEF Run, Charge
  <1>13. CASE Discard
    BY <1>13 DEF Discard
  <1>14. CASE LockAll
    BY <1>14 DEF LockAll, LockedForFork, StartWalk
  <1>15. CASE Fork
    BY <1>15 DEF Fork
  <1>16. CASE StartSweep
    BY <1>16 DEF StartSweep, StartWalk
  <1>17. CASE Sweep
    BY <1>17 DEF Sweep, Charge
  <1>18. CASE Scan
    BY <1>18 DEF Scan, Candidates, StartWalk
  <1>19. CASE Recheck
    BY <1>19 DEF Recheck, StillIdle
  <1>20. ASSUME NEW t \in Threads, Lock(t) PROVE Control'
    BY <1>20 DEF Lock, AfterLock
  <1>21. ASSUME NEW t \in Threads, Unlock(t) PROVE Control'
    BY <1>21 DEF Unlock
  <1>22. ASSUME NEW t \in Threads, Release(t) PROVE Control'
    BY <1>22 DEF Release
  <1>23. ASSUME NEW t \in Threads, HibernateSleeping(t) PROVE Control'
    BY <1>23 DEF HibernateSleeping
  <1>24. ASSUME NEW t \in Threads, StartHibernating(t) PROVE Control'
    BY <1>24 DEF StartHibernating
  <1>25. ASSUME NEW t \in Threads, SaveFails(t) PROVE Control'
    BY <1>25 DEF SaveFails, StateAfterFailedSave, AfterFailedSave
  <1>26. ASSUME NEW t \in Threads, Saved(t) PROVE Control'
    BY <1>26 DEF Saved, Charge
  <1>27. ASSUME NEW t \in Threads, EndWalk(t) PROVE Control'
    BY <1>27 DEF EndWalk, AfterWalk
  <1>28. ASSUME NEW t \in Threads, NEW r \in Rooms, Visit(t, r) PROVE Control'
    BY <1>28 DEF Visit
  <1>29. ASSUME NEW r \in Rooms, GrowIdle(r) PROVE Control'
    BY <1>29 DEF GrowIdle
  <1>30. CASE UNCHANGED vars
    BY <1>30 DEF vars
  <1>. QED
    BY <1>1, <1>2, <1>3, <1>4, <1>5, <1>6, <1>7, <1>8, <1>9, <1>10, <1>11,
       <1>12, <1>13, <1>14, <1>15, <1>16, <1>17, <1>18, <1>19, <1>20, <1>21,
       <1>22, <1>23, <1>24, <1>25, <1>26, <1>27, <1>28, <1>29, <1>30, Zenon
       DEF Next, Serve, Maintain, ThreadStep

(* Every step keeps the owners of the mutexes.                             *)
LEMMA LocksStep == Types /\ Control /\ Locks /\ [Next]_vars => Locks'
  <1>. SUFFICES ASSUME Types, Control, Locks, [Next]_vars PROVE Locks'
    OBVIOUS
  <1>. USE Constants DEF Locks, Control, Types, Threads, Goals, Holding, Goto, roomVars, lockVars, threadVars
  <1>1. ASSUME NEW g \in {"key", "wake", "hibernate", "info"}, NEW r \in Rooms, BeginRegistered(g, r)
        PROVE  Locks'
    BY <1>1 DEF BeginRegistered, BeginWith
  <1>2. ASSUME NEW g \in {"key", "wake", "hibernate", "info"}, NEW r \in Rooms, BeginMissing(g, r)
        PROVE  Locks'
    BY <1>2 DEF BeginMissing, BeginWith
  <1>3. CASE StartDiscard
    BY <1>3 DEF StartDiscard, StartWalk
  <1>4. CASE Create
    BY <1>4 DEF Create
  <1>5. CASE Info
    BY <1>5 DEF Info
  <1>6. CASE ActivateActive
    BY <1>6 DEF ActivateActive, AfterActivation
  <1>7. CASE ActivateRefused
    BY <1>7 DEF ActivateRefused
  <1>8. CASE Reserve
    BY <1>8 DEF Reserve
  <1>9. CASE StartLoading
    BY <1>9 DEF StartLoading
  <1>10. CASE Loaded
    BY <1>10 DEF Loaded, AfterActivation
  <1>11. CASE LoadedTooBig
    BY <1>11 DEF LoadedTooBig
  <1>12. CASE Run
    BY <1>12 DEF Run, Charge
  <1>13. CASE Discard
    BY <1>13 DEF Discard
  <1>14. CASE LockAll
    BY <1>14 DEF LockAll, LockedForFork, StartWalk
  <1>15. CASE Fork
    BY <1>15 DEF Fork
  <1>16. CASE StartSweep
    BY <1>16 DEF StartSweep, StartWalk
  <1>17. CASE Sweep
    BY <1>17 DEF Sweep, Charge
  <1>18. CASE Scan
    BY <1>18 DEF Scan, Candidates, StartWalk
  <1>19. CASE Recheck
    BY <1>19 DEF Recheck, StillIdle
  <1>20. ASSUME NEW t \in Threads, Lock(t) PROVE Locks'
    BY <1>20 DEF Lock, AfterLock
  <1>21. ASSUME NEW t \in Threads, Unlock(t) PROVE Locks'
    BY <1>21 DEF Unlock
  <1>22. ASSUME NEW t \in Threads, Release(t) PROVE Locks'
    BY <1>22 DEF Release
  <1>23. ASSUME NEW t \in Threads, HibernateSleeping(t) PROVE Locks'
    BY <1>23 DEF HibernateSleeping
  <1>24. ASSUME NEW t \in Threads, StartHibernating(t) PROVE Locks'
    BY <1>24 DEF StartHibernating
  <1>25. ASSUME NEW t \in Threads, SaveFails(t) PROVE Locks'
    BY <1>25 DEF SaveFails, StateAfterFailedSave, AfterFailedSave
  <1>26. ASSUME NEW t \in Threads, Saved(t) PROVE Locks'
    BY <1>26 DEF Saved, Charge
  <1>27. ASSUME NEW t \in Threads, EndWalk(t) PROVE Locks'
    BY <1>27 DEF EndWalk, AfterWalk
  <1>28. ASSUME NEW t \in Threads, NEW r \in Rooms, Visit(t, r) PROVE Locks'
    BY <1>28 DEF Visit
  <1>29. ASSUME NEW r \in Rooms, GrowIdle(r) PROVE Locks'
    BY <1>29 DEF GrowIdle
  <1>30. CASE UNCHANGED vars
    BY <1>30 DEF vars
  <1>. QED
    BY <1>1, <1>2, <1>3, <1>4, <1>5, <1>6, <1>7, <1>8, <1>9, <1>10, <1>11,
       <1>12, <1>13, <1>14, <1>15, <1>16, <1>17, <1>18, <1>19, <1>20, <1>21,
       <1>22, <1>23, <1>24, <1>25, <1>26, <1>27, <1>28, <1>29, <1>30, Zenon
       DEF Next, Serve, Maintain, ThreadStep

(* Every step keeps a responsible thread for each unsettled room.          *)
LEMMA OwnersStep == Types /\ Control /\ Locks /\ Owners /\ [Next]_vars => Owners'
  <1>. SUFFICES ASSUME Types, Control, Locks, Owners, [Next]_vars PROVE Owners'
    OBVIOUS
  <1>. USE Constants DEF Owners, Control, Locks, Types, Threads, Goals, Holding, Goto, roomVars, lockVars, threadVars
  <1>1. ASSUME NEW g \in {"key", "wake", "hibernate", "info"}, NEW r \in Rooms, BeginRegistered(g, r)
        PROVE  Owners'
    BY <1>1 DEF BeginRegistered, BeginWith
  <1>2. ASSUME NEW g \in {"key", "wake", "hibernate", "info"}, NEW r \in Rooms, BeginMissing(g, r)
        PROVE  Owners'
    BY <1>2 DEF BeginMissing, BeginWith
  <1>3. CASE StartDiscard
    BY <1>3 DEF StartDiscard, StartWalk
  <1>4. CASE Create
    BY <1>4 DEF Create
  <1>5. CASE Info
    BY <1>5 DEF Info
  <1>6. CASE ActivateActive
    BY <1>6 DEF ActivateActive, AfterActivation
  <1>7. CASE ActivateRefused
    BY <1>7 DEF ActivateRefused
  <1>8. CASE Reserve
    BY <1>8 DEF Reserve
  <1>9. CASE StartLoading
    BY <1>9 DEF StartLoading
  <1>10. CASE Loaded
    BY <1>10 DEF Loaded, AfterActivation
  <1>11. CASE LoadedTooBig
    BY <1>11 DEF LoadedTooBig
  <1>12. CASE Run
    BY <1>12 DEF Run, Charge
  <1>13. CASE Discard
    BY <1>13 DEF Discard
  <1>14. CASE LockAll
    BY <1>14 DEF LockAll, LockedForFork, StartWalk
  <1>15. CASE Fork
    BY <1>15 DEF Fork
  <1>16. CASE StartSweep
    BY <1>16 DEF StartSweep, StartWalk
  <1>17. CASE Sweep
    BY <1>17 DEF Sweep, Charge
  <1>18. CASE Scan
    BY <1>18 DEF Scan, Candidates, StartWalk
  <1>19. CASE Recheck
    BY <1>19 DEF Recheck, StillIdle
  <1>20. ASSUME NEW t \in Threads, Lock(t) PROVE Owners'
    BY <1>20 DEF Lock, AfterLock
  <1>21. ASSUME NEW t \in Threads, Unlock(t) PROVE Owners'
    BY <1>21 DEF Unlock
  <1>22. ASSUME NEW t \in Threads, Release(t) PROVE Owners'
    BY <1>22 DEF Release
  <1>23. ASSUME NEW t \in Threads, HibernateSleeping(t) PROVE Owners'
    BY <1>23 DEF HibernateSleeping
  <1>24. ASSUME NEW t \in Threads, StartHibernating(t) PROVE Owners'
    BY <1>24 DEF StartHibernating
  <1>25. ASSUME NEW t \in Threads, SaveFails(t) PROVE Owners'
    BY <1>25 DEF SaveFails, StateAfterFailedSave, AfterFailedSave
  <1>26. ASSUME NEW t \in Threads, Saved(t) PROVE Owners'
    BY <1>26 DEF Saved, Charge
  <1>27. ASSUME NEW t \in Threads, EndWalk(t) PROVE Owners'
    BY <1>27 DEF EndWalk, AfterWalk
  <1>28. ASSUME NEW t \in Threads, NEW r \in Rooms, Visit(t, r) PROVE Owners'
    BY <1>28 DEF Visit
  <1>29. ASSUME NEW r \in Rooms, GrowIdle(r) PROVE Owners'
    BY <1>29 DEF GrowIdle
  <1>30. CASE UNCHANGED vars
    BY <1>30 DEF vars
  <1>. QED
    BY <1>1, <1>2, <1>3, <1>4, <1>5, <1>6, <1>7, <1>8, <1>9, <1>10, <1>11,
       <1>12, <1>13, <1>14, <1>15, <1>16, <1>17, <1>18, <1>19, <1>20, <1>21,
       <1>22, <1>23, <1>24, <1>25, <1>26, <1>27, <1>28, <1>29, <1>30, Zenon
       DEF Next, Serve, Maintain, ThreadStep

(* The invariant is inductive.                                             *)
LEMMA InvStep == Inv /\ [Next]_vars => Inv'
  BY TypesStep, ControlStep, LocksStep, OwnersStep DEF Inv

-----------------------------------------------------------------------------
(* Nobody who takes a mutex finds a room in the middle of a change.        *)

(* LockedIsSettled: a thread between two settled states owns the mutex.    *)
THEOREM LockedIsSettledHolds == Spec => []LockedIsSettled
  <1>1. Inv => LockedIsSettled
    BY DEF Inv, Types, Locks, Owners, LockedIsSettled, Threads, Holding
  <1>. QED
    BY InvInit, InvStep, <1>1, PTL DEF Spec

(* ForkSeesSettled: the fork of a rewrite owns every registered room.      *)
THEOREM ForkSeesSettledHolds == Spec => []ForkSeesSettled
  <1>1. Inv => ForkSeesSettled
    BY DEF Inv, Types, Locks, Owners, ForkSeesSettled, Threads, Holding
  <1>. QED
    BY InvInit, InvStep, <1>1, PTL DEF Spec

-----------------------------------------------------------------------------
(* The counter of active rooms.                                            *)

(* the threads that have reserved a place, or have yet to give one back    *)
Pending == {t \in Threads : pc[t] \in {"reserved", "release"}}

(* sets of rooms and of threads are finite                                 *)
LEMMA Countable ==
  ASSUME NEW S, S \subseteq Rooms \/ S \subseteq Threads
  PROVE  IsFiniteSet(S) /\ Cardinality(S) \in Nat
  <1>1. IsFiniteSet(Threads)
    <2>1. IsFiniteSet({"cmd"} \cup {"dog"})
      BY FS_Singleton, FS_AddElement, Zenon
    <2>2. Threads = {"cmd"} \cup {"dog"}
      BY DEF Threads
    <2>. QED
      BY <2>1, <2>2
  <1>2. IsFiniteSet(S)
    BY <1>1, RoomsAssumption, FS_Subset
  <1>. QED
    BY <1>2, FS_CardinalityType

(* the sets that active_rooms counts                                       *)
LEMMA Counted ==
  /\ IsFiniteSet(Awake) /\ Cardinality(Awake) \in Nat
  /\ IsFiniteSet(Pending) /\ Cardinality(Pending) \in Nat
  <1>1. Awake \subseteq Rooms /\ Pending \subseteq Threads
    BY DEF Awake, Pending
  <1>. QED
    BY <1>1, Countable

(* one element more                                                        *)
LEMMA OneMore ==
  ASSUME NEW S, IsFiniteSet(S), NEW x, x \notin S
  PROVE  Cardinality(S \cup {x}) = Cardinality(S) + 1
  BY FS_AddElement

(* one element less                                                        *)
LEMMA OneLess ==
  ASSUME NEW S, IsFiniteSet(S), NEW x \in S
  PROVE  Cardinality(S \ {x}) = Cardinality(S) - 1
  BY FS_RemoveElement

(* After the replay active_rooms counts the rooms it has activated.        *)
LEMMA CounterInit == Init => CounterExact
  <1>. SUFFICES ASSUME Init PROVE CounterExact
    OBVIOUS
  <1>1. PICK A \in SUBSET Rooms :
          /\ active = Cardinality(A)
          /\ state = [r \in Rooms |-> IF r \in A THEN "Active" ELSE "Sleeping"]
    BY DEF Init
  <1>2. Awake = A
    BY <1>1 DEF Awake
  <1>3. Pending = {}
    BY DEF Init, Pending, Threads
  <1>. QED
    BY <1>1, <1>2, <1>3, Counted, FS_EmptySet DEF CounterExact, Pending

(* The step keeps the counter and both sets, and reserves nothing.         *)
Quiet ==
  /\ active' = active /\ Awake' = Awake /\ Pending' = Pending
  /\ pc'["cmd"] = "reserved" => pc["cmd"] = "reserved"

(* Five actions touch the counter or what it counts.                       *)
LEMMA StepKinds ==
  ASSUME Inv, [Next]_vars
  PROVE  \/ Quiet \/ Reserve \/ StartLoading \/ LoadedTooBig
         \/ \E t \in Threads : Saved(t) \/ Release(t)
  <1>. USE Constants DEF Inv, Types, Control, Threads, Holding, Goto, Awake, Pending,
                         Quiet, roomVars, lockVars, threadVars
  <1>1. ASSUME NEW g \in {"key", "wake", "hibernate", "info"}, NEW r \in Rooms, BeginRegistered(g, r)
        PROVE  Quiet
    BY <1>1 DEF BeginRegistered, BeginWith
  <1>2. ASSUME NEW g \in {"key", "wake", "hibernate", "info"}, NEW r \in Rooms, BeginMissing(g, r)
        PROVE  Quiet
    BY <1>2 DEF BeginMissing, BeginWith
  <1>3. ASSUME StartDiscard PROVE Quiet
    BY <1>3 DEF StartDiscard, StartWalk
  <1>4. ASSUME Create PROVE Quiet
    BY <1>4 DEF Create
  <1>5. ASSUME Info PROVE Quiet
    BY <1>5 DEF Info
  <1>6. ASSUME ActivateActive PROVE Quiet
    BY <1>6 DEF ActivateActive, AfterActivation
  <1>7. ASSUME ActivateRefused PROVE Quiet
    BY <1>7 DEF ActivateRefused
  <1>8. ASSUME Loaded PROVE Quiet
    BY <1>8 DEF Loaded, AfterActivation, Owners
  <1>9. ASSUME Run PROVE Quiet
    BY <1>9 DEF Run, Charge
  <1>10. ASSUME Discard PROVE Quiet
    BY <1>10 DEF Discard
  <1>11. ASSUME LockAll PROVE Quiet
    BY <1>11 DEF LockAll, LockedForFork, StartWalk
  <1>12. ASSUME Fork PROVE Quiet
    BY <1>12 DEF Fork
  <1>13. ASSUME StartSweep PROVE Quiet
    BY <1>13 DEF StartSweep, StartWalk
  <1>14. ASSUME Sweep PROVE Quiet
    BY <1>14 DEF Sweep, Charge
  <1>15. ASSUME Scan PROVE Quiet
    BY <1>15 DEF Scan, Candidates, StartWalk
  <1>16. ASSUME Recheck PROVE Quiet
    BY <1>16 DEF Recheck, StillIdle
  <1>17. ASSUME NEW t \in Threads, Lock(t) PROVE Quiet
    BY <1>17 DEF Lock, AfterLock, Goals
  <1>18. ASSUME NEW t \in Threads, Unlock(t) PROVE Quiet
    BY <1>18 DEF Unlock
  <1>19. ASSUME NEW t \in Threads, HibernateSleeping(t) PROVE Quiet
    BY <1>19 DEF HibernateSleeping
  <1>20. ASSUME NEW t \in Threads, StartHibernating(t) PROVE Quiet
    BY <1>20 DEF StartHibernating
  <1>21. ASSUME NEW t \in Threads, SaveFails(t) PROVE Quiet
    BY <1>21 DEF SaveFails, StateAfterFailedSave, AfterFailedSave, Owners
  <1>22. ASSUME NEW t \in Threads, EndWalk(t) PROVE Quiet
    BY <1>22 DEF EndWalk, AfterWalk, Goals
  <1>23. ASSUME NEW t \in Threads, NEW r \in Rooms, Visit(t, r) PROVE Quiet
    BY <1>23 DEF Visit
  <1>24. ASSUME NEW r \in Rooms, GrowIdle(r) PROVE Quiet
    BY <1>24 DEF GrowIdle
  <1>25. ASSUME UNCHANGED vars PROVE Quiet
    BY <1>25 DEF vars
  <1>. HIDE DEF Inv, Types, Control, Quiet, Goto
  <1>. QED
    BY <1>1, <1>2, <1>3, <1>4, <1>5, <1>6, <1>7, <1>8, <1>9, <1>10, <1>11,
       <1>12, <1>13, <1>14, <1>15, <1>16, <1>17, <1>18, <1>19, <1>20, <1>21,
       <1>22, <1>23, <1>24, <1>25
       DEF Next, Serve, Maintain, ThreadStep

(* Each of the five keeps active_rooms exact.                              *)
LEMMA CounterStep == Inv /\ CounterExact /\ [Next]_vars => CounterExact'
  <1>. SUFFICES ASSUME Inv, CounterExact, [Next]_vars PROVE CounterExact'
    OBVIOUS
  <1>a. active = Cardinality(Awake) + Cardinality(Pending)
    BY DEF CounterExact, Pending
  <1>b. CounterExact' <=> active' = Cardinality(Awake') + Cardinality(Pending')
    BY DEF CounterExact, Pending
  <1>. USE Constants DEF Inv, Types, Control, Threads, Holding, Goto, Awake, Pending,
                         Quiet, roomVars, lockVars, threadVars
  <1>1. ASSUME Quiet PROVE CounterExact'
    <2>. HIDE DEF Awake, Pending, Inv
    <2>. QED
      BY <1>a, <1>b, <1>1
  <1>2. CASE Reserve
    <2>1. "cmd" \notin Pending /\ Pending' = Pending \cup {"cmd"}
      BY <1>2 DEF Reserve
    <2>2. active' = active + 1 /\ Awake' = Awake
      BY <1>2 DEF Reserve
    <2>. HIDE DEF Awake, Pending, Inv
    <2>. QED
      BY <1>a, <1>b, <2>1, <2>2, Counted, OneMore
  <1>3. CASE StartLoading
    <2>1. "cmd" \in Pending /\ Pending' = Pending \ {"cmd"} /\ active' = active
      BY <1>3 DEF StartLoading
    <2>2. at["cmd"] \notin Awake /\ Awake' = Awake \cup {at["cmd"]}
      BY <1>3 DEF StartLoading, Owners
    <2>. HIDE DEF Awake, Pending, Inv
    <2>. QED
      BY <1>a, <1>b, <2>1, <2>2, Counted, OneMore, OneLess
  <1>4. CASE LoadedTooBig
    <2>1. "cmd" \notin Pending /\ Pending' = Pending \cup {"cmd"} /\ active' = active
      BY <1>4 DEF LoadedTooBig
    <2>2. at["cmd"] \in Awake /\ Awake' = Awake \ {at["cmd"]}
      BY <1>4 DEF LoadedTooBig, Owners
    <2>. HIDE DEF Awake, Pending, Inv
    <2>. QED
      BY <1>a, <1>b, <2>1, <2>2, Counted, OneMore, OneLess
  <1>5. ASSUME NEW t \in Threads, Saved(t) PROVE CounterExact'
    <2>1. t \notin Pending /\ Pending' = Pending \cup {t} /\ active' = active
      BY <1>5 DEF Saved
    <2>2. at[t] \in Awake /\ Awake' = Awake \ {at[t]}
      BY <1>5 DEF Saved, Owners
    <2>. HIDE DEF Awake, Pending, Inv
    <2>. QED
      BY <1>a, <1>b, <2>1, <2>2, Counted, OneMore, OneLess
  <1>6. ASSUME NEW t \in Threads, Release(t) PROVE CounterExact'
    <2>1. t \in Pending /\ Pending' = Pending \ {t}
      BY <1>6 DEF Release
    <2>2. active' = active - 1 /\ Awake' = Awake
      BY <1>6 DEF Release
    <2>. HIDE DEF Awake, Pending, Inv
    <2>. QED
      BY <1>a, <1>b, <2>1, <2>2, Counted, OneLess
  <1>. HIDE DEF Inv, Types, Control, Quiet, Goto
  <1>. QED
    BY StepKinds, <1>1, <1>2, <1>3, <1>4, <1>5, <1>6

(* CounterExact: active_rooms counts the rooms that are awake and the      *)
(* places reserved or about to be given back, whatever activate() and      *)
(* hibernate() of the two threads do at the same time.                     *)
THEOREM CounterExactHolds == Spec => []CounterExact
  BY InvInit, InvStep, CounterInit, CounterStep, PTL DEF Spec

(* TypeOK: in particular the counter, decremented by two threads, never    *)
(* goes below zero.                                                        *)
THEOREM TypeCorrect == Spec => []TypeOK
  <1>1. Inv /\ CounterExact => TypeOK
    <2>. SUFFICES ASSUME Inv, CounterExact PROVE TypeOK
      OBVIOUS
    <2>1. active = Cardinality(Awake) + Cardinality(Pending)
      BY DEF CounterExact, Pending
    <2>2. active \in Nat
      BY <2>1, Counted
    <2>. QED
      BY <2>2 DEF Inv, Types, Control, TypeOK, Holding
  <1>. QED
    BY InvInit, InvStep, CounterInit, CounterStep, <1>1, PTL DEF Spec

-----------------------------------------------------------------------------
(* What a step may never do.                                               *)

(* a reserved place is within the budget                                   *)
Reserved == pc["cmd"] = "reserved" => active <= MaxActive

(* Every step keeps a reserved place within the budget.                    *)
LEMMA ReservedStep == Inv /\ Reserved /\ [Next]_vars => Reserved'
  <1>. SUFFICES ASSUME Inv, Reserved, [Next]_vars PROVE Reserved'
    OBVIOUS
  <1>. USE LimitsAssumption DEF Inv, Types, Control, Reserved, Goto, Threads
  <1>1. CASE Quiet
    BY <1>1 DEF Quiet
  <1>2. CASE Reserve
    BY <1>2 DEF Reserve, HasPlace
  <1>3. CASE StartLoading \/ LoadedTooBig
    BY <1>3 DEF StartLoading, LoadedTooBig
  <1>4. ASSUME NEW t \in Threads, Saved(t) PROVE Reserved'
    BY <1>4 DEF Saved
  <1>5. ASSUME NEW t \in Threads, Release(t) PROVE Reserved'
    BY <1>5 DEF Release
  <1>. HIDE DEF Inv, Reserved
  <1>. QED
    BY StepKinds, <1>1, <1>2, <1>3, <1>4, <1>5

(* only the start of a load wakes a room                                   *)
LEMMA WakingStep ==
  ASSUME Inv, CounterExact', Reserved, [Next]_vars, ~(Awake' \subseteq Awake)
  PROVE  Cardinality(Awake') <= MaxActive
  <1>1. StartLoading
    <2>1. CASE Quiet
      BY <2>1 DEF Quiet
    <2>2. CASE Reserve \/ LoadedTooBig
      BY <2>2 DEF Reserve, LoadedTooBig, Awake, Inv, Types
    <2>3. ASSUME NEW t \in Threads, Saved(t) \/ Release(t) PROVE FALSE
      BY <2>3 DEF Saved, Release, Awake, Inv, Types
    <2>. QED
      BY StepKinds, <2>1, <2>2, <2>3
  <1>2. active' <= MaxActive /\ active' \in Int
    BY <1>1 DEF StartLoading, Reserved, Inv, Types
  <1>3. active' = Cardinality(Awake') + Cardinality(Pending')
    BY DEF CounterExact, Pending
  <1>4. Cardinality(Awake') \in Nat /\ Cardinality(Pending') \in Nat
    <2>1. Awake' \subseteq Rooms /\ Pending' \subseteq Threads
      BY DEF Awake, Pending
    <2>. QED
      BY <2>1, Countable
  <1>. QED
    BY <1>2, <1>3, <1>4, LimitsAssumption

(* BudgetRespected: activate() reserves the place before it changes the    *)
(* state, so no room wakes up beyond MAX_ACTIVE_ROOMS.                     *)
THEOREM BudgetRespectedHolds == Spec => BudgetRespected
  <1>1. Init => Reserved
    BY DEF Init, Reserved, Threads
  <1>2. Inv /\ CounterExact' /\ Reserved /\ [Next]_vars
          => [~(Awake' \subseteq Awake) => Cardinality(Awake') <= MaxActive]_vars
    BY WakingStep
  <1>. QED
    BY InvInit, InvStep, CounterInit, CounterStep, ReservedStep, <1>1, <1>2, PTL
       DEF Spec, BudgetRespected

(* A room leaves the state Active only when a thread starts to hibernate   *)
(* it.                                                                     *)
LEMMA LeavingActive ==
  ASSUME Inv, [Next]_vars, NEW r \in Rooms, state[r] = "Active", state'[r] # "Active"
  PROVE  \E t \in Threads : StartHibernating(t) /\ at[t] = r
  <1>. USE DEF Inv, Types, Control, Owners, Threads, roomVars
  <1>1. ASSUME NEW g, NEW q \in Rooms, BeginRegistered(g, q) \/ BeginMissing(g, q)
        PROVE  FALSE
    BY <1>1 DEF BeginRegistered, BeginMissing, BeginWith
  <1>2. ASSUME StartDiscard \/ LockAll \/ Fork \/ Discard PROVE FALSE
    BY <1>2 DEF StartDiscard, LockAll, Fork, Discard
  <1>3. ASSUME Create \/ Info \/ ActivateActive \/ ActivateRefused \/ Reserve
        PROVE  FALSE
    BY <1>3 DEF Create, Info, ActivateActive, ActivateRefused, Reserve
  <1>4. ASSUME StartLoading \/ Loaded \/ LoadedTooBig \/ Run PROVE FALSE
    BY <1>4 DEF StartLoading, Loaded, LoadedTooBig, Run
  <1>5. ASSUME Maintain PROVE FALSE
    BY <1>5 DEF Maintain, StartSweep, Sweep, Scan, Recheck
  <1>6. ASSUME NEW t \in Threads, Lock(t) \/ Unlock(t) \/ Release(t) \/ HibernateSleeping(t)
        PROVE  FALSE
    BY <1>6 DEF Lock, Unlock, Release, HibernateSleeping
  <1>7. ASSUME NEW t \in Threads, SaveFails(t) \/ Saved(t) PROVE FALSE
    BY <1>7 DEF SaveFails, Saved, StateAfterFailedSave
  <1>8. ASSUME NEW t \in Threads, EndWalk(t) \/ \E q \in Rooms : Visit(t, q)
        PROVE  FALSE
    BY <1>8 DEF EndWalk, Visit
  <1>9. ASSUME NEW q \in Rooms, GrowIdle(q) PROVE FALSE
    BY <1>9 DEF GrowIdle
  <1>10. ASSUME NEW t \in Threads, StartHibernating(t) PROVE at[t] = r
    BY <1>10 DEF StartHibernating
  <1>11. ASSUME UNCHANGED vars PROVE FALSE
    BY <1>11 DEF vars
  <1>. HIDE DEF Inv
  <1>. QED
    BY <1>1, <1>2, <1>3, <1>4, <1>5, <1>6, <1>7, <1>8, <1>9, <1>10, <1>11
       DEF Next, Serve, ThreadStep

(* DefaultPinned: ROOM.HIBERNATE refuses the default room and the watchdog *)
(* does not choose it.                                                     *)
THEOREM DefaultPinnedHolds == Spec => DefaultPinned
  <1>1. Inv /\ [Next]_vars => [state[Default] = "Active" => state'[Default] = "Active"]_vars
    <2>1. ASSUME NEW t \in Threads, Inv, StartHibernating(t) PROVE at[t] # Default
      BY <2>1, Zenon DEF StartHibernating, Inv, Control
    <2>. QED
      BY <2>1, LeavingActive, Constants
  <1>. QED
    BY InvInit, InvStep, <1>1, PTL DEF Spec, DefaultPinned

(* OnlyIdleHibernate: the watchdog looks again under the mutex, and the    *)
(* commands that use a room need the same mutex.                           *)
THEOREM OnlyIdleHibernateHolds == Spec => OnlyIdleHibernate
  <1>1. Inv /\ [Next]_vars =>
          [\A r \in Rooms :
             state[r] = "Active" /\ state'[r] = "Hibernating" /\ lock[r] = "dog"
               => idle[r]]_vars
    <2>1. ASSUME NEW t \in Threads, Inv, StartHibernating(t), lock[at[t]] = "dog"
          PROVE  idle[at[t]]
      <3>1. t = "dog" /\ pc["dog"] = "hibernate"
        BY <2>1, Zenon DEF StartHibernating, Inv, Locks, Holding
      <3>. QED
        BY <2>1, <3>1 DEF Inv, Owners
    <2>. QED
      BY <2>1, LeavingActive
  <1>. QED
    BY InvInit, InvStep, <1>1, PTL DEF Spec, OnlyIdleHibernate
=============================================================================
