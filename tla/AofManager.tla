----------------------------- MODULE AofManager -----------------------------
(***************************************************************************)
(* The append-only file of SomniumDB: src/storage/aof_manager.{h,cpp} and  *)
(* the part of src/core/persistence.cpp that drives a rewrite.             *)
(*                                                                         *)
(* Three actors share the file: the command thread (append, start and      *)
(* finish of a rewrite), the everysec sync thread (which calls fdatasync   *)
(* outside the mutex) and the forked child that dumps the state into       *)
(* appendonly.aof.tmp.  The environment adds I/O errors, process crashes   *)
(* and power losses.                                                       *)
(*                                                                         *)
(* Data abstraction.  The file is a sequence of units: the v3 header,      *)
(* records, and what a failed or interrupted write leaves behind.  A       *)
(* record carries the set of mutations it restores (one for an append, all *)
(* the applied ones for a dump), a mutation is its serial number, and an   *)
(* offset counts units.                                                    *)
(***************************************************************************)
EXTENDS Integers, Sequences, FiniteSets

CONSTANTS
  SyncPolicy,   \* SOMNIUM_AOF_SYNC: "always", "everysec" or "no"
  Faults,       \* the errors the environment may inject
  Crashes,      \* the ways a server run may end
  MaxMut,       \* bound: mutations
  MaxRestarts,  \* bound: server runs after the first one
  MaxRewrites   \* bound: rewrites

FaultKinds == {"open", "write", "cut", "sync", "header", "startup_open",
               "recover_cut", "rewrite", "orphan"}

ASSUME PolicyAssumption == SyncPolicy \in {"always", "everysec", "no"}
ASSUME FaultsAssumption == Faults \subseteq FaultKinds
ASSUME CrashesAssumption == Crashes \subseteq {"shutdown", "process", "power"}
ASSUME BoundsAssumption ==
  MaxMut \in Nat /\ MaxRestarts \in Nat /\ MaxRewrites \in Nat

VARIABLES
  file,        \* appendonly.aof as the operating system sees it
  inode,       \* which file the path names: a rename replaces it
  disk,        \* how many leading units of file are on stable storage
  up,          \* the server is running (recovered and open)
  fd,          \* fd_ >= 0
  size,        \* size_
  synced,      \* synced_
  generation,  \* generation_
  healthy,     \* healthy_
  torn,        \* torn_
  ram,         \* the mutations applied by this server run or its replay
  next,        \* the serial number of the next mutation
  confirmed,   \* the mutations whose append() returned true
  worker,      \* the sync thread: what it captured before unlocking
  rewrite,     \* the rewrite in progress
  orphan,      \* the temporary file of a child that outlived its server:
               \* "tmp" at its path, "garbled" written to during a rewrite,
               \* "live" renamed over appendonly.aof
  ended,       \* the ways in which earlier server runs have ended
  restarts, rewrites

vars == <<file, inode, disk, up, fd, size, synced, generation, healthy, torn,
          ram, next, confirmed, worker, rewrite, orphan, ended, restarts,
          rewrites>>

fileVars == <<file, inode, disk>>
syncVars == <<size, synced, generation, healthy, torn, fd>>
ghostVars == <<ram, next, confirmed>>
boundVars == <<ended, restarts, rewrites>>

-----------------------------------------------------------------------------
(* Units of the file and what a replay makes of them.                      *)

Header == [kind |-> "header", muts |-> {}]
Rec(S) == [kind |-> "rec", muts |-> S]
Partial == [kind |-> "partial", muts |-> {}]
Garbage == [kind |-> "garbage", muts |-> {}]

Unit == [kind : {"header", "rec", "partial", "garbage"}, muts : SUBSET Nat]

Unreadable(u) == u.kind \in {"partial", "garbage"}

(* the units a replay reaches: it stops at the first unreadable one        *)
Readable(f) == {i \in 1..Len(f) : \A j \in 1..i : ~Unreadable(f[j])}

MutsOf(f, I) == UNION {f[i].muts : i \in I}

HasHeader(f) == f # <<>> /\ f[1].kind = "header"

(* what recover() restores verbatim.  A file without the v3 header is read *)
(* as v1 or v2, whose records carry neither deadline nor version.          *)
Replayed(f) == IF HasHeader(f) THEN MutsOf(f, Readable(f)) ELSE {}

(* the mutations a replay restores from the first n units alone            *)
ReplayedUpTo(f, n) ==
  IF HasHeader(f) THEN MutsOf(f, {i \in Readable(f) : i <= n}) ELSE {}

NoSync == [pc |-> "wait", gen |-> 0, off |-> 0, ino |-> 0]
NoRewrite == [pc |-> "none", from |-> 0, muts |-> {}]

-----------------------------------------------------------------------------
(* The command thread: append().  The handlers ignore its result, so the   *)
(* mutation is in RAM and acknowledged in every case.                      *)

Mutate ==
  /\ up
  /\ next <= MaxMut
  /\ next' = next + 1
  /\ ram' = ram \cup {next}

(* a closed descriptor is reopened first; the reopened file counts as      *)
(* healthy and as not yet synced                                           *)
ReopenedGeneration == IF fd THEN generation ELSE generation + 1
ReopenedSynced == IF fd THEN synced ELSE 0

AppendRefused ==
  /\ Mutate
  /\ torn
  /\ UNCHANGED <<fileVars, syncVars, confirmed, worker, rewrite, orphan, up,
                 boundVars>>

AppendCannotOpen ==
  /\ "open" \in Faults
  /\ Mutate
  /\ ~torn /\ ~fd
  /\ healthy' = FALSE
  /\ UNCHANGED <<fileVars, size, synced, generation, torn, fd, confirmed,
                 worker, rewrite, orphan, up, boundVars>>

AppendWritten ==
  /\ Mutate
  /\ ~torn
  /\ file' = Append(file, Rec({next}))
  /\ size' = size + 1
  /\ fd' = TRUE
  /\ generation' = ReopenedGeneration
  /\ UNCHANGED <<inode, torn, worker, rewrite, orphan, up, boundVars>>

(* everysec and no: the write itself is the confirmation                   *)
AppendBuffered ==
  /\ SyncPolicy # "always"
  /\ AppendWritten
  /\ synced' = ReopenedSynced
  /\ healthy' = IF fd THEN healthy ELSE TRUE
  /\ confirmed' = confirmed \cup {next}
  /\ UNCHANGED disk

(* always: the confirmation waits for fdatasync                            *)
AppendSynced ==
  /\ SyncPolicy = "always"
  /\ AppendWritten
  /\ disk' = Len(file')
  /\ synced' = size'
  /\ healthy' = IF fd THEN healthy ELSE TRUE
  /\ confirmed' = confirmed \cup {next}

(* append() returns false when the sync of an always record fails          *)
ConfirmedAfterFailedSync_Ignored == confirmed \cup {next}            \* mutant
ConfirmedAfterFailedSync == confirmed

AppendSyncFails ==
  /\ SyncPolicy = "always" /\ "sync" \in Faults
  /\ AppendWritten
  /\ synced' = ReopenedSynced
  /\ healthy' = FALSE
  /\ confirmed' = ConfirmedAfterFailedSync
  /\ UNCHANGED disk

(* the write fails; what part of the record got out is cut off again, and  *)
(* when even that fails the file is torn and append() stays closed         *)
TornAfterFailedCut_Forgotten == FALSE                               \* mutant
TornAfterFailedCut == TRUE

AppendFails ==
  /\ "write" \in Faults
  /\ Mutate
  /\ ~torn
  /\ \/ UNCHANGED <<file, torn>>
     \/ /\ "cut" \in Faults
        /\ file' = Append(file, Partial)
        /\ torn' = TornAfterFailedCut
  /\ healthy' = FALSE
  /\ fd' = FALSE
  /\ generation' = ReopenedGeneration + 1
  /\ synced' = ReopenedSynced
  /\ UNCHANGED <<inode, disk, size, confirmed, worker, rewrite, orphan, up,
                 boundVars>>

AppendRecord ==
  \/ AppendRefused
  \/ AppendCannotOpen
  \/ AppendBuffered
  \/ AppendSynced
  \/ AppendSyncFails
  \/ AppendFails

-----------------------------------------------------------------------------
(* The everysec thread: sync_worker().  It captures generation, offset and *)
(* a duplicate descriptor under the mutex, syncs without it and publishes  *)
(* under it again.                                                         *)

SyncIsDue_OffByOne == fd /\ size > synced + 1                        \* mutant
SyncIsDue == fd /\ size > synced

SyncCapture ==
  /\ SyncPolicy = "everysec"
  /\ up
  /\ worker.pc = "wait"
  /\ SyncIsDue
  /\ worker' = [pc |-> "sync", gen |-> generation, off |-> size, ino |-> inode]
  /\ UNCHANGED <<fileVars, syncVars, ghostVars, rewrite, orphan, up, boundVars>>

(* fdatasync on the captured descriptor: it reaches the live file only if  *)
(* no rename has replaced it meanwhile                                     *)
SyncSucceeds ==
  /\ worker.pc = "sync"
  /\ worker' = [worker EXCEPT !.pc = "synced"]
  /\ disk' = IF worker.ino = inode THEN Len(file) ELSE disk
  /\ UNCHANGED <<file, inode, syncVars, ghostVars, rewrite, orphan, up,
                 boundVars>>

SyncFails ==
  /\ "sync" \in Faults
  /\ worker.pc = "sync"
  /\ worker' = [worker EXCEPT !.pc = "failed"]
  /\ UNCHANGED <<fileVars, syncVars, ghostVars, rewrite, orphan, up, boundVars>>

SameGeneration_Unchecked == TRUE                                    \* mutant
SameGeneration == worker.gen = generation

SyncedOffset_Current == size                                        \* mutant
SyncedOffset == worker.off

SyncPublish ==
  /\ worker.pc \in {"synced", "failed"}
  /\ worker' = NoSync
  /\ healthy' = IF SameGeneration /\ worker.pc = "failed" THEN FALSE ELSE healthy
  /\ synced' = IF SameGeneration /\ worker.pc = "synced" /\ SyncedOffset > synced
                 THEN SyncedOffset ELSE synced
  /\ UNCHANGED <<fileVars, size, generation, torn, fd, ghostVars, rewrite,
                 orphan, up, boundVars>>

SyncWorker == SyncCapture \/ SyncSucceeds \/ SyncFails \/ SyncPublish

-----------------------------------------------------------------------------
(* The rewrite: start_background_rewrite() truncates appendonly.aof.tmp,   *)
(* notes the size of the file and forks; the child dumps the state of the  *)
(* fork; the next command copies the tail of the live file behind the dump *)
(* (append_tail) and renames it into place (commit_rewrite).               *)

StartRewrite ==
  /\ up
  /\ rewrite.pc = "none"
  /\ rewrites < MaxRewrites
  /\ rewrites' = rewrites + 1
  /\ rewrite' = [pc |-> "child", from |-> size, muts |-> ram]
  /\ orphan' = IF orphan = "garbled" THEN "tmp" ELSE orphan
  /\ UNCHANGED <<fileVars, syncVars, ghostVars, worker, up, ended, restarts>>

ChildExits ==
  /\ rewrite.pc = "child"
  /\ \/ rewrite' = [rewrite EXCEPT !.pc = "ok"]
     \/ "rewrite" \in Faults /\ rewrite' = [rewrite EXCEPT !.pc = "failed"]
  /\ UNCHANGED <<fileVars, syncVars, ghostVars, worker, orphan, up, boundVars>>

(* abort_locked() unlinks the temporary file, so an orphan that shared it  *)
(* writes into nothing                                                     *)
Unlinked == IF orphan = "live" THEN "live" ELSE "none"

(* the child failed, or the tail copy, fdatasync, close or rename did; the *)
(* last two also mark the AOF unhealthy                                    *)
AbortRewrite ==
  /\ up
  /\ rewrite.pc = "failed" \/ (rewrite.pc = "ok" /\ "rewrite" \in Faults)
  /\ rewrite' = NoRewrite
  /\ orphan' = Unlinked
  /\ \/ UNCHANGED healthy
     \/ rewrite.pc = "ok" /\ healthy' = FALSE
  /\ UNCHANGED <<fileVars, size, synced, generation, torn, fd, ghostVars,
                 worker, up, boundVars>>

(* append_tail: the records appended since the fork, without torn bytes    *)
TailSinceFork_WithTornBytes == SubSeq(file, rewrite.from + 1, Len(file))  \* mutant
TailSinceFork_OffByOne == SubSeq(file, rewrite.from + 2, size)            \* mutant
TailSinceFork == SubSeq(file, rewrite.from + 1, size)

Rewritten ==
  <<Header, Rec(rewrite.muts)>>
    \o (IF orphan = "garbled" THEN <<Garbage>> ELSE <<>>)
    \o TailSinceFork

CommitRewrite ==
  /\ up
  /\ rewrite.pc = "ok"
  /\ file' = Rewritten
  /\ inode' = inode + 1
  /\ disk' = Len(file')
  /\ \/ fd' = TRUE
     \/ "open" \in Faults /\ fd' = FALSE
  /\ generation' = generation + 1
  /\ healthy' = fd'
  /\ torn' = FALSE
  /\ size' = Len(file')
  /\ synced' = IF fd' THEN size' ELSE 0
  /\ rewrite' = NoRewrite
  /\ orphan' = IF orphan = "none" THEN "none" ELSE "live"
  /\ UNCHANGED <<ghostVars, worker, up, boundVars>>

(* the child of a killed server keeps its descriptor of appendonly.aof.tmp *)
(* and O_TRUNC reuses that inode for the next rewrite, then the rename     *)
(* makes it the live file                                                  *)
OrphanWrites ==
  /\ \/ /\ orphan = "tmp" /\ rewrite.pc # "none"
        /\ orphan' = "garbled"
        /\ UNCHANGED file
     \/ /\ orphan = "live" /\ ~ \E i \in 1..Len(file) : file[i] = Garbage
        /\ file' = Append(file, Garbage)
        /\ UNCHANGED orphan
  /\ UNCHANGED <<inode, disk, syncVars, ghostVars, worker, rewrite, up,
                 boundVars>>

OrphanExits ==
  /\ orphan \in {"tmp", "live"}
  /\ orphan' = "none"
  /\ UNCHANGED <<fileVars, syncVars, ghostVars, worker, rewrite, up, boundVars>>

-----------------------------------------------------------------------------
(* The end of a server run.                                                *)

Stop(way) ==
  /\ up
  /\ way \in Crashes
  /\ restarts < MaxRestarts
  /\ restarts' = restarts + 1
  /\ ended' = ended \cup {way}
  /\ up' = FALSE
  /\ fd' = FALSE
  /\ ram' = {}
  /\ worker' = NoSync
  /\ rewrite' = NoRewrite
  /\ UNCHANGED <<size, synced, generation, healthy, torn, confirmed, rewrites>>

(* ~AOFManager: joins the sync thread, then syncs what is still pending    *)
Shutdown ==
  /\ worker.pc = "wait"
  /\ Stop("shutdown")
  /\ \/ disk' = IF fd /\ SyncPolicy # "no" /\ size > synced
                  THEN Len(file) ELSE disk
     \/ "sync" \in Faults /\ disk' = disk
  /\ orphan' = Unlinked
  /\ UNCHANGED <<file, inode, next>>

(* the process dies, perhaps inside a write; the page cache survives       *)
ProcessCrash ==
  /\ Stop("process")
  /\ \/ UNCHANGED <<file, next>>
     \/ /\ ~torn /\ next <= MaxMut
        /\ next' = next + 1
        /\ file' \in {Append(file, Partial), Append(file, Rec({next}))}
  /\ orphan' = IF "orphan" \in Faults /\ rewrite.pc = "child"
                 THEN "tmp" ELSE orphan
  /\ UNCHANGED <<inode, disk>>

(* the machine dies: some prefix survives, at least the synced one, and    *)
(* the cut may fall inside a record                                        *)
PowerLoss ==
  /\ Stop("power")
  /\ \E n \in disk..Len(file) :
       file' \in {SubSeq(file, 1, n)}
                   \cup (IF n < Len(file) THEN {Append(SubSeq(file, 1, n), Partial)}
                                          ELSE {})
  /\ disk' = Len(file')
  /\ orphan' = "none"
  /\ UNCHANGED <<inode, next>>

-----------------------------------------------------------------------------
(* The start of a server run: the Database constructor calls recover(),    *)
(* rewrite_aof() if the replayed file was not a whole v3 file, and         *)
(* open_file().                                                            *)

Opened(n) ==
  /\ fd' = TRUE
  /\ size' = n
  /\ synced' = n
  /\ healthy' = TRUE

NotOpened(n) ==
  /\ fd' = FALSE
  /\ size' = n
  /\ synced' = 0
  /\ healthy' = FALSE

Start ==
  /\ ~up
  /\ up' = TRUE
  /\ torn' = FALSE
  /\ generation' = 1
  /\ ram' = Replayed(file)
  /\ UNCHANGED <<next, confirmed, worker, rewrite, boundVars>>

(* no file, or nothing but a piece of its header                           *)
StartFresh ==
  /\ Start
  /\ file \in {<<>>, <<Partial>>}
  /\ \/ file' = <<Header>> /\ disk' = 1 /\ Opened(1)
     \/ "header" \in Faults /\ file' = <<>> /\ disk' = 0 /\ NotOpened(0)
     \/ "sync" \in Faults /\ file' = <<Header>> /\ disk' = 0 /\ NotOpened(1)
  /\ UNCHANGED <<inode, orphan>>

WholeV3(f) == HasHeader(f) /\ Readable(f) = 1..Len(f)

(* open_file() takes the length of an existing file for its durable prefix *)
StartClean ==
  /\ Start
  /\ WholeV3(file)
  /\ \/ Opened(Len(file))
     \/ "startup_open" \in Faults /\ NotOpened(0)
  /\ UNCHANGED <<fileVars, orphan>>

TornTail(f) ==
  /\ HasHeader(f)
  /\ f[Len(f)] = Partial
  /\ Readable(f) = 1..(Len(f) - 1)

(* truncate_tail(); its failure is only logged                             *)
StartTorn ==
  /\ Start
  /\ TornTail(file)
  /\ \/ /\ file' = SubSeq(file, 1, Len(file) - 1)
        /\ disk' = Len(file')
        /\ Opened(Len(file'))
     \/ /\ "recover_cut" \in Faults
        /\ UNCHANGED <<file, disk>>
        /\ Opened(Len(file))
  /\ UNCHANGED <<inode, orphan>>

(* no header, or a damaged record before the end: what could be replayed   *)
(* is written to a new file                                                *)
StartDamaged ==
  /\ Start
  /\ file \notin {<<>>, <<Partial>>}
  /\ ~WholeV3(file) /\ ~TornTail(file)
  /\ file' = <<Header, Rec(Replayed(file))>>
  /\ inode' = inode + 1
  /\ disk' = 2
  /\ Opened(2)
  /\ orphan' = IF orphan = "none" THEN "none" ELSE "live"

Startup == StartFresh \/ StartClean \/ StartTorn \/ StartDamaged

-----------------------------------------------------------------------------
Init ==
  /\ file = <<>> /\ inode = 1 /\ disk = 0
  /\ up = FALSE /\ fd = FALSE
  /\ size = 0 /\ synced = 0 /\ generation = 0
  /\ healthy = TRUE /\ torn = FALSE
  /\ ram = {} /\ next = 1 /\ confirmed = {}
  /\ worker = NoSync /\ rewrite = NoRewrite /\ orphan = "none"
  /\ ended = {} /\ restarts = 0 /\ rewrites = 0

Next ==
  \/ Startup
  \/ AppendRecord
  \/ SyncWorker
  \/ StartRewrite \/ ChildExits \/ AbortRewrite \/ CommitRewrite
  \/ OrphanWrites \/ OrphanExits
  \/ Shutdown \/ ProcessCrash \/ PowerLoss

Spec == Init /\ [][Next]_vars

(* the sync thread is always scheduled again and fdatasync returns; the    *)
(* supervisor restarts the server                                          *)
Fairness ==
  /\ WF_vars(Startup)
  /\ WF_vars(SyncCapture)
  /\ WF_vars(SyncSucceeds \/ SyncFails)
  /\ WF_vars(SyncPublish)

FairSpec == Spec /\ Fairness

-----------------------------------------------------------------------------
(* Properties.                                                             *)

FlagsOK ==
  up \in BOOLEAN /\ fd \in BOOLEAN /\ healthy \in BOOLEAN /\ torn \in BOOLEAN

StateOK ==
  /\ file \in Seq(Unit)
  /\ inode \in Nat /\ disk \in Nat
  /\ size \in Nat /\ synced \in Nat /\ generation \in Nat
  /\ ram \in SUBSET Nat /\ next \in Nat /\ confirmed \in SUBSET Nat
  /\ worker \in [pc : {"wait", "sync", "synced", "failed"}, gen : Nat, off : Nat,
                  ino : Nat]
  /\ rewrite \in [pc : {"none", "child", "ok", "failed"}, from : Nat,
                   muts : SUBSET Nat]
  /\ orphan \in {"none", "tmp", "garbled", "live"}
  /\ ended \subseteq Crashes /\ restarts \in Nat /\ rewrites \in Nat

TypeOK == FlagsOK /\ StateOK

(* Every earlier run ended with the machine, so nothing a run found in the *)
(* file was still only in the page cache.                                  *)
PageCacheWasLost == ended \subseteq {"power"}

(* synced_ is "the durable prefix of the current generation": no offset it *)
(* claims is still only in the page cache, although a sync may finish      *)
(* after the file it synced was closed, reopened or replaced.  open_file() *)
(* takes the length it finds for durable, so this is promised as long as   *)
(* earlier runs left nothing in the page cache.                            *)
SyncedIsDurable == PageCacheWasLost /\ up => synced <= disk

(* synced_ never passes size_, whatever fails: a sync that was in flight   *)
(* when a rewrite shortened the file must not publish its old offset (the  *)
(* pending bytes would be lost to the sync thread until size_ caught up).  *)
SyncedWithinSize == up => synced <= size

(* size_ counts exactly the whole records of the file, so the offset noted *)
(* at a fork and the tail copied from it fall on record boundaries, also   *)
(* after failed and cut writes.                                            *)
SizeIsWholeRecords ==
  up => /\ size = Cardinality({i \in 1..Len(file) : ~Unreadable(file[i])})
        /\ \A i \in 1..size : ~Unreadable(file[i])

(* A record that could not be cut off is the last thing in the file and    *)
(* append() is closed: nothing confirmed can land behind it, where a       *)
(* replay would drop it.                                                   *)
TornIsLast ==
  up => \A i \in 1..Len(file) : Unreadable(file[i]) => i = Len(file) /\ torn

(* As long as the machine stays up no mutation whose append() returned     *)
(* true is lost, through any number of crashes of the process, rewrites    *)
(* and restarts.                                                           *)
ConfirmedIsReplayed == "power" \notin ended => confirmed \subseteq Replayed(file)

(* Under the policy always no confirmed mutation lives in the page cache   *)
(* alone: what the file would restore of them after a crash of the process *)
(* it also restores after a power loss.                                    *)
AlwaysIsDurable ==
  SyncPolicy = "always" =>
    confirmed \cap Replayed(file) \subseteq ReplayedUpTo(file, disk)

(* No step, a power loss included, takes back a mutation of the prefix     *)
(* that synced_ reported durable (while SyncedIsDurable promises it).      *)
SyncedPrefixSurvives ==
  [][PageCacheWasLost /\ up => ReplayedUpTo(file, synced) \subseteq Replayed(file')]_vars

(* A rewrite replaces the file by one that restores at least as much.      *)
RewriteLosesNothing ==
  [][inode' # inode => Replayed(file) \subseteq Replayed(file')]_vars

(* Under everysec a mutation in the file becomes durable, unless the AOF   *)
(* reports itself unhealthy, a power loss takes it, or it was left in the  *)
(* page cache by an earlier run.                                           *)
EventuallyDurable ==
  \A m \in 1..MaxMut :
    (m \in Replayed(file)) ~> \/ m \in ReplayedUpTo(file, disk)
                              \/ m \notin Replayed(file)
                              \/ ~healthy
                              \/ ~PageCacheWasLost
=============================================================================
