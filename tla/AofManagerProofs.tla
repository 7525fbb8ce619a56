-------------------------- MODULE AofManagerProofs --------------------------
(***************************************************************************)
(* What TLAPS proves about AofManager, for every number of mutations,      *)
(* restarts and rewrites.                                                  *)
(***************************************************************************)
EXTENDS AofManager, SequenceTheorems, FiniteSetTheorems, TLAPS

(* Every unit the code writes is a unit.                                   *)
LEMMA UnitTypes ==
  /\ Header \in Unit /\ Partial \in Unit /\ Garbage \in Unit
  /\ \A S \in SUBSET Nat : Rec(S) \in Unit
  BY DEF Header, Partial, Garbage, Rec, Unit

(* A replay restores mutations, whatever the file holds.                   *)
LEMMA ReplayedType ==
  ASSUME NEW f \in Seq(Unit)
  PROVE  Replayed(f) \in SUBSET Nat
  <1>1. \A i \in Readable(f) : f[i] \in Unit
    BY DEF Readable
  <1>2. \A i \in Readable(f) : f[i].muts \in SUBSET Nat
    BY <1>1 DEF Unit
  <1>. QED
    BY <1>2 DEF Replayed, MutsOf

(* A prefix and a concatenation of files are files, of the expected length. *)
LEMMA SubSeqType ==
  ASSUME NEW f \in Seq(Unit), NEW m \in Nat, NEW n \in 0..Len(f), m >= 1
  PROVE  SubSeq(f, m, n) \in Seq(Unit)
  OBVIOUS

-----------------------------------------------------------------------------
(* Types, and synced_ <= size_ under every fault.  A publish uses an       *)
(* offset captured before the mutex was released, so the invariant says    *)
(* what is still known of it: while the generation is the captured one,    *)
(* size_ has not shrunk below it.                                          *)

SInv ==
  /\ StateOK
  /\ up => size <= Len(file) /\ synced <= size
  /\ worker.pc # "wait" =>
       /\ up
       /\ worker.gen <= generation
       /\ worker.gen = generation => worker.off <= size

(* The file a rewrite renames into place is a file.                        *)
LEMMA RewrittenType ==
  ASSUME StateOK, size <= Len(file)
  PROVE  Rewritten \in Seq(Unit)
  <1>. DEFINE t == SubSeq(file, rewrite.from + 1, size)
              g == IF orphan = "garbled" THEN <<Garbage>> ELSE <<>>
              h == <<Header, Rec(rewrite.muts)>>
  <1>1. t \in Seq(Unit)
    BY SubSeqType DEF StateOK
  <1>2. g \in Seq(Unit)
    BY UnitTypes
  <1>3. h \in Seq(Unit)
    BY UnitTypes DEF StateOK
  <1>. HIDE DEF t, g, h
  <1>4. (h \o g) \o t \in Seq(Unit)
    BY <1>1, <1>2, <1>3
  <1>. QED
    BY <1>4 DEF Rewritten, TailSinceFork, t, g, h

(* The invariant holds in the initial state.                               *)
LEMMA SInvInit == Init => SInv
  BY DEF Init, SInv, StateOK, NoSync, NoRewrite

(* Every step keeps the flags Boolean.                                     *)
LEMMA FlagsStep == FlagsOK /\ [Next]_vars => FlagsOK'
  BY Zenon DEF FlagsOK, Next, vars, AppendRecord, AppendRefused, AppendCannotOpen,
       AppendBuffered, AppendSynced, AppendSyncFails, AppendWritten, AppendFails,
       Mutate, TornAfterFailedCut, SyncWorker, SyncCapture, SyncSucceeds,
       SyncFails, SyncPublish, StartRewrite, ChildExits, AbortRewrite,
       CommitRewrite, OrphanWrites, OrphanExits, Shutdown, ProcessCrash,
       PowerLoss, Stop, Startup, StartFresh, StartClean, StartTorn,
       StartDamaged, Start, Opened, NotOpened, syncVars

(* Every step keeps the invariant: a published offset passes size_ only if *)
(* the generation check lets it.                                           *)
LEMMA SInvStep == SInv /\ [Next]_vars => SInv'
  <1>. SUFFICES ASSUME SInv, [Next]_vars PROVE SInv'
    OBVIOUS
  <1>. USE DEF SInv
  <1>1. CASE AppendRefused
    BY <1>1 DEF AppendRefused, Mutate, StateOK, fileVars, syncVars, boundVars
  <1>2. CASE AppendCannotOpen
    BY <1>2 DEF AppendCannotOpen, Mutate, StateOK, fileVars, boundVars
  <1>3. ASSUME AppendWritten
        PROVE  /\ file' \in Seq(Unit) /\ Len(file') = Len(file) + 1
               /\ ram' \in SUBSET Nat /\ next' \in Nat /\ next \in Nat
    <2>1. next \in Nat /\ Rec({next}) \in Unit
      BY UnitTypes DEF StateOK
    <2>. QED
      BY <1>3, <2>1 DEF AppendWritten, Mutate, StateOK
  <1>4. CASE AppendBuffered
    BY <1>3, <1>4 DEF AppendBuffered, AppendWritten, Mutate, StateOK,
         ReopenedGeneration, ReopenedSynced, boundVars
  <1>5. CASE AppendSynced
    BY <1>3, <1>5 DEF AppendSynced, AppendWritten, Mutate, StateOK,
         ReopenedGeneration, boundVars
  <1>6. CASE AppendSyncFails
    BY <1>3, <1>6 DEF AppendSyncFails, AppendWritten, Mutate, StateOK,
         ReopenedGeneration, ReopenedSynced, ConfirmedAfterFailedSync, boundVars
  <1>7. CASE AppendFails
    <2>1. file' \in Seq(Unit) /\ Len(file') >= Len(file)
      BY <1>7, UnitTypes DEF AppendFails, StateOK
    <2>2. /\ generation' \in Nat /\ generation' > generation
          /\ synced' \in Nat /\ synced' <= synced
      BY <1>7 DEF AppendFails, StateOK, ReopenedGeneration, ReopenedSynced
    <2>3. /\ UNCHANGED <<inode, disk, size, confirmed, worker, rewrite, orphan, up,
                         ended, restarts, rewrites>>
          /\ up /\ next' = next + 1 /\ ram' = ram \cup {next}
      BY <1>7 DEF AppendFails, Mutate, boundVars
    <2>4. StateOK'
      BY <2>1, <2>2, <2>3 DEF StateOK
    <2>. QED
      BY <2>1, <2>2, <2>3, <2>4 DEF StateOK
  <1>8. CASE SyncCapture
    BY <1>8 DEF SyncCapture, SyncIsDue, StateOK, fileVars, syncVars, ghostVars,
         boundVars
  <1>9. CASE SyncSucceeds \/ SyncFails
    <2>1. PICK pc \in {"synced", "failed"} : worker' = [worker EXCEPT !.pc = pc]
      BY <1>9 DEF SyncSucceeds, SyncFails
    <2>2. worker' = [pc |-> pc, gen |-> worker.gen, off |-> worker.off,
                     ino |-> worker.ino]
      BY <2>1 DEF StateOK
    <2>3. /\ UNCHANGED <<file, inode, size, synced, generation, ram, next, confirmed,
                         rewrite, orphan, up, ended, restarts, rewrites>>
          /\ worker.pc = "sync"
          /\ disk' = disk \/ disk' = Len(file)
      BY <1>9, Zenon DEF SyncSucceeds, SyncFails, fileVars, syncVars, ghostVars, boundVars
    <2>4. disk' \in Nat
      BY <2>3 DEF StateOK
    <2>5. StateOK'
      BY <2>2, <2>3, <2>4 DEF StateOK
    <2>. QED
      BY <2>2, <2>3, <2>5
  <1>10. CASE SyncPublish
    BY <1>10 DEF SyncPublish, SameGeneration, SyncedOffset, NoSync, StateOK,
         fileVars, ghostVars, boundVars
  <1>11. CASE StartRewrite
    BY <1>11 DEF StartRewrite, StateOK, fileVars, syncVars, ghostVars
  <1>21. CASE ChildExits
    <2>1. rewrite' \in [pc : {"none", "child", "ok", "failed"}, from : Nat,
                        muts : SUBSET Nat]
      BY <1>21 DEF ChildExits, StateOK
    <2>. QED
      BY <1>21, <2>1 DEF ChildExits, StateOK, fileVars, syncVars, ghostVars,
           boundVars
  <1>12. CASE AbortRewrite
    BY <1>12 DEF AbortRewrite, Unlinked, NoRewrite, StateOK, fileVars,
         ghostVars, boundVars
  <1>13. CASE CommitRewrite
    <2>1. file' \in Seq(Unit)
      BY <1>13, RewrittenType DEF CommitRewrite
    <2>. QED
      BY <1>13, <2>1 DEF CommitRewrite, NoRewrite, StateOK, ghostVars, boundVars
  <1>14. CASE OrphanWrites
    <2>1. file' = file \/ file' = Append(file, Garbage)
      BY <1>14 DEF OrphanWrites
    <2>2. file' \in Seq(Unit) /\ Len(file') >= Len(file)
      BY <2>1, UnitTypes DEF StateOK
    <2>. QED
      BY <1>14, <2>2 DEF OrphanWrites, StateOK, syncVars, ghostVars, boundVars
  <1>15. CASE OrphanExits
    BY <1>15 DEF OrphanExits, StateOK, fileVars, syncVars, ghostVars, boundVars
  <1>16. CASE Shutdown
    BY <1>16 DEF Shutdown, Stop, Unlinked, NoSync, NoRewrite, StateOK
  <1>17. CASE ProcessCrash
    <2>1. /\ \/ file' = file
             \/ file' = Append(file, Partial)
             \/ file' = Append(file, Rec({next}))
          /\ next' \in Nat
      BY <1>17 DEF ProcessCrash, StateOK
    <2>2. file' \in Seq(Unit)
      <3>1. Rec({next}) \in Unit /\ Partial \in Unit
        BY UnitTypes DEF StateOK
      <3>2. \A u \in Unit : Append(file, u) \in Seq(Unit)
        BY DEF StateOK
      <3>. QED
        BY <2>1, <3>1, <3>2, Zenon DEF StateOK
    <2>. QED
      BY <1>17, <2>1, <2>2 DEF ProcessCrash, Stop, NoSync, NoRewrite, StateOK
  <1>18. CASE PowerLoss
    <2>1. file' \in Seq(Unit)
      <3>1. PICK n \in disk..Len(file) :
              \/ file' = SubSeq(file, 1, n)
              \/ file' = Append(SubSeq(file, 1, n), Partial)
        BY <1>18 DEF PowerLoss
      <3>2. SubSeq(file, 1, n) \in Seq(Unit)
        BY SubSeqType DEF StateOK
      <3>. QED
        BY <3>1, <3>2, UnitTypes
    <2>2. /\ ~up' /\ worker' = NoSync /\ rewrite' = NoRewrite
          /\ ram' = {} /\ ended' = ended \cup {"power"} /\ "power" \in Crashes
          /\ restarts' = restarts + 1 /\ disk' = Len(file') /\ orphan' = "none"
          /\ UNCHANGED <<inode, next, size, synced, generation, confirmed, rewrites>>
      BY <1>18 DEF PowerLoss, Stop
    <2>3. StateOK'
      BY <2>1, <2>2 DEF StateOK, NoSync, NoRewrite
    <2>. QED
      BY <2>2, <2>3 DEF NoSync
  <1>19. CASE Startup
    <2>1. Replayed(file) \in SUBSET Nat
      BY ReplayedType DEF StateOK
    <2>2. file' \in Seq(Unit) /\ Len(file') \in Nat
      <3>1. CASE StartFresh
        <4>1. file' = <<Header>> \/ file' = <<>>
          BY <3>1 DEF StartFresh
        <4>2. <<>> \in Seq(Unit) /\ Len(<<>>) \in Nat
          OBVIOUS
        <4>3. <<Header>> \in Seq(Unit) /\ Len(<<Header>>) \in Nat
          BY UnitTypes
        <4>. QED
          BY <4>1, <4>2, <4>3, Zenon
      <3>2. CASE StartClean
        BY <3>2 DEF StartClean, fileVars, StateOK
      <3>3. CASE StartTorn
        <4>1. file' \in {file, SubSeq(file, 1, Len(file) - 1)} /\ file # <<>>
          BY <3>3 DEF StartTorn, TornTail, HasHeader
        <4>2. file \in Seq(Unit) /\ Len(file) - 1 \in 0..Len(file)
          BY <4>1 DEF StateOK
        <4>3. SubSeq(file, 1, Len(file) - 1) \in Seq(Unit)
          BY <4>2, SubSeqType
        <4>. QED
          BY <4>1, <4>2, <4>3
      <3>4. CASE StartDamaged
        BY <3>4, <2>1, UnitTypes DEF StartDamaged
      <3>. QED
        BY <1>19, <3>1, <3>2, <3>3, <3>4 DEF Startup
    <2>3. /\ inode' \in Nat /\ disk' \in Nat /\ orphan' \in {"none", "tmp", "garbled", "live"}
          /\ size' \in Nat /\ synced' \in Nat
          /\ size' <= Len(file') /\ synced' <= size'
      <3>1. CASE StartFresh
        <4>1. Len(<<Header>>) = 1 /\ Len(<<>>) = 0
          OBVIOUS
        <4>2. inode' = inode /\ orphan' = orphan
          BY <3>1 DEF StartFresh
        <4>3. \/ file' = <<Header>> /\ disk' = 1 /\ Opened(1)
              \/ file' = <<>> /\ disk' = 0 /\ NotOpened(0)
              \/ file' = <<Header>> /\ disk' = 0 /\ NotOpened(1)
          BY <3>1, Zenon DEF StartFresh
        <4>4. CASE file' = <<Header>> /\ disk' = 1 /\ Opened(1)
          BY <4>1, <4>2, <4>4 DEF Opened, StateOK
        <4>5. CASE file' = <<>> /\ disk' = 0 /\ NotOpened(0)
          BY <4>1, <4>2, <4>5 DEF NotOpened, StateOK
        <4>6. CASE file' = <<Header>> /\ disk' = 0 /\ NotOpened(1)
          BY <4>1, <4>2, <4>6 DEF NotOpened, StateOK
        <4>. QED
          BY <4>3, <4>4, <4>5, <4>6
      <3>2. CASE StartClean
        BY <3>2, <2>2 DEF StartClean, Opened, NotOpened, StateOK, fileVars
      <3>3. CASE StartTorn
        BY <3>3, <2>2 DEF StartTorn, Opened, StateOK
      <3>4. CASE StartDamaged
        <4>1. Len(file') = 2
          BY <3>4 DEF StartDamaged
        <4>. QED
          BY <3>4, <4>1 DEF StartDamaged, Opened, StateOK
      <3>. QED
        BY <1>19, <3>1, <3>2, <3>3, <3>4 DEF Startup
    <2>4. Start
      BY <1>19 DEF Startup, StartFresh, StartClean, StartTorn, StartDamaged
    <2>. QED
      BY <2>1, <2>2, <2>3, <2>4 DEF Start, StateOK, boundVars
  <1>20. CASE UNCHANGED vars
    BY <1>20 DEF vars, StateOK
  <1>. QED
    BY <1>1, <1>2, <1>4, <1>5, <1>6, <1>7, <1>8, <1>9, <1>10, <1>11, <1>12,
       <1>13, <1>14, <1>15, <1>16, <1>17, <1>18, <1>19, <1>20,
       <1>21
       DEF Next, AppendRecord, SyncWorker

(* Every reachable state is well typed.                                    *)
THEOREM TypeCorrect == Spec => []TypeOK
  <1>1. Init => FlagsOK
    BY Zenon DEF Init, FlagsOK
  <1>2. SInv /\ FlagsOK => TypeOK
    BY DEF SInv, TypeOK
  <1>. QED
    BY SInvInit, SInvStep, FlagsStep, <1>1, <1>2, PTL DEF Spec

(* sync_worker() never publishes an offset beyond size_, under every fault *)
(* and crash the model knows.                                              *)
THEOREM SyncedWithinSizeHolds == Spec => []SyncedWithinSize
  <1>1. SInv => SyncedWithinSize
    BY SMTT(20) DEF SInv, SyncedWithinSize
  <1>. QED
    BY SInvInit, SInvStep, <1>1, PTL DEF Spec

-----------------------------------------------------------------------------
(* synced_ is durable, as long as every earlier run ended in a power loss: *)
(* what is left of the file is then on stable storage when open_file()     *)
(* takes its length for synced_.  While the captured generation is the     *)
(* current one the sync thread holds the live file, so what it synced is   *)
(* the prefix it publishes.                                                *)

DInv ==
  /\ disk <= Len(file)
  /\ up => synced <= disk
  /\ ~up => disk = Len(file)
  /\ orphan = "none"
  /\ worker.pc # "wait" /\ worker.gen = generation => worker.ino = inode
  /\ worker.pc = "synced" /\ worker.gen = generation => worker.off <= disk

(* Every step keeps the published prefix on stable storage.                *)
LEMMA DInvStep ==
  ASSUME PageCacheWasLost', SInv, SInv', DInv, [Next]_vars
  PROVE  DInv'
  <1>. USE DEF DInv, SInv
  <1>1. CASE AppendRefused \/ AppendCannotOpen
    BY <1>1, Zenon DEF AppendRefused, AppendCannotOpen, Mutate, StateOK, fileVars, syncVars
  <1>2. ASSUME AppendWritten PROVE Len(file') = Len(file) + 1
    BY <1>2 DEF AppendWritten, StateOK
  <1>3. CASE AppendBuffered
    BY <1>2, <1>3 DEF AppendBuffered, AppendWritten, Mutate, StateOK,
         ReopenedGeneration, ReopenedSynced
  <1>4. CASE AppendSynced
    BY <1>2, <1>4 DEF AppendSynced, AppendWritten, Mutate, StateOK,
         ReopenedGeneration
  <1>5. CASE AppendSyncFails
    BY <1>2, <1>5 DEF AppendSyncFails, AppendWritten, Mutate, StateOK,
         ReopenedGeneration, ReopenedSynced
  <1>6. CASE AppendFails
    <2>1. Len(file') >= Len(file)
      BY <1>6 DEF AppendFails, StateOK
    <2>. QED
      BY <1>6, <2>1 DEF AppendFails, Mutate, StateOK, ReopenedGeneration,
           ReopenedSynced
  <1>7. CASE SyncCapture
    BY <1>7 DEF SyncCapture, StateOK, fileVars, syncVars
  <1>8. CASE SyncSucceeds
    <2>1. worker' = [worker EXCEPT !.pc = "synced"]
      BY <1>8 DEF SyncSucceeds
    <2>2. worker'.gen = worker.gen /\ worker'.off = worker.off /\ worker'.ino = worker.ino
      BY <2>1 DEF StateOK
    <2>3. /\ file' = file /\ inode' = inode /\ up' = up /\ orphan' = orphan
          /\ synced' = synced /\ generation' = generation /\ up
          /\ disk' = IF worker.ino = inode THEN Len(file) ELSE disk
      BY <1>8 DEF SyncSucceeds, syncVars
    <2>4. disk <= disk' /\ disk' <= Len(file)
      BY <2>3 DEF StateOK
    <2>5. worker.gen = generation => worker.off <= disk' /\ worker.ino = inode
      BY <1>8, <2>3, SMTT(20) DEF SyncSucceeds, StateOK
    <2>6. synced' <= disk'
      BY <2>3, <2>4 DEF StateOK
    <2>. QED
      BY <2>2, <2>3, <2>4, <2>5, <2>6
  <1>9. CASE SyncFails
    <2>1. worker' = [worker EXCEPT !.pc = "failed"] /\ worker.pc = "sync"
      BY <1>9 DEF SyncFails
    <2>2. worker'.pc = "failed" /\ worker'.gen = worker.gen /\ worker'.ino = worker.ino
      BY <2>1 DEF StateOK
    <2>3. UNCHANGED <<file, inode, disk, up, orphan, synced, generation>>
      BY <1>9 DEF SyncFails, fileVars, syncVars
    <2>. QED
      BY <2>1, <2>2, <2>3
  <1>10. CASE SyncPublish
    <2>1. /\ UNCHANGED <<file, inode, disk, up, orphan, generation>>
          /\ worker' = NoSync
          /\ \/ synced' = synced
             \/ /\ worker.gen = generation /\ worker.pc = "synced"
                /\ synced' = worker.off
      BY <1>10 DEF SyncPublish, SameGeneration, SyncedOffset, fileVars
    <2>2. synced' <= disk \/ synced' = synced
      BY <2>1
    <2>. QED
      BY <2>1, <2>2 DEF NoSync
  <1>11. CASE StartRewrite \/ ChildExits \/ OrphanExits
    BY <1>11, Zenon DEF StartRewrite, ChildExits, OrphanExits, StateOK, fileVars, syncVars
  <1>12. CASE AbortRewrite
    BY <1>12 DEF AbortRewrite, Unlinked, StateOK, fileVars
  <1>13. CASE CommitRewrite
    BY <1>13 DEF CommitRewrite, StateOK
  <1>14. CASE OrphanWrites
    BY <1>14 DEF OrphanWrites
  <1>15. CASE Shutdown \/ ProcessCrash
    BY <1>15 DEF Shutdown, ProcessCrash, Stop, PageCacheWasLost
  <1>16. CASE PowerLoss
    BY <1>16 DEF PowerLoss, Stop, NoSync, StateOK
  <1>17. CASE Startup
    <2>0. Start /\ orphan' = "none"
      <3>1. CASE StartFresh
        BY <3>1 DEF StartFresh
      <3>2. CASE StartClean \/ StartTorn \/ StartDamaged
        BY <3>2 DEF StartClean, StartTorn, StartDamaged
      <3>. QED
        BY <1>17, <3>1, <3>2 DEF Startup
    <2>1. worker'.pc = "wait" /\ up'
      BY <2>0 DEF Start
    <2>2. disk' <= Len(file') /\ synced' <= disk'
      <3>1. CASE StartFresh
        BY <3>1, SInv' DEF StartFresh, Opened, NotOpened, Start, StateOK
      <3>2. CASE StartClean
        BY <3>2 DEF StartClean, Opened, NotOpened, Start, StateOK, fileVars
      <3>3. CASE StartTorn
        BY <3>3 DEF StartTorn, Opened, Start, StateOK
      <3>4. CASE StartDamaged
        BY <3>4 DEF StartDamaged, Opened, Start, StateOK
      <3>. QED
        BY <1>17, <3>1, <3>2, <3>3, <3>4 DEF Startup
    <2>. QED
      BY <2>0, <2>1, <2>2 DEF StateOK
  <1>18. CASE UNCHANGED vars
    BY <1>18 DEF vars
  <1>. QED
    BY <1>1, <1>3, <1>4, <1>5, <1>6, <1>7, <1>8, <1>9, <1>10, <1>11, <1>12,
       Zenon,
       <1>13, <1>14, <1>15, <1>16, <1>17, <1>18
       DEF Next, AppendRecord, SyncWorker

(* The ways in which runs have ended are never forgotten.                  *)
LEMMA EndedGrows ==
  ASSUME [Next]_vars
  PROVE  ended \subseteq ended'
  <1>1. CASE AppendRecord
    BY <1>1, Zenon DEF AppendRecord, AppendRefused, AppendCannotOpen, AppendBuffered,
         AppendSynced, AppendSyncFails, AppendFails, AppendWritten, boundVars
  <1>2. CASE SyncWorker
    BY <1>2, Zenon DEF SyncWorker, SyncCapture, SyncSucceeds, SyncFails, SyncPublish,
         boundVars
  <1>3. CASE StartRewrite \/ ChildExits \/ AbortRewrite \/ CommitRewrite
    BY <1>3, Zenon DEF StartRewrite, ChildExits, AbortRewrite, CommitRewrite, boundVars
  <1>4. CASE OrphanWrites \/ OrphanExits
    BY <1>4, Zenon DEF OrphanWrites, OrphanExits, boundVars
  <1>5. CASE Shutdown \/ ProcessCrash \/ PowerLoss
    BY <1>5, Zenon DEF Shutdown, ProcessCrash, PowerLoss, Stop
  <1>6. CASE Startup
    BY <1>6, Zenon DEF Startup, StartFresh, StartClean, StartTorn, StartDamaged, Start,
         boundVars
  <1>7. CASE UNCHANGED vars
    BY <1>7 DEF vars
  <1>. QED
    BY <1>1, <1>2, <1>3, <1>4, <1>5, <1>6, <1>7 DEF Next

(* As long as no run has left an unsynced page cache to the next, synced_  *)
(* is what h:107 says it is: "the durable prefix of the current            *)
(* generation".                                                            *)
THEOREM SyncedIsDurableHolds == Spec => []SyncedIsDurable
  <1>. DEFINE Inv == PageCacheWasLost => DInv
  <1>1. Init => Inv
    BY DEF Init, DInv, NoSync
  <1>2. SInv /\ SInv' /\ Inv /\ [Next]_vars => Inv'
    BY DInvStep, EndedGrows, Zenon DEF PageCacheWasLost
  <1>3. Inv => SyncedIsDurable
    BY DEF DInv, SyncedIsDurable
  <1>. HIDE DEF Inv
  <1>. QED
    BY SInvInit, SInvStep, <1>1, <1>2, <1>3, PTL DEF Spec

-----------------------------------------------------------------------------
(* No confirmed mutation is lost by a process crash, a restart, a failed   *)
(* write or a rewrite.                                                     *)

(* f consists of the header, whole records up to n and at most one torn    *)
(* record behind them                                                      *)
Whole(f, n) ==
  /\ HasHeader(f)
  /\ n \in 1..Len(f)
  /\ \A i \in 1..n : ~Unreadable(f[i])
  /\ n = Len(f) \/ (n = Len(f) - 1 /\ f[Len(f)] = Partial)

(* A replay of such a file restores exactly its whole records.             *)
LEMMA ReplayedWhole ==
  ASSUME NEW f \in Seq(Unit), NEW n \in Nat, Whole(f, n)
  PROVE  /\ Replayed(f) = MutsOf(f, 1..n)
         /\ Readable(f) = 1..n
  <1>1. Readable(f) = 1..n
    <2>1. Unreadable(Partial)
      BY DEF Unreadable, Partial
    <2>2. \A i \in 1..Len(f) : i > n => Unreadable(f[i])
      BY <2>1 DEF Whole
    <2>3. ASSUME NEW i \in 1..n PROVE i \in Readable(f)
      BY DEF Whole, Readable
    <2>4. ASSUME NEW i \in Readable(f) PROVE i \in 1..n
      BY <2>2 DEF Readable
    <2>. QED
      BY <2>3, <2>4, Zenon
  <1>. QED
    BY <1>1 DEF Replayed, Whole

(* Appending a record adds its mutations.                                  *)
LEMMA WholeAppendRec ==
  ASSUME NEW f \in Seq(Unit), Whole(f, Len(f)), NEW S \in SUBSET Nat
  PROVE  /\ Whole(Append(f, Rec(S)), Len(f) + 1)
         /\ Replayed(Append(f, Rec(S))) = Replayed(f) \cup S
  <1>. DEFINE g == Append(f, Rec(S))
              n == Len(f)
  <1>1. /\ g \in Seq(Unit) /\ Len(g) = n + 1 /\ n \in Nat /\ n >= 1
        /\ \A i \in 1..n : g[i] = f[i]
        /\ g[n + 1] = Rec(S)
    BY UnitTypes DEF Whole
  <1>. HIDE DEF g
  <1>2. Whole(g, n + 1)
    <2>1. HasHeader(g)
      BY <1>1 DEF Whole, HasHeader
    <2>2. \A i \in 1..(n + 1) : ~Unreadable(g[i])
      BY <1>1 DEF Whole, Unreadable, Rec
    <2>. QED
      BY <1>1, <2>1, <2>2 DEF Whole
  <1>3. Replayed(g) = MutsOf(g, 1..(n + 1)) /\ Replayed(f) = MutsOf(f, 1..n)
    BY <1>1, <1>2, ReplayedWhole
  <1>4. MutsOf(g, 1..(n + 1)) = MutsOf(f, 1..n) \cup S
    <2>1. (Rec(S)).muts = S
      BY DEF Rec
    <2>2. 1..(n + 1) = (1..n) \cup {n + 1}
      BY <1>1
    <2>3. \A i \in 1..n : g[i].muts = f[i].muts
      BY <1>1
    <2>4. g[n + 1].muts = S
      BY <1>1, <2>1
    <2>. QED
      BY <2>2, <2>3, <2>4 DEF MutsOf
  <1>. QED
    BY <1>2, <1>3, <1>4 DEF g

(* A torn record adds nothing and hides nothing.                           *)
LEMMA WholeAppendPartial ==
  ASSUME NEW f \in Seq(Unit), Whole(f, Len(f))
  PROVE  /\ Whole(Append(f, Partial), Len(f))
         /\ Replayed(Append(f, Partial)) = Replayed(f)
  <1>. DEFINE g == Append(f, Partial)
              n == Len(f)
  <1>1. /\ g \in Seq(Unit) /\ Len(g) = n + 1 /\ n \in Nat /\ n >= 1
        /\ \A i \in 1..n : g[i] = f[i]
        /\ g[n + 1] = Partial
    BY UnitTypes DEF Whole
  <1>. HIDE DEF g
  <1>2. Whole(g, n)
    BY <1>1 DEF Whole, HasHeader
  <1>3. Replayed(g) = MutsOf(g, 1..n) /\ Replayed(f) = MutsOf(f, 1..n)
    BY <1>1, <1>2, ReplayedWhole
  <1>4. MutsOf(g, 1..n) = MutsOf(f, 1..n)
    BY <1>1 DEF MutsOf
  <1>. QED
    BY <1>2, <1>3, <1>4 DEF g

(* Cutting the torn record off keeps every whole one.                      *)
LEMMA WholeCut ==
  ASSUME NEW f \in Seq(Unit), NEW n \in Nat, Whole(f, n)
  PROVE  /\ Whole(SubSeq(f, 1, n), n)
         /\ Len(SubSeq(f, 1, n)) = n
         /\ Replayed(SubSeq(f, 1, n)) = Replayed(f)
  <1>. DEFINE g == SubSeq(f, 1, n)
  <1>1. /\ g \in Seq(Unit) /\ Len(g) = n /\ n >= 1
        /\ \A i \in 1..n : g[i] = f[i]
    BY SubSeqType DEF Whole
  <1>. HIDE DEF g
  <1>2. Whole(g, n)
    BY <1>1 DEF Whole, HasHeader
  <1>3. Replayed(g) = MutsOf(g, 1..n) /\ Replayed(f) = MutsOf(f, 1..n)
    BY <1>1, <1>2, ReplayedWhole
  <1>4. MutsOf(g, 1..n) = MutsOf(f, 1..n)
    BY <1>1 DEF MutsOf
  <1>. QED
    BY <1>1, <1>2, <1>3, <1>4 DEF g

(* The records behind an offset, by position.                              *)
LEMMA TailAt ==
  ASSUME NEW f \in Seq(Unit), NEW m \in Nat, NEW n \in Nat, m <= n, n <= Len(f)
  PROVE  /\ SubSeq(f, m + 1, n) \in Seq(Unit)
         /\ Len(SubSeq(f, m + 1, n)) = n - m
         /\ \A i \in 1..(n - m) : SubSeq(f, m + 1, n)[i] = f[i + m]
  <1>1. SubSeq(f, m + 1, n) \in Seq(Unit)
    BY SubSeqType
  <1>2. Len(SubSeq(f, m + 1, n)) = n - m
    OBVIOUS
  <1>3. ASSUME NEW i \in 1..(n - m) PROVE SubSeq(f, m + 1, n)[i] = f[i + m]
    <2>1. SubSeq(f, m + 1, n)[i] = f[(m + 1) + i - 1]
      OBVIOUS
    <2>2. (m + 1) + i - 1 = i + m
      OBVIOUS
    <2>. QED
      BY <2>1, <2>2
  <1>. QED
    BY <1>1, <1>2, <1>3

Dumped(f, m, n, M) == <<Header, Rec(M)>> \o SubSeq(f, m + 1, n)

(* A dump of M followed by the records m+1..n restores exactly M and those *)
(* records.                                                                *)
LEMMA DumpAndTail ==
  ASSUME NEW f \in Seq(Unit), NEW n \in Nat, NEW m \in 1..n,
         NEW M \in SUBSET Nat, Whole(f, n)
  PROVE  /\ Len(Dumped(f, m, n, M)) \in Nat
         /\ Whole(Dumped(f, m, n, M), Len(Dumped(f, m, n, M)))
         /\ Replayed(Dumped(f, m, n, M)) = M \cup MutsOf(f, (m + 1)..n)
  <1>. DEFINE h == <<Header, Rec(M)>>
              t == SubSeq(f, m + 1, n)
              k == n - m
              g == h \o t
  <1>0. n <= Len(f) /\ m \in Nat /\ m <= n /\ k \in Nat
    BY DEF Whole
  <1>1. /\ t \in Seq(Unit) /\ Len(t) = k
        /\ \A i \in 1..k : t[i] = f[i + m]
    BY <1>0, TailAt
  <1>2. /\ h \in Seq(Unit) /\ Len(h) = 2
        /\ h[1] = Header /\ h[2] = Rec(M)
    BY UnitTypes
  <1>. HIDE DEF h, t
  <1>4. /\ g \in Seq(Unit) /\ Len(g) = k + 2
        /\ g[1] = Header /\ g[2] = Rec(M)
        /\ \A i \in 3..(k + 2) : g[i] = t[i - 2]
    <2>0. /\ g \in Seq(Unit) /\ Len(g) = Len(h) + Len(t)
          /\ \A i \in 1..(Len(h) + Len(t)) :
               g[i] = IF i <= Len(h) THEN h[i] ELSE t[i - Len(h)]
      BY <1>1, <1>2, ConcatProperties, Zenon
    <2>. HIDE DEF g
    <2>1. g \in Seq(Unit) /\ Len(g) = k + 2
      BY <1>0, <1>1, <1>2, <2>0
    <2>2. g[1] = h[1] /\ g[2] = h[2]
      BY <1>0, <1>1, <1>2, <2>0
    <2>3. ASSUME NEW i \in 3..(k + 2) PROVE g[i] = t[i - 2]
      <3>1. i \in 1..(Len(h) + Len(t)) /\ i > Len(h)
        BY <1>0, <1>1, <1>2
      <3>2. g[i] = t[i - Len(h)]
        BY <3>1, <1>2, <2>0
      <3>. QED
        BY <3>2, <1>2
    <2>. QED
      BY <1>2, <2>1, <2>2, <2>3
  <1>. HIDE DEF g
  <1>5. \A i \in 3..(k + 2) : g[i] = f[i - 2 + m]
    <2>1. \A i \in 3..(k + 2) : i - 2 \in 1..k
      BY <1>0
    <2>. QED
      BY <1>1, <1>4, <2>1
  <1>6. \A i \in 3..(k + 2) : i - 2 + m \in (m + 1)..n /\ i - 2 + m \in 1..n
    BY <1>0
  <1>7. Whole(g, k + 2)
    <2>1. \A i \in 3..(k + 2) : ~Unreadable(g[i])
      BY <1>5, <1>6 DEF Whole
    <2>2. ~Unreadable(g[1]) /\ ~Unreadable(g[2])
      BY <1>4 DEF Unreadable, Header, Rec
    <2>3. HasHeader(g)
      <3>1. g # <<>>
        BY <1>0, <1>4
      <3>. QED
        BY <1>4, <3>1 DEF HasHeader, Header
    <2>. QED
      BY <1>0, <1>4, <2>1, <2>2, <2>3 DEF Whole
  <1>8. Replayed(g) = MutsOf(g, 1..(k + 2))
    BY <1>0, <1>4, <1>7, ReplayedWhole
  <1>9. MutsOf(g, 1..(k + 2)) = M \cup MutsOf(f, (m + 1)..n)
    <2>1. g[1].muts = {} /\ g[2].muts = M
      BY <1>4 DEF Header, Rec
    <2>2. ASSUME NEW i \in 1..(k + 2), NEW x \in g[i].muts
          PROVE  x \in M \cup MutsOf(f, (m + 1)..n)
      <3>1. CASE i \in {1, 2}
        BY <3>1, <2>1, <2>2
      <3>2. CASE i \in 3..(k + 2)
        BY <3>2, <2>2, <1>5, <1>6 DEF MutsOf
      <3>. QED
        BY <1>0, <3>1, <3>2
    <2>3. ASSUME NEW x \in M PROVE \E i \in 1..(k + 2) : x \in g[i].muts
      <3>1. 2 \in 1..(k + 2)
        BY <1>0
      <3>. QED
        BY <3>1, <2>1, <2>3
    <2>4. ASSUME NEW j \in (m + 1)..n, NEW x \in f[j].muts
          PROVE  \E i \in 1..(k + 2) : x \in g[i].muts
      <3>1. j - m + 2 \in 3..(k + 2) /\ (j - m + 2) - 2 + m = j
        BY <1>0
      <3>2. g[j - m + 2] = f[j]
        BY <3>1, <1>5
      <3>3. j - m + 2 \in 1..(k + 2)
        BY <1>0
      <3>. QED
        BY <3>2, <3>3, <2>4
    <2>5. \A x : x \in MutsOf(g, 1..(k + 2)) <=> \E i \in 1..(k + 2) : x \in g[i].muts
      BY DEF MutsOf
    <2>6. \A x : x \in MutsOf(f, (m + 1)..n) <=> \E j \in (m + 1)..n : x \in f[j].muts
      BY DEF MutsOf
    <2>. QED
      BY <2>2, <2>3, <2>4, <2>5, <2>6, Zenon
  <1>10. Dumped(f, m, n, M) = g
    BY DEF Dumped, g, h, t
  <1>. QED
    BY <1>0, <1>4, <1>7, <1>8, <1>9, <1>10

-----------------------------------------------------------------------------
(* The inductive invariant.  RAM covers the file, and at a fork the dump   *)
(* covers the file up to the noted offset: so dump and tail together cover *)
(* the file whenever the commit happens.                                   *)

CInv ==
  /\ orphan = "none"
  /\ up => Whole(file, size) /\ (~torn => size = Len(file))
  /\ ~up => file \in {<<>>, <<Partial>>} \/ \E n \in Nat : Whole(file, n)
  /\ "power" \notin ended => confirmed \subseteq Replayed(file)
  /\ up => Replayed(file) \subseteq ram
  /\ rewrite.pc # "none" =>
       /\ up
       /\ rewrite.from \in 1..size
       /\ MutsOf(file, 1..rewrite.from) \subseteq rewrite.muts
       /\ rewrite.muts \subseteq ram

(* Only I/O errors that the code handles: no failed header write, no       *)
(* failed open or truncation during recovery, and no child outliving its   *)
(* server.                                                                 *)
HandledFaults ==
  Faults \cap {"header", "startup_open", "recover_cut", "orphan"} = {}

(* What of CInv a step keeps when it leaves the file, its bookkeeping and  *)
(* the rewrite alone.                                                      *)
LEMMA CInvFrame ==
  ASSUME CInv, file' = file, size' = size, torn' = torn, up' = up,
         orphan' = orphan, confirmed' = confirmed, ram \subseteq ram',
         rewrite' = rewrite, ended \subseteq ended'
  PROVE  CInv'
  <1>1. Whole(file, size)' = Whole(file, size)
    BY DEF Whole, HasHeader, Unreadable, Partial
  <1>2. /\ Replayed(file)' = Replayed(file)
        /\ MutsOf(file, 1..rewrite.from)' = MutsOf(file, 1..rewrite.from)
        /\ (\E n \in Nat : Whole(file, n))' = (\E n \in Nat : Whole(file, n))
    BY DEF Replayed, MutsOf, Readable, Whole, HasHeader, Unreadable, Partial
  <1>. QED
    BY <1>1, <1>2 DEF CInv

(* What a power loss leaves of such a file.                                *)
LEMMA PrefixOfWhole ==
  ASSUME NEW f \in Seq(Unit), NEW k \in Nat, Whole(f, k),
         NEW n \in Nat, n <= Len(f), NEW g,
         \/ g = SubSeq(f, 1, n)
         \/ n < Len(f) /\ g = Append(SubSeq(f, 1, n), Partial)
  PROVE  g \in {<<>>, <<Partial>>} \/ \E m \in Nat : Whole(g, m)
  <1>. DEFINE h == SubSeq(f, 1, n)
  <1>1. h \in Seq(Unit) /\ Len(h) = n /\ \A i \in 1..n : h[i] = f[i]
    BY SubSeqType
  <1>2. CASE n = 0
    <2>1. h = <<>>
      BY <1>1, <1>2
    <2>2. Append(<<>>, Partial) = <<Partial>>
      OBVIOUS
    <2>. QED
      BY <2>1, <2>2, Zenon
  <1>3. CASE n # 0 /\ n <= k
    <2>0. /\ k \in 1..Len(f) /\ HasHeader(f)
          /\ \A i \in 1..k : ~Unreadable(f[i])
      BY Zenon DEF Whole
    <2>1. Whole(h, Len(h))
      <3>. HIDE DEF h
      <3>1. HasHeader(h)
        BY <1>1, <1>3, <2>0 DEF HasHeader
      <3>2. Len(h) \in 1..Len(h)
        BY <1>1, <1>3
      <3>3. \A i \in 1..n : i \in 1..k
        BY <1>3
      <3>4. \A i \in 1..Len(h) : ~Unreadable(h[i])
        BY <1>1, <2>0, <3>3, Zenon
      <3>. QED
        BY <3>1, <3>2, <3>4, Zenon DEF Whole
    <2>2. Whole(Append(h, Partial), Len(h))
      BY <1>1, <2>1, WholeAppendPartial, Zenon
    <2>. QED
      BY <1>1, <2>1, <2>2, Zenon
  <1>4. CASE n > k
    <2>1. n = Len(f)
      BY <1>4 DEF Whole
    <2>2. h = f
      BY <1>1, <2>1
    <2>. QED
      BY <2>1, <2>2
  <1>. QED
    BY <1>2, <1>3, <1>4

(* Files that agree on a range hold the same mutations there.              *)
LEMMA MutsOfAgree ==
  ASSUME NEW f, NEW g, NEW I, \A i \in I : g[i] = f[i]
  PROVE  MutsOf(g, I) = MutsOf(f, I)
  BY DEF MutsOf

(* A commit keeps all that the replaced file would have restored: the dump *)
(* covers the file up to the fork, the copied tail the rest.               *)
LEMMA CommitKeeps ==
  ASSUME SInv, CInv, CommitRewrite
  PROVE  /\ up' /\ size' = Len(file') /\ ~torn' /\ ram' = ram
         /\ confirmed' = confirmed /\ orphan' = "none" /\ rewrite'.pc = "none"
         /\ Whole(file', size')
         /\ Replayed(file) \subseteq Replayed(file') /\ Replayed(file') \subseteq ram
  <1>. USE DEF SInv
  <1>1. /\ up /\ up' /\ size' = Len(file') /\ ~torn' /\ ram' = ram
        /\ confirmed' = confirmed /\ orphan' = "none" /\ rewrite'.pc = "none"
        /\ rewrite.pc = "ok" /\ file' = Rewritten
    BY DEF CommitRewrite, NoRewrite, ghostVars, CInv
  <1>2. /\ Whole(file, size) /\ rewrite.from \in 1..size
        /\ MutsOf(file, 1..rewrite.from) \subseteq rewrite.muts
        /\ Replayed(file) \subseteq ram
        /\ rewrite.muts \subseteq ram
    BY <1>1 DEF CInv
  <1>3. file' = Dumped(file, rewrite.from, size, rewrite.muts)
    <2>1. <<Header, Rec(rewrite.muts)>> \in Seq(Unit)
      BY UnitTypes DEF StateOK
    <2>2. <<Header, Rec(rewrite.muts)>> \o <<>> = <<Header, Rec(rewrite.muts)>>
      BY <2>1, ConcatEmptySeq
    <2>. QED
      BY <1>1, <2>2 DEF Rewritten, TailSinceFork, Dumped, CInv
  <1>4. /\ Whole(file', size')
        /\ Replayed(file') = rewrite.muts \cup MutsOf(file, (rewrite.from + 1)..size)
    BY <1>1, <1>2, <1>3, DumpAndTail DEF StateOK
  <1>5. Replayed(file) = MutsOf(file, 1..size)
    BY <1>2, ReplayedWhole DEF StateOK
  <1>6. 1..size = (1..rewrite.from) \cup ((rewrite.from + 1)..size)
    BY <1>2 DEF StateOK
  <1>7. MutsOf(file, 1..size) = MutsOf(file, 1..rewrite.from)
          \cup MutsOf(file, (rewrite.from + 1)..size)
    BY <1>6 DEF MutsOf
  <1>8. Replayed(file) \subseteq Replayed(file') /\ Replayed(file') \subseteq ram
    BY <1>2, <1>4, <1>5, <1>7
  <1>. QED
    BY <1>1, <1>4, <1>8

(* After whatever stopped the last run recovery finds a whole file, a torn *)
(* tail or nothing.                                                        *)
LEMMA NoDamage ==
  ASSUME SInv, CInv
  PROVE  ~StartDamaged
  <1>. SUFFICES ASSUME StartDamaged PROVE FALSE
    OBVIOUS
  <1>1. PICK n \in Nat : Whole(file, n)
    BY DEF StartDamaged, Start, CInv
  <1>2. Readable(file) = 1..n
    BY <1>1, ReplayedWhole DEF SInv, StateOK
  <1>3. WholeV3(file) \/ TornTail(file)
    BY <1>1, <1>2 DEF WholeV3, TornTail, Whole
  <1>. QED
    BY <1>3 DEF StartDamaged

(* Every step keeps the confirmed mutations in the file, and those of a    *)
(* rewrite in progress in its dump or behind its offset.                   *)
LEMMA CInvStep ==
  ASSUME HandledFaults, SInv, CInv, [Next]_vars
  PROVE  CInv'
  <1>. USE DEF SInv
  <1>0. ended \subseteq ended'
    BY EndedGrows
  <1>1. CASE AppendRefused
    BY <1>0, <1>1, CInvFrame DEF AppendRefused, Mutate, fileVars, syncVars
  <1>2. CASE AppendCannotOpen
    BY <1>0, <1>2, CInvFrame DEF AppendCannotOpen, Mutate, fileVars
  <1>3. CASE AppendBuffered \/ AppendSynced \/ AppendSyncFails
    <2>1. /\ AppendWritten
          /\ confirmed' \subseteq confirmed \cup {next}
      BY <1>3, Zenon DEF AppendBuffered, AppendSynced, AppendSyncFails,
           ConfirmedAfterFailedSync
    <2>2. /\ file' = Append(file, Rec({next})) /\ size' = size + 1
          /\ up /\ up' /\ ~torn /\ ~torn'
          /\ ram' = ram \cup {next} /\ next \in Nat
          /\ orphan' = orphan /\ rewrite' = rewrite
      BY <2>1 DEF AppendWritten, Mutate, StateOK
    <2>3. Whole(file, Len(file)) /\ size = Len(file)
      BY <2>2 DEF CInv
    <2>4. /\ Whole(file', size') /\ Len(file') = size'
          /\ Replayed(file') = Replayed(file) \cup {next}
      <3>1. file \in Seq(Unit) /\ {next} \in SUBSET Nat
        BY <2>2 DEF StateOK
      <3>2. /\ Whole(Append(file, Rec({next})), Len(file) + 1)
            /\ Replayed(Append(file, Rec({next}))) = Replayed(file) \cup {next}
        BY <2>3, <3>1, WholeAppendRec
      <3>3. Len(Append(file, Rec({next}))) = Len(file) + 1
        BY <3>1
      <3>. QED
        BY <2>2, <2>3, <3>2, <3>3, Zenon
    <2>5. \A i \in 1..size : file'[i] = file[i]
      BY <2>2, <2>3 DEF StateOK
    <2>6. rewrite.pc # "none" =>
            MutsOf(file', 1..rewrite.from) = MutsOf(file, 1..rewrite.from)
      <3>1. rewrite.pc # "none" => \A i \in 1..rewrite.from : i \in 1..size
        BY DEF CInv, StateOK
      <3>2. rewrite.pc # "none" => \A i \in 1..rewrite.from : file'[i] = file[i]
        BY <3>1, <2>5
      <3>. QED
        BY <3>2, MutsOfAgree, Zenon
    <2>7. rewrite'.pc # "none" => rewrite'.from \in 1..size'
      BY <2>2 DEF CInv, StateOK
    <2>. QED
      BY <1>0, <2>1, <2>2, <2>4, <2>6, <2>7, Zenon DEF CInv
  <1>4. CASE AppendFails
    <2>1. CASE UNCHANGED <<file, torn>>
      BY <1>0, <1>4, <2>1, CInvFrame DEF AppendFails, Mutate
    <2>2. CASE file' = Append(file, Partial) /\ torn' = TRUE
      <3>1. /\ size' = size /\ up /\ up' /\ ~torn
            /\ ram \subseteq ram' /\ confirmed' = confirmed
            /\ orphan' = orphan /\ rewrite' = rewrite
        BY <1>4 DEF AppendFails, Mutate
      <3>2. Whole(file, Len(file)) /\ size = Len(file)
        BY <3>1 DEF CInv
      <3>3. Whole(file', size') /\ Replayed(file') = Replayed(file)
        BY <2>2, <3>1, <3>2, WholeAppendPartial DEF StateOK
      <3>4. \A i \in 1..size : file'[i] = file[i]
        BY <2>2, <3>2 DEF StateOK
      <3>5. rewrite.pc # "none" =>
              MutsOf(file', 1..rewrite.from) = MutsOf(file, 1..rewrite.from)
        <4>1. rewrite.pc # "none" => \A i \in 1..rewrite.from : i \in 1..size
          BY DEF CInv, StateOK
        <4>2. rewrite.pc # "none" => \A i \in 1..rewrite.from : file'[i] = file[i]
          BY <4>1, <3>4
        <4>. QED
          BY <4>2, MutsOfAgree, Zenon
      <3>. QED
        BY <1>0, <2>2, <3>1, <3>3, <3>5 DEF CInv
    <2>. QED
      BY <1>4, <2>1, <2>2, Zenon DEF AppendFails, TornAfterFailedCut
  <1>5. CASE SyncCapture \/ SyncSucceeds \/ SyncFails
    BY <1>0, <1>5, CInvFrame DEF SyncCapture, SyncSucceeds, SyncFails, fileVars,
         syncVars, ghostVars
  <1>6. CASE SyncPublish
    BY <1>0, <1>6, CInvFrame DEF SyncPublish, fileVars, ghostVars
  <1>7. CASE StartRewrite
    <2>1. /\ up /\ up' /\ file' = file /\ size' = size /\ torn' = torn
          /\ ram' = ram /\ confirmed' = confirmed /\ orphan' = orphan
          /\ rewrite'.pc = "child" /\ rewrite'.from = size /\ rewrite'.muts = ram
      BY <1>7 DEF StartRewrite, fileVars, syncVars, ghostVars, CInv
    <2>2. Whole(file, size) /\ Replayed(file) \subseteq ram
      BY <2>1 DEF CInv
    <2>3. MutsOf(file, 1..size) \subseteq ram
      BY <2>2, ReplayedWhole DEF StateOK
    <2>4. size \in 1..size
      BY <2>2 DEF Whole, StateOK
    <2>. QED
      BY <1>0, <2>1, <2>2, <2>3, <2>4 DEF CInv
  <1>8. CASE ChildExits
    <2>1. /\ up' = up /\ file' = file /\ size' = size /\ torn' = torn
          /\ ram' = ram /\ confirmed' = confirmed /\ orphan' = orphan
          /\ rewrite.pc # "none"
          /\ rewrite'.from = rewrite.from /\ rewrite'.muts = rewrite.muts
      BY <1>8 DEF ChildExits, fileVars, syncVars, ghostVars, StateOK
    <2>. QED
      BY <1>0, <2>1 DEF CInv
  <1>9. CASE AbortRewrite
    <2>1. /\ up' = up /\ file' = file /\ size' = size /\ torn' = torn
          /\ ram' = ram /\ confirmed' = confirmed /\ orphan' = Unlinked
          /\ rewrite'.pc = "none"
      BY <1>9 DEF AbortRewrite, fileVars, ghostVars, NoRewrite
    <2>. QED
      BY <1>0, <2>1 DEF CInv, Unlinked
  <1>10. CASE CommitRewrite
    BY <1>0, <1>10, CommitKeeps DEF CInv
  <1>11. CASE OrphanWrites \/ OrphanExits
    BY <1>11 DEF OrphanWrites, OrphanExits, CInv
  <1>12. CASE Shutdown \/ ProcessCrash
    <2>1. /\ up /\ ~up' /\ confirmed' = confirmed /\ rewrite'.pc = "none"
      BY <1>12 DEF Shutdown, ProcessCrash, Stop, NoRewrite
    <2>2. orphan' = "none"
      BY <1>12 DEF Shutdown, ProcessCrash, Unlinked, CInv, HandledFaults
    <2>3. Whole(file, size) /\ (~torn => size = Len(file)) /\ size \in Nat
      BY <2>1 DEF CInv, StateOK
    <2>4. \/ file' = file
          \/ ~torn /\ file' = Append(file, Partial)
          \/ ~torn /\ file' = Append(file, Rec({next}))
      BY <1>12 DEF Shutdown, ProcessCrash
    <2>5. (\E n \in Nat : Whole(file', n)) /\ Replayed(file) \subseteq Replayed(file')
      <3>1. CASE file' = file
        BY <3>1, <2>3 DEF Replayed, MutsOf, Readable, HasHeader, Unreadable
      <3>2. CASE ~torn /\ file' = Append(file, Partial)
        BY <3>2, <2>3, WholeAppendPartial DEF StateOK
      <3>3. CASE ~torn /\ file' = Append(file, Rec({next}))
        <4>1. {next} \in SUBSET Nat /\ size + 1 \in Nat
          BY <2>3 DEF StateOK
        <4>2. Whole(file', size + 1) /\ Replayed(file') = Replayed(file) \cup {next}
          BY <3>3, <2>3, <4>1, WholeAppendRec, Zenon DEF StateOK
        <4>. QED
          BY <4>1, <4>2
      <3>. QED
        BY <2>4, <3>1, <3>2, <3>3
    <2>. QED
      BY <1>0, <2>1, <2>2, <2>5 DEF CInv
  <1>13. CASE PowerLoss
    <2>1. /\ up /\ ~up' /\ "power" \in ended' /\ rewrite'.pc = "none"
          /\ orphan' = "none"
      BY <1>13 DEF PowerLoss, Stop, NoRewrite
    <2>2. PICK n \in disk..Len(file) :
            \/ file' = SubSeq(file, 1, n)
            \/ n < Len(file) /\ file' = Append(SubSeq(file, 1, n), Partial)
      BY <1>13 DEF PowerLoss
    <2>3. file' \in {<<>>, <<Partial>>} \/ \E m \in Nat : Whole(file', m)
      BY <2>1, <2>2, PrefixOfWhole, SMTT(20) DEF CInv, StateOK
    <2>. QED
      BY <2>1, <2>3 DEF CInv
  <1>14. CASE Startup
    <2>1. /\ ~up /\ up' /\ ~torn' /\ confirmed' = confirmed /\ rewrite' = rewrite
          /\ ram' = Replayed(file) /\ rewrite.pc = "none"
      BY <1>14, SMTT(20) DEF Startup, StartFresh, StartClean, StartTorn, StartDamaged,
           Start, CInv
    <2>2. orphan' = "none"
      BY <1>14, Zenon DEF Startup, StartFresh, StartClean, StartTorn, StartDamaged, CInv
    <2>3. /\ Whole(file', size') /\ size' = Len(file')
          /\ Replayed(file') = Replayed(file)
      <3>1. CASE StartFresh
        <4>1. ~ HasHeader(<<>>) /\ ~ HasHeader(<<Partial>>)
          BY DEF HasHeader, Partial
        <4>2. file' = <<Header>> /\ size' = 1
          BY <3>1 DEF StartFresh, Opened, NotOpened, HandledFaults
        <4>3. Whole(<<Header>>, 1) /\ <<Header>> \in Seq(Unit)
          BY UnitTypes DEF Whole, HasHeader, Header, Unreadable
        <4>4. MutsOf(<<Header>>, 1..1) = {}
          BY DEF MutsOf, Header
        <4>5. Replayed(<<Header>>) = {}
          BY <4>3, <4>4, ReplayedWhole, Zenon
        <4>6. Replayed(file) = {}
          BY <3>1, <4>1 DEF StartFresh, Replayed
        <4>. QED
          BY <4>2, <4>3, <4>5, <4>6
      <3>2. CASE StartClean
        <4>1. file' = file /\ size' = Len(file)
          BY <3>2 DEF StartClean, Opened, fileVars, HandledFaults
        <4>2. file # <<>>
          BY <3>2 DEF StartClean, WholeV3, HasHeader
        <4>3. Whole(file, Len(file))
          <5>1. \A i \in 1..Len(file) : ~Unreadable(file[i])
            BY <3>2 DEF StartClean, WholeV3, Readable, StateOK
          <5>2. Len(file) \in 1..Len(file)
            BY <4>2 DEF StateOK
          <5>. QED
            BY <3>2, <5>1, <5>2 DEF StartClean, WholeV3, Whole
        <4>. QED
          BY <4>1, <4>3
      <3>3. CASE StartTorn
        <4>1. file' = SubSeq(file, 1, Len(file) - 1) /\ size' = Len(file')
          BY <3>3, SMTT(20) DEF StartTorn, Opened, HandledFaults
        <4>0. ~HasHeader(<<>>) /\ ~HasHeader(<<Partial>>)
          BY DEF HasHeader, Partial
        <4>2. PICK n \in Nat : Whole(file, n)
          BY <3>3, <2>1, <4>0, Zenon DEF StartTorn, TornTail, CInv
        <4>3. Readable(file) = 1..n /\ Readable(file) = 1..(Len(file) - 1)
          BY <4>2, <3>3, ReplayedWhole DEF StartTorn, TornTail, StateOK
        <4>4. n = Len(file) - 1
          BY <4>2, <4>3 DEF Whole, StateOK
        <4>. QED
          BY <4>1, <4>2, <4>4, WholeCut DEF StateOK
      <3>4. CASE StartDamaged
        BY <3>4, NoDamage
      <3>. QED
        BY <1>14, <3>1, <3>2, <3>3, <3>4 DEF Startup
    <2>. QED
      BY <1>0, <2>1, <2>2, <2>3, SMTT(20) DEF CInv
  <1>15. CASE UNCHANGED vars
    BY <1>0, <1>15, CInvFrame DEF vars
  <1>. QED
    BY <1>1, <1>2, <1>3, <1>4, <1>5, <1>6, <1>7, <1>8, <1>9, <1>10, <1>11,
       <1>12, <1>13, <1>14, <1>15
       DEF Next, AppendRecord, SyncWorker

(* The file is well formed in every run.                                   *)
LEMMA CInvInit == Init => CInv
  BY DEF Init, CInv, NoRewrite

(* Process crashes, restarts, failed writes and rewrites, in any number    *)
(* and order, lose no mutation whose append() returned true.               *)
THEOREM ConfirmedIsReplayedHolds ==
  ASSUME HandledFaults
  PROVE  Spec => []ConfirmedIsReplayed
  <1>1. SInv /\ CInv /\ [Next]_vars => CInv'
    BY CInvStep
  <1>2. CInv => ConfirmedIsReplayed
    BY DEF CInv, ConfirmedIsReplayed
  <1>. QED
    BY SInvInit, SInvStep, CInvInit, <1>1, <1>2, PTL DEF Spec

(* In every run, one after a power loss included, the only torn record is  *)
(* the last one of the file, and append() knows of it.                     *)
THEOREM TornIsLastHolds ==
  ASSUME HandledFaults
  PROVE  Spec => []TornIsLast
  <1>1. SInv /\ CInv /\ [Next]_vars => CInv'
    BY CInvStep
  <1>2. SInv /\ CInv => TornIsLast
    <2>. SUFFICES ASSUME SInv, CInv, up, NEW i \in 1..Len(file), Unreadable(file[i])
                  PROVE  i = Len(file) /\ torn
      BY DEF TornIsLast
    <2>1. Whole(file, size) /\ (~torn => size = Len(file))
      BY DEF CInv
    <2>2. i > size
      BY <2>1 DEF Whole, SInv, StateOK
    <2>3. i = Len(file) /\ size # Len(file)
      BY <2>1, <2>2 DEF Whole, SInv, StateOK
    <2>. QED
      BY <2>1, <2>3
  <1>. QED
    BY SInvInit, SInvStep, CInvInit, <1>1, <1>2, PTL DEF Spec

(* size_ is the number of whole records of the file, in every run.         *)
THEOREM SizeIsWholeRecordsHolds ==
  ASSUME HandledFaults
  PROVE  Spec => []SizeIsWholeRecords
  <1>1. SInv /\ CInv /\ [Next]_vars => CInv'
    BY CInvStep
  <1>2. SInv /\ CInv => SizeIsWholeRecords
    <2>. SUFFICES ASSUME SInv, CInv, up
                  PROVE  /\ size = Cardinality({i \in 1..Len(file) : ~Unreadable(file[i])})
                         /\ \A i \in 1..size : ~Unreadable(file[i])
      BY DEF SizeIsWholeRecords
    <2>1. Whole(file, size) /\ size \in Nat /\ Len(file) \in Nat
      BY DEF CInv, SInv, StateOK
    <2>2. Unreadable(Partial)
      BY DEF Unreadable, Partial
    <2>3. {i \in 1..Len(file) : ~Unreadable(file[i])} = 1..size
      BY <2>1, <2>2 DEF Whole
    <2>4. Cardinality(1..size) = size
      BY <2>1, FS_Interval
    <2>. QED
      BY <2>1, <2>3, <2>4, Zenon DEF Whole
  <1>. QED
    BY SInvInit, SInvStep, CInvInit, <1>1, <1>2, PTL DEF Spec

(* Only a commit replaces the file.                                        *)
LEMMA RewriteKeeps ==
  ASSUME SInv, CInv, [Next]_vars, inode' # inode
  PROVE  Replayed(file) \subseteq Replayed(file')
  <1>1. CASE AppendRecord
    BY <1>1, Zenon DEF AppendRecord, AppendRefused, AppendCannotOpen, AppendBuffered,
         AppendSynced, AppendSyncFails, AppendFails, AppendWritten, fileVars
  <1>2. CASE SyncWorker
    BY <1>2, Zenon DEF SyncWorker, SyncCapture, SyncSucceeds, SyncFails, SyncPublish,
         fileVars
  <1>3. CASE StartRewrite \/ ChildExits \/ AbortRewrite
    BY <1>3, Zenon DEF StartRewrite, ChildExits, AbortRewrite, fileVars
  <1>4. CASE CommitRewrite
    BY <1>4, CommitKeeps
  <1>5. CASE OrphanWrites \/ OrphanExits
    BY <1>5 DEF OrphanWrites, OrphanExits, CInv
  <1>6. CASE Shutdown \/ ProcessCrash \/ PowerLoss
    BY <1>6, Zenon DEF Shutdown, ProcessCrash, PowerLoss
  <1>7. CASE Startup
    BY <1>7, NoDamage, Zenon DEF Startup, StartFresh, StartClean, StartTorn, fileVars
  <1>8. CASE UNCHANGED vars
    BY <1>8, Zenon DEF vars
  <1>. QED
    BY <1>1, <1>2, <1>3, <1>4, <1>5, <1>6, <1>7, <1>8 DEF Next

(* What the path names after a rewrite restores at least what the file     *)
(* before it did, the mutations appended while the child ran included.     *)
THEOREM RewriteLosesNothingHolds ==
  ASSUME HandledFaults
  PROVE  Spec => RewriteLosesNothing
  <1>1. SInv /\ CInv /\ [Next]_vars => CInv'
    BY CInvStep
  <1>2. SInv /\ CInv /\ [Next]_vars =>
          [inode' # inode => Replayed(file) \subseteq Replayed(file')]_vars
    BY RewriteKeeps
  <1>. QED
    BY SInvInit, SInvStep, CInvInit, <1>1, <1>2, PTL DEF Spec, RewriteLosesNothing
-----------------------------------------------------------------------------
(* What survives a power loss: the prefix on stable storage.               *)

(* What is restored from a longer prefix includes what a shorter one       *)
(* restores, and the whole file restores what it restores up to its end.   *)
LEMMA UpToGrows ==
  ASSUME NEW f \in Seq(Unit), NEW d \in Nat, NEW e \in Nat, d <= e
  PROVE  /\ ReplayedUpTo(f, d) \subseteq ReplayedUpTo(f, e)
         /\ ReplayedUpTo(f, d) \subseteq Replayed(f)
         /\ Len(f) <= e => ReplayedUpTo(f, e) = Replayed(f)
  <1>1. \A i \in Readable(f) : i \in Nat /\ i <= Len(f)
    BY DEF Readable
  <1>2. {i \in Readable(f) : i <= d} \subseteq {i \in Readable(f) : i <= e}
    BY <1>1
  <1>3. Len(f) <= e => {i \in Readable(f) : i <= e} = Readable(f)
    BY <1>1
  <1>. QED
    BY <1>2, <1>3, Zenon DEF ReplayedUpTo, Replayed, MutsOf

(* A unit behind the end restores at most its own mutations, hides nothing *)
(* and leaves what a prefix restores alone.                                *)
LEMMA AppendUnit ==
  ASSUME NEW f \in Seq(Unit), NEW u \in Unit, u.kind # "header",
         NEW d \in Nat, d <= Len(f)
  PROVE  /\ Replayed(f) \subseteq Replayed(Append(f, u))
         /\ Replayed(Append(f, u)) \subseteq Replayed(f) \cup u.muts
         /\ ReplayedUpTo(Append(f, u), d) = ReplayedUpTo(f, d)
  <1>. DEFINE g == Append(f, u)
              n == Len(f)
  <1>1. /\ g \in Seq(Unit) /\ Len(g) = n + 1 /\ n \in Nat
        /\ \A i \in 1..n : g[i] = f[i]
        /\ g[n + 1] = u
    OBVIOUS
  <1>2. HasHeader(g) = HasHeader(f)
    <2>1. CASE f = <<>>
      BY <1>1, <2>1 DEF HasHeader
    <2>2. CASE f # <<>>
      BY <1>1, <2>2 DEF HasHeader
    <2>. QED
      BY <2>1, <2>2
  <1>. HIDE DEF g
  <1>3. \A i \in 1..n : i \in Readable(g) <=> i \in Readable(f)
    BY <1>1 DEF Readable
  <1>4. Readable(f) \subseteq 1..n /\ Readable(g) \subseteq (1..n) \cup {n + 1}
    BY <1>1 DEF Readable
  <1>5. Readable(f) \subseteq Readable(g) /\ Readable(g) \subseteq Readable(f) \cup {n + 1}
    BY <1>3, <1>4, Zenon
  <1>6. \A i \in Readable(f) : g[i] = f[i]
    BY <1>1, <1>4, Zenon
  <1>7. {i \in Readable(g) : i <= d} = {i \in Readable(f) : i <= d}
    <2>1. ~(n + 1 <= d)
      BY <1>1
    <2>. QED
      BY <1>5, <2>1, Zenon
  <1>8. MutsOf(f, Readable(f)) \subseteq MutsOf(g, Readable(g))
    BY <1>5, <1>6, Zenon DEF MutsOf
  <1>9. MutsOf(g, Readable(g)) \subseteq MutsOf(f, Readable(f)) \cup u.muts
    <2>1. \A i \in Readable(g) : g[i].muts = u.muts \/ (i \in Readable(f) /\ g[i] = f[i])
      BY <1>1, <1>5, <1>6, Zenon
    <2>2. \A x : x \in MutsOf(g, Readable(g)) <=> \E i \in Readable(g) : x \in g[i].muts
      BY DEF MutsOf
    <2>3. \A x : x \in MutsOf(f, Readable(f)) <=> \E i \in Readable(f) : x \in f[i].muts
      BY DEF MutsOf
    <2>. QED
      BY <2>1, <2>2, <2>3, Zenon
  <1>10. MutsOf(g, {i \in Readable(g) : i <= d}) = MutsOf(f, {i \in Readable(f) : i <= d})
    <2>. DEFINE I == {i \in Readable(f) : i <= d}
    <2>1. \A i \in I : g[i] = f[i]
      BY <1>6
    <2>. HIDE DEF I
    <2>2. MutsOf(g, I) = MutsOf(f, I)
      BY <2>1, MutsOfAgree, Zenon
    <2>. QED
      BY <1>7, <2>2, Zenon DEF I
  <1>. QED
    BY <1>2, <1>8, <1>9, <1>10, Zenon DEF Replayed, ReplayedUpTo, g

(* A prefix of the file restores what the file restores up to there.       *)
LEMMA CutKeepsUpTo ==
  ASSUME NEW f \in Seq(Unit), NEW n \in Nat, n <= Len(f), NEW d \in Nat, d <= n
  PROVE  ReplayedUpTo(f, d) \subseteq Replayed(SubSeq(f, 1, n))
  <1>. DEFINE g == SubSeq(f, 1, n)
  <1>1. g \in Seq(Unit) /\ Len(g) = n /\ \A i \in 1..n : g[i] = f[i]
    BY SubSeqType
  <1>. HIDE DEF g
  <1>2. \A i \in Readable(f) : i <= d => i \in Readable(g) /\ g[i] = f[i] /\ n # 0
    BY <1>1 DEF Readable
  <1>3. n # 0 /\ HasHeader(f) => HasHeader(g)
    BY <1>1 DEF HasHeader
  <1>. QED
    BY <1>2, <1>3, Zenon DEF ReplayedUpTo, Replayed, MutsOf, g

(* The inductive invariant: a serial number is confirmed only once it has  *)
(* been used, so a record whose sync failed, and one that a dying process  *)
(* just got out, hold nothing confirmed.                                   *)
AInv ==
  /\ disk <= Len(file)
  /\ \A m \in confirmed : m < next
  /\ confirmed \cap Replayed(file) \subseteq ReplayedUpTo(file, disk)

(* AInv after a step that appends a unit without a confirmed mutation.     *)
LEMMA AInvAppend ==
  ASSUME StateOK, AInv, NEW u \in Unit, u.kind # "header", u.muts \subseteq {next},
         file' = Append(file, u), disk' = disk, confirmed' = confirmed,
         next' \in Nat, next <= next'
  PROVE  AInv'
  <1>1. file \in Seq(Unit) /\ disk \in Nat /\ next \in Nat /\ confirmed \subseteq Nat
    BY DEF StateOK
  <1>2. /\ Replayed(file') \subseteq Replayed(file) \cup u.muts
        /\ ReplayedUpTo(file', disk) = ReplayedUpTo(file, disk)
    BY <1>1, AppendUnit DEF AInv
  <1>3. Len(file') = Len(file) + 1 /\ Len(file) \in Nat
    BY <1>1
  <1>4. disk' <= Len(file')
    BY <1>1, <1>3 DEF AInv
  <1>5. next \notin confirmed /\ \A m \in confirmed : m < next'
    BY <1>1 DEF AInv
  <1>. QED
    BY <1>2, <1>4, <1>5, Zenon DEF AInv

(* AInv after a step that ends with the whole file synced.                 *)
LEMMA AInvSynced ==
  ASSUME StateOK, StateOK', AInv, disk' = Len(file'),
         \/ confirmed' = confirmed /\ next' = next
         \/ confirmed' = confirmed \cup {next} /\ next' = next + 1
  PROVE  AInv'
  <1>1. file' \in Seq(Unit) /\ disk' \in Nat /\ next \in Nat /\ confirmed \subseteq Nat
    BY DEF StateOK
  <1>2. ReplayedUpTo(file', disk') = Replayed(file')
    BY <1>1, UpToGrows
  <1>3. \A m \in confirmed' : m < next'
    <2>1. \A a, b \in Nat : (a < b => a < b + 1) /\ b < b + 1
      OBVIOUS
    <2>2. \A m \in confirmed : m < next /\ m \in Nat
      BY <1>1, Zenon DEF AInv
    <2>3. next < next + 1 /\ \A m \in confirmed : m < next + 1
      BY <1>1, <2>1, <2>2, Zenon
    <2>. QED
      BY <2>2, <2>3
  <1>4. disk' <= Len(file')
    BY <1>1
  <1>. QED
    BY <1>2, <1>3, <1>4, Zenon DEF AInv

(* AInv after a step that leaves the file alone.                           *)
LEMMA AInvSameFile ==
  ASSUME StateOK, AInv, file' = file, disk' \in {disk, Len(file)}, confirmed' = confirmed,
         next' \in Nat, next <= next'
  PROVE  AInv'
  <1>1. /\ file \in Seq(Unit) /\ disk \in Nat /\ next \in Nat /\ confirmed \subseteq Nat
        /\ Len(file) \in Nat
    BY DEF StateOK
  <1>2. disk <= disk' /\ disk' <= Len(file) /\ disk' \in Nat
    BY <1>1 DEF AInv
  <1>3. ReplayedUpTo(file, disk) \subseteq ReplayedUpTo(file, disk')
    BY <1>1, <1>2, UpToGrows
  <1>4. \A m \in confirmed : m < next'
    BY <1>1 DEF AInv
  <1>. QED
    BY <1>2, <1>3, <1>4, Zenon DEF AInv

(* No step of a server that syncs before it confirms leaves a confirmed    *)
(* mutation in the page cache alone, whatever fails.                       *)
LEMMA AInvStep ==
  ASSUME SyncPolicy = "always", SInv, SInv', AInv, [Next]_vars
  PROVE  AInv'
  <1>0. /\ StateOK /\ StateOK' /\ next \in Nat /\ next' \in Nat
        /\ file \in Seq(Unit) /\ Len(file) \in Nat
    <2>1. \A f \in Seq(Unit) : Len(f) \in Nat
      OBVIOUS
    <2>. QED
      BY <2>1, Zenon DEF SInv, StateOK
  <1>u. /\ Partial \in Unit /\ Partial.kind # "header" /\ Partial.muts = {}
        /\ Garbage \in Unit /\ Garbage.kind # "header" /\ Garbage.muts = {}
        /\ \A m \in Nat : /\ Rec({m}) \in Unit /\ (Rec({m})).kind # "header"
                          /\ (Rec({m})).muts = {m}
    BY DEF Partial, Garbage, Rec, Unit
  <1>n. next <= next + 1 /\ next <= next /\ next + 1 \in Nat
    BY <1>0
  <1>1. CASE AppendRefused \/ AppendCannotOpen
    <2>1. file' = file /\ disk' = disk /\ confirmed' = confirmed /\ next' = next + 1
      BY <1>1, Zenon DEF AppendRefused, AppendCannotOpen, Mutate, fileVars
    <2>. QED
      BY <1>0, <1>n, <2>1, AInvSameFile
  <1>2. CASE AppendBuffered \/ SyncCapture
    BY <1>2, Zenon DEF AppendBuffered, SyncCapture
  <1>3. CASE AppendSynced
    BY <1>0, <1>3, AInvSynced DEF AppendSynced, AppendWritten, Mutate
  <1>4. CASE AppendSyncFails
    <2>1. /\ file' = Append(file, Rec({next})) /\ disk' = disk /\ next' = next + 1
          /\ confirmed' = confirmed
      BY <1>4, Zenon DEF AppendSyncFails, AppendWritten, Mutate, ConfirmedAfterFailedSync
    <2>. QED
      BY <1>0, <1>u, <1>n, <2>1, AInvAppend
  <1>5. CASE AppendFails
    <2>1. /\ file' = file \/ file' = Append(file, Partial)
          /\ disk' = disk /\ next' = next + 1 /\ confirmed' = confirmed
      BY <1>5, Zenon DEF AppendFails, Mutate
    <2>2. CASE file' = file
      BY <1>0, <1>n, <2>1, <2>2, AInvSameFile
    <2>3. CASE file' = Append(file, Partial)
      BY <1>0, <1>u, <1>n, <2>1, <2>3, AInvAppend
    <2>. QED
      BY <2>1, <2>2, <2>3
  <1>6. CASE SyncSucceeds \/ SyncFails \/ SyncPublish
    <2>1. /\ file' = file /\ confirmed' = confirmed /\ next' = next
          /\ disk' = disk \/ disk' = Len(file)
      BY <1>6, Zenon DEF SyncSucceeds, SyncFails, SyncPublish, fileVars, ghostVars
    <2>. QED
      BY <1>0, <1>n, <2>1, AInvSameFile
  <1>7. CASE StartRewrite \/ ChildExits \/ AbortRewrite \/ OrphanExits
    <2>1. file' = file /\ confirmed' = confirmed /\ next' = next /\ disk' = disk
      BY <1>7, Zenon DEF StartRewrite, ChildExits, AbortRewrite, OrphanExits, fileVars,
           ghostVars
    <2>. QED
      BY <1>0, <1>n, <2>1, AInvSameFile
  <1>8. CASE CommitRewrite
    BY <1>0, <1>8, AInvSynced DEF CommitRewrite, ghostVars
  <1>9. CASE OrphanWrites
    <2>1. /\ file' = file \/ file' = Append(file, Garbage)
          /\ disk' = disk /\ next' = next /\ confirmed' = confirmed
      BY <1>9, Zenon DEF OrphanWrites, ghostVars
    <2>2. CASE file' = file
      BY <1>0, <1>n, <2>1, <2>2, AInvSameFile
    <2>3. CASE file' = Append(file, Garbage)
      BY <1>0, <1>u, <1>n, <2>1, <2>3, AInvAppend
    <2>. QED
      BY <2>1, <2>2, <2>3
  <1>10. CASE Shutdown
    <2>1. /\ file' = file /\ confirmed' = confirmed /\ next' = next
          /\ disk' = disk \/ disk' = Len(file)
      BY <1>10, Zenon DEF Shutdown, Stop
    <2>. QED
      BY <1>0, <1>n, <2>1, AInvSameFile
  <1>11. CASE ProcessCrash
    <2>1. /\ \/ file' = file /\ next' = next
             \/ file' = Append(file, Partial) /\ next' = next + 1
             \/ file' = Append(file, Rec({next})) /\ next' = next + 1
          /\ disk' = disk /\ confirmed' = confirmed
      BY <1>11, Zenon DEF ProcessCrash, Stop
    <2>2. CASE file' = file /\ next' = next
      BY <1>0, <1>n, <2>1, <2>2, AInvSameFile
    <2>3. CASE file' = Append(file, Partial) /\ next' = next + 1
      BY <1>0, <1>u, <1>n, <2>1, <2>3, AInvAppend
    <2>4. CASE file' = Append(file, Rec({next})) /\ next' = next + 1
      BY <1>0, <1>u, <1>n, <2>1, <2>4, AInvAppend
    <2>. QED
      BY <2>1, <2>2, <2>3, <2>4
  <1>12. CASE PowerLoss
    BY <1>0, <1>12, AInvSynced DEF PowerLoss, Stop
  <1>13. CASE Startup
    <2>1. next' = next /\ confirmed' = confirmed
      BY <1>13, Zenon DEF Startup, StartFresh, StartClean, StartTorn, StartDamaged, Start
    <2>2. CASE StartFresh
      <3>1. file' \in {<<Header>>, <<>>} /\ disk' <= Len(file')
        BY <2>2 DEF StartFresh
      <3>2. Replayed(<<Header>>) = {} /\ Replayed(<<>>) = {}
        <4>1. \A I \in SUBSET {1} : MutsOf(<<Header>>, I) = {}
          BY DEF MutsOf, Header
        <4>2. Readable(<<Header>>) \subseteq {1}
          BY DEF Readable
        <4>. QED
          BY <4>1, <4>2 DEF Replayed, HasHeader
      <3>. QED
        BY <2>1, <3>1, <3>2, Zenon DEF AInv
    <2>3. CASE file' = file /\ disk' = disk
      BY <1>0, <1>n, <2>1, <2>3, AInvSameFile
    <2>4. CASE disk' = Len(file')
      BY <1>0, <2>1, <2>4, AInvSynced
    <2>. QED
      BY <1>13, <2>2, <2>3, <2>4, Zenon DEF Startup, StartClean, StartTorn, StartDamaged, fileVars
  <1>14. CASE UNCHANGED vars
    BY <1>0, <1>n, <1>14, AInvSameFile DEF vars
  <1>. QED
    BY <1>1, <1>2, <1>3, <1>4, <1>5, <1>6, <1>7, <1>8, <1>9, <1>10, <1>11, <1>12,
       <1>13, <1>14, Zenon DEF Next, AppendRecord, SyncWorker

(* Under the policy always a confirmed mutation that the file would        *)
(* restore is on stable storage, under every fault and every way a run may *)
(* end: append() returns true only behind its fdatasync.                   *)
THEOREM AlwaysIsDurableHolds == Spec => []AlwaysIsDurable
  <1>. DEFINE Inv == SyncPolicy = "always" => AInv
  <1>1. Init => Inv
    BY DEF Init, AInv, Replayed, HasHeader
  <1>2. SInv /\ SInv' /\ Inv /\ [Next]_vars => Inv'
    BY AInvStep
  <1>3. Inv => AlwaysIsDurable
    BY DEF AInv, AlwaysIsDurable
  <1>. HIDE DEF Inv
  <1>. QED
    BY SInvInit, SInvStep, <1>1, <1>2, <1>3, PTL DEF Spec

(* A step keeps what the published prefix of the file restores.            *)
LEMMA PublishedKept ==
  ASSUME SInv, CInv, DInv, up, [Next]_vars
  PROVE  ReplayedUpTo(file, synced) \subseteq Replayed(file')
  <1>0. /\ file \in Seq(Unit) /\ synced \in Nat /\ disk \in Nat /\ next \in Nat
        /\ synced <= disk /\ disk <= Len(file) /\ orphan = "none"
    BY Zenon DEF SInv, StateOK, DInv
  <1>1. synced <= Len(file) /\ Len(file) \in Nat
    BY <1>0
  <1>2. ReplayedUpTo(file, synced) \subseteq Replayed(file)
    BY <1>0, <1>1, UpToGrows
  <1>3. CASE file' = file
    BY <1>2, <1>3
  <1>4. ASSUME NEW u \in Unit, u.kind # "header", file' = Append(file, u)
        PROVE  ReplayedUpTo(file, synced) \subseteq Replayed(file')
    <2>1. Replayed(file) \subseteq Replayed(Append(file, u))
      BY <1>0, <1>4, AppendUnit
    <2>. QED
      BY <1>2, <1>4, <2>1
  <1>5. /\ Partial \in Unit /\ Partial.kind # "header"
        /\ Rec({next}) \in Unit /\ (Rec({next})).kind # "header"
    BY <1>0 DEF Partial, Rec, Unit
  <1>6. CASE AppendRecord \/ ProcessCrash
    <2>1. \/ file' = file \/ file' = Append(file, Partial)
          \/ file' = Append(file, Rec({next}))
      BY <1>6, Zenon DEF AppendRecord, AppendRefused, AppendCannotOpen, AppendBuffered,
           AppendSynced, AppendSyncFails, AppendFails, AppendWritten, fileVars, ProcessCrash
    <2>. QED
      BY <1>3, <1>4, <1>5, <2>1, Zenon
  <1>7. CASE \/ SyncWorker \/ StartRewrite \/ ChildExits \/ AbortRewrite
             \/ OrphanExits \/ Shutdown
    BY <1>3, <1>7, Zenon DEF SyncWorker, SyncCapture, SyncSucceeds, SyncFails, SyncPublish,
         StartRewrite, ChildExits, AbortRewrite, OrphanExits, Shutdown, fileVars
  <1>8. CASE CommitRewrite
    BY <1>2, <1>8, CommitKeeps
  <1>9. CASE OrphanWrites
    BY <1>0, <1>9 DEF OrphanWrites
  <1>10. CASE PowerLoss
    <2>1. PICK n \in disk..Len(file) : \/ file' = SubSeq(file, 1, n)
                                       \/ file' = Append(SubSeq(file, 1, n), Partial)
      BY <1>10 DEF PowerLoss
    <2>. DEFINE g == SubSeq(file, 1, n)
    <2>2. n \in Nat /\ n <= Len(file) /\ synced <= n /\ n \in 0..Len(file)
      BY <1>0, <1>1
    <2>3. ReplayedUpTo(file, synced) \subseteq Replayed(g)
      BY <1>0, <2>2, CutKeepsUpTo
    <2>4. g \in Seq(Unit) /\ 0 \in Nat /\ 0 <= Len(g)
      BY <1>0, <2>2, SubSeqType
    <2>. HIDE DEF g
    <2>5. Replayed(g) \subseteq Replayed(Append(g, Partial))
      BY <1>5, <2>4, AppendUnit
    <2>6. file' = g \/ file' = Append(g, Partial)
      BY <2>1 DEF g
    <2>. QED
      BY <2>3, <2>5, <2>6, Zenon
  <1>11. CASE Startup
    BY <1>11, Zenon DEF Startup, StartFresh, StartClean, StartTorn, StartDamaged, Start
  <1>12. CASE UNCHANGED vars
    BY <1>3, <1>12, Zenon DEF vars
  <1>. QED
    BY <1>6, <1>7, <1>8, <1>9, <1>10, <1>11, <1>12, Zenon DEF Next

(* Nothing takes back a mutation of the prefix that synced_ reports: not a *)
(* power loss, and not a rewrite that replaces the file while the sync     *)
(* thread is between its fdatasync and its publication.                    *)
THEOREM SyncedPrefixSurvivesHolds ==
  ASSUME HandledFaults
  PROVE  Spec => SyncedPrefixSurvives
  <1>. DEFINE Inv == PageCacheWasLost => DInv
              Kept == PageCacheWasLost /\ up => ReplayedUpTo(file, synced) \subseteq Replayed(file')
  <1>1. Init => Inv
    BY DEF Init, DInv, NoSync
  <1>2. SInv /\ SInv' /\ Inv /\ [Next]_vars => Inv'
    BY DInvStep, EndedGrows, Zenon DEF PageCacheWasLost
  <1>3. SInv /\ CInv /\ [Next]_vars => CInv'
    BY CInvStep
  <1>4. SInv /\ CInv /\ Inv /\ [Next]_vars => [Kept]_vars
    BY PublishedKept
  <1>. HIDE DEF Inv, Kept
  <1>5. Spec => [][Kept]_vars
    BY SInvInit, SInvStep, CInvInit, <1>1, <1>2, <1>3, <1>4, PTL DEF Spec
  <1>. QED
    BY <1>5 DEF SyncedPrefixSurvives, Kept
=============================================================================
