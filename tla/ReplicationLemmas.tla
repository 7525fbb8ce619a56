------------------------- MODULE ReplicationLemmas --------------------------
(***************************************************************************)
(* What the actions of Replication do to the state, for every set of nodes *)
(* and rooms and every value of the bounds, and the two invariants that    *)
(* the proofs share.                                                       *)
(***************************************************************************)
EXTENDS Replication, TLAPS

(* every set of numbers has a least one: a fact of arithmetic that the     *)
(* lemmas assume and ReplicationProofs proves                              *)
LeastNumber == \A T \in SUBSET Nat : T # {} => \E x \in T : \A y \in T : x <= y

(* Min of a set of numbers is its least one.                               *)
LEMMA MinOf ==
  ASSUME LeastNumber, NEW T \in SUBSET Nat, T # {}
  PROVE  Min(T) \in T /\ \A y \in T : Min(T) <= y
<1>1. PICK x \in T : \A y \in T : x <= y
  BY Zenon DEF LeastNumber
<1>. QED
  BY <1>1, Zenon DEF Min

(* A set of numbers that has a bound has a greatest one.                   *)
LEMMA MaxOf ==
  ASSUME LeastNumber, NEW T \in SUBSET Nat, T # {}, NEW b \in Nat, \A y \in T : y <= b
  PROVE  Max(T) \in T /\ \A y \in T : y <= Max(T)
<1>. DEFINE D == {b - y : y \in T}
<1>0. \A y \in T : b - y \in Nat
  OBVIOUS
<1>1. D \in SUBSET Nat /\ D # {}
  BY <1>0, Zenon
<1>2. \A y \in T : b - y \in D
  OBVIOUS
<1>3. \A d \in D : \E y \in T : d = b - y
  OBVIOUS
<1>. HIDE DEF D
<1>4. Min(D) \in D /\ \A d \in D : Min(D) <= d
  BY <1>1, MinOf
<1>5. PICK x \in T : Min(D) = b - x
  BY <1>3, <1>4
<1>6. \A y \in T : y <= x
  BY <1>2, <1>4, <1>5
<1>. QED
  BY <1>6, Zenon DEF Max

(* Versions are totally ordered.                                           *)
LEMMA NewerIsOrder ==
  ASSUME NEW u \in Version, NEW v \in Version, NEW w \in Version
  PROVE  /\ ~Newer(u, v) /\ ~Newer(v, u) => u = v
         /\ ~Newer(u, v) /\ ~Newer(v, w) => ~Newer(u, w)
         /\ Newer(u, v) => ~Newer(v, u)
         /\ ~Newer(u, v) => u.ts <= v.ts
<1>1. /\ u.ts \in Nat /\ v.ts \in Nat /\ w.ts \in Nat
      /\ u.node \in Nat /\ v.node \in Nat /\ w.node \in Nat
  BY NodesAssumption, Zenon DEF Version
<1>2. u.ts = v.ts /\ u.node = v.node => u = v
  BY DEF Version
<1>. QED
  BY <1>1, <1>2 DEF Newer

(* Of the entries of a log at some positions one is the newest.            *)
LEMMA NewestOf ==
  ASSUME LeastNumber, NEW s \in Seq(Entries), NEW I \in SUBSET DOMAIN s, I # {}
  PROVE  \E i \in I : \A j \in I : ~Newer(s[j].ver, s[i].ver)
<1>. DEFINE Top(k) == \E i \in I : i <= k /\ \A j \in I : j <= k => ~Newer(s[j].ver, s[i].ver)
            T == {k \in Nat : (\E i \in I : i <= k) /\ ~Top(k)}
<1>0. DOMAIN s = 1..Len(s) /\ Len(s) \in Nat /\ \A i \in I : i \in Nat /\ i # 0
  OBVIOUS
<1>01. ASSUME NEW i \in I
       PROVE  s[i].ver \in Version
  <2>1. s[i] \in Entries
    OBVIOUS
  <2>. QED
    BY <2>1 DEF Entries
<1>02. \A i \in I : ~Newer(s[i].ver, s[i].ver)
  BY <1>01, NewerIsOrder
<1>1. SUFFICES ASSUME T # {}
               PROVE  FALSE
  <2>1. \E i \in I : i <= Len(s)
    BY <1>0
  <2>2. Len(s) \notin T
    BY <1>1
  <2>3. Top(Len(s))
    BY <1>0, <2>1, <2>2
  <2>. QED
    BY <1>0, <2>3
<1>2. T \in SUBSET Nat
  OBVIOUS
<1>. DEFINE k == Min(T)
<1>3. k \in T /\ \A y \in T : k <= y
  <2>. HIDE DEF T
  <2>. QED
    BY <1>1, <1>2, MinOf
<1>4. k \in Nat /\ (\E i \in I : i <= k) /\ ~Top(k)
  BY <1>3, Zenon
<1>. HIDE DEF k, T
<1>5. k - 1 \notin T
  BY <1>3, <1>4
<1>6. k # 0
  BY <1>0, <1>4
<1>7. k - 1 \in Nat /\ ((\E i \in I : i <= k - 1) => Top(k - 1))
  <2>1. k - 1 \in Nat
    BY <1>4, <1>6
  <2>. QED
    BY <1>5, <2>1 DEF T
<1>8. CASE ~ \E i \in I : i <= k - 1
  <2>1. \A i \in I : i <= k => i = k
    BY <1>0, <1>4, <1>7, <1>8
  <2>2. PICK i \in I : i <= k
    BY <1>4
  <2>3. i = k /\ \A j \in I : j <= k => ~Newer(s[j].ver, s[i].ver)
    BY <1>02, <2>1, <2>2
  <2>. QED
    BY <1>4, <2>2, <2>3
<1>9. CASE \E i \in I : i <= k - 1
  <2>1. PICK i \in I : i <= k - 1 /\ \A j \in I : j <= k - 1 => ~Newer(s[j].ver, s[i].ver)
    BY <1>7, <1>9
  <2>2. CASE k \in I /\ Newer(s[k].ver, s[i].ver)
    <3>1. \A j \in I : j <= k => ~Newer(s[j].ver, s[k].ver)
      <4>1. SUFFICES ASSUME NEW j \in I, j <= k
                     PROVE  ~Newer(s[j].ver, s[k].ver)
        OBVIOUS
      <4>2. CASE j = k
        BY <1>02, <4>2
      <4>3. CASE j <= k - 1
        BY <1>01, <2>1, <2>2, <4>3, NewerIsOrder
      <4>. QED
        BY <1>0, <1>4, <4>1, <4>2, <4>3
    <3>. QED
      BY <1>0, <1>4, <2>2, <3>1
  <2>3. CASE ~(k \in I /\ Newer(s[k].ver, s[i].ver))
    <3>1. \A j \in I : j <= k => ~Newer(s[j].ver, s[i].ver)
      <4>1. \A j \in I : j <= k => j = k \/ j <= k - 1
        BY <1>0, <1>4
      <4>. QED
        BY <2>1, <2>3, <4>1, Zenon
    <3>2. i <= k
      BY <1>0, <1>4, <2>1
    <3>. QED
      BY <1>4, <3>1, <3>2
  <2>. QED
    BY <2>2, <2>3
<1>. QED
  BY <1>8, <1>9

-----------------------------------------------------------------------------
(* The type invariant, under every fault.                                  *)

(* no version a node stores is above its clock, which is what lets replay  *)
(* find the highest                                                        *)
Stamped ==
  \A n \in Nodes :
    /\ \A i \in DOMAIN aof[n] : aof[n][i].ver.ts <= clock[n]
    /\ \A r \in Rooms : /\ db[n][r] # None => db[n][r].ts <= clock[n]
                        /\ tomb[n][r] # None => tomb[n][r].ts <= clock[n]

(* a batch lies within the log it was read from, if that is still the log  *)
CursorOK(n, m) ==
  /\ peer[n][m].ino <= inode[n]
  /\ link[n][m].bad <= Len(link[n][m].buf)
  /\ peer[n][m].ino = inode[n] => peer[n][m].off + Len(link[n][m].buf) <= Len(aof[n])

TInv == TypeOK /\ Stamped /\ \A n, m \in Nodes : CursorOK(n, m)

(* The parts of a batch and of a cursor.                                   *)
LEMMA BatchFacts ==
  ASSUME TypeOK, NEW n \in Nodes, NEW m \in Nodes
  PROVE  /\ link[n][m].buf \in Seq(Entries) /\ Len(link[n][m].buf) \in Nat
         /\ DOMAIN link[n][m].buf = 1..Len(link[n][m].buf)
         /\ link[n][m].fr \in Nat /\ link[n][m].done \in Nat /\ link[n][m].bad \in Nat
         /\ link[n][m].room \in Rooms \cup {None}
         /\ link[n][m].pc \in {"idle", "read", "sent"}
         /\ peer[n][m].ino \in Nat /\ peer[n][m].off \in Nat
         /\ peer[n][m].room \in Rooms \cup {None}
         /\ aof[n] \in Seq(Entries) /\ Len(aof[n]) \in Nat /\ inode[n] \in Nat
         /\ DOMAIN aof[n] = 1..Len(aof[n])
<1>1. link[n][m] \in Batches /\ peer[n][m] \in Cursor /\ aof[n] \in Seq(Entries) /\ inode[n] \in Nat
  BY DEF TypeOK
<1>. QED
  BY <1>1 DEF Batches, Cursor

(* The next entry to be answered is one of the batch.                      *)
LEMMA NextUpIsPending ==
  ASSUME LeastNumber, TypeOK, NEW n \in Nodes, NEW m \in Nodes, Pending(n, m) # {}
  PROVE  /\ NextUp(n, m) \in Pending(n, m)
         /\ \A j \in Pending(n, m) : NextUp(n, m) <= j
         /\ NextUp(n, m) \in 1..Len(link[n][m].buf)
         /\ Sent(n, m) \in Entries
         /\ Sent(n, m).ver.node = n
<1>0. link[n][m].buf \in Seq(Entries) /\ DOMAIN link[n][m].buf = 1..Len(link[n][m].buf)
  BY BatchFacts
<1>1. Pending(n, m) \in SUBSET (1..Len(link[n][m].buf))
  BY <1>0 DEF Pending, Ours
<1>2. Pending(n, m) \in SUBSET Nat
  BY <1>1
<1>3. NextUp(n, m) \in Pending(n, m) /\ \A j \in Pending(n, m) : NextUp(n, m) <= j
  BY <1>2, MinOf DEF NextUp
<1>4. NextUp(n, m) \in 1..Len(link[n][m].buf)
  BY <1>1, <1>3
<1>5. Sent(n, m) \in Entries
  BY <1>0, <1>4 DEF Sent
<1>6. Sent(n, m).ver.node = n
  BY <1>3 DEF Sent, Pending, Ours
<1>. QED
  BY <1>3, <1>4, <1>5, <1>6

(* When a connection is lost the cursor moves within the batch, and only   *)
(* over entries of other nodes.                                            *)
LEMMA OffsetAfterLossWithin ==
  ASSUME LeastNumber, TypeOK, NEW n \in Nodes, NEW m \in Nodes
  PROVE  /\ OffsetAfterLoss(n, m) \in Nat
         /\ peer[n][m].off <= OffsetAfterLoss(n, m)
         /\ OffsetAfterLoss(n, m) <= peer[n][m].off + Len(link[n][m].buf)
         /\ \A j \in 1..Len(link[n][m].buf) :
              peer[n][m].off + j <= OffsetAfterLoss(n, m) => link[n][m].buf[j].ver.node # n
<1>0. /\ peer[n][m].off \in Nat /\ Len(link[n][m].buf) \in Nat
      /\ DOMAIN link[n][m].buf = 1..Len(link[n][m].buf)
  BY BatchFacts
<1>1. /\ Ours(n, m) \in SUBSET (1..Len(link[n][m].buf))
      /\ \A j \in 1..Len(link[n][m].buf) : link[n][m].buf[j].ver.node = n => j \in Ours(n, m)
  BY <1>0 DEF Ours
<1>2. CASE Ours(n, m) = {}
  <2>1. OffsetAfterLoss(n, m) = peer[n][m].off + Len(link[n][m].buf)
    BY <1>2 DEF OffsetAfterLoss
  <2>2. \A j \in 1..Len(link[n][m].buf) : link[n][m].buf[j].ver.node # n
    BY <1>1, <1>2, Zenon
  <2>3. \A a, b \in Nat : a + b \in Nat /\ a <= a + b /\ a + b <= a + b
    OBVIOUS
  <2>. QED
    BY <1>0, <2>1, <2>2, <2>3, Zenon
<1>3. CASE Ours(n, m) # {}
  <2>1. Ours(n, m) \in SUBSET Nat
    BY <1>1
  <2>2. Min(Ours(n, m)) \in Ours(n, m) /\ \A j \in Ours(n, m) : Min(Ours(n, m)) <= j
    BY <1>3, <2>1, MinOf
  <2>3. Min(Ours(n, m)) \in 1..Len(link[n][m].buf)
    BY <1>1, <2>2
  <2>4. OffsetAfterLoss(n, m) = peer[n][m].off + (Min(Ours(n, m)) - 1)
    BY <1>3 DEF OffsetAfterLoss
  <2>5. ASSUME NEW j \in 1..Len(link[n][m].buf), peer[n][m].off + j <= OffsetAfterLoss(n, m)
        PROVE  link[n][m].buf[j].ver.node # n
    <3>1. ~(Min(Ours(n, m)) <= j)
      BY <1>0, <2>3, <2>4, <2>5
    <3>. QED
      BY <1>1, <2>2, <3>1, Zenon
  <2>6. /\ OffsetAfterLoss(n, m) \in Nat
        /\ peer[n][m].off <= OffsetAfterLoss(n, m)
        /\ OffsetAfterLoss(n, m) <= peer[n][m].off + Len(link[n][m].buf)
    BY <1>0, <2>3, <2>4
  <2>. QED
    BY <2>5, <2>6
<1>. QED
  BY <1>2, <1>3

(* Setting one cell of a table leaves the others.                          *)
LEMMA SetCell ==
  ASSUME NEW S, NEW f \in [Nodes -> [Nodes -> S]], NEW n \in Nodes, NEW m \in Nodes, NEW x \in S
  PROVE  /\ [f EXCEPT ![n][m] = x] \in [Nodes -> [Nodes -> S]]
         /\ [f EXCEPT ![n][m] = x][n][m] = x
         /\ \A p, q \in Nodes : p # n \/ q # m => [f EXCEPT ![n][m] = x][p][q] = f[p][q]
  OBVIOUS

(* the thread of (n, m) leaves the state of the others alone               *)
Elsewhere(n, m) ==
  \A p, q \in Nodes : p # n \/ q # m =>
    link'[p][q] = link[p][q] /\ peer'[p][q] = peer[p][q]

(* An idle link carries an empty batch.                                    *)
LEMMA NoBatchType ==
  NoBatch \in Batches
<1>1. <<>> \in Seq(Entries)
  OBVIOUS
<1>. QED
  BY <1>1 DEF NoBatch, Batches

(* A thread saves the cursor of one peer.                                  *)
LEMMA SetPeerEffect ==
  ASSUME peer \in [Nodes -> [Nodes -> Cursor]], NEW n \in Nodes, NEW m \in Nodes,
         NEW ino \in Nat, NEW off \in Nat, NEW room \in Rooms \cup {None},
         SetPeer(n, m, ino, off, room)
  PROVE  /\ peer' \in [Nodes -> [Nodes -> Cursor]]
         /\ peer'[n][m].ino = ino /\ peer'[n][m].off = off /\ peer'[n][m].room = room
         /\ \A p, q \in Nodes : p # n \/ q # m => peer'[p][q] = peer[p][q]
<1>. DEFINE c == [ino |-> ino, off |-> off, room |-> room]
<1>1. c \in Cursor /\ c.ino = ino /\ c.off = off /\ c.room = room
  BY DEF Cursor
<1>2. peer' = [peer EXCEPT ![n][m] = c]
  BY DEF SetPeer
<1>. HIDE DEF c
<1>. QED
  BY <1>1, <1>2, SetCell

(* What the steps of a thread do to its batch and its cursor.              *)
LEMMA ReadFrontierEffect ==
  ASSUME TypeOK, NEW n \in Nodes, NEW m \in Nodes, ReadFrontier(n, m)
  PROVE  /\ link' \in [Nodes -> [Nodes -> Batches]] /\ peer' \in [Nodes -> [Nodes -> Cursor]]
         /\ Elsewhere(n, m) /\ peer'[n][m] = peer[n][m]
         /\ link'[n][m].pc = "read" /\ link'[n][m].fr = frontier[n]
         /\ link'[n][m].buf = <<>> /\ link'[n][m].bad = 0 /\ link'[n][m].done = 0
<1>. DEFINE b == [NoBatch EXCEPT !.pc = "read", !.fr = frontier[n]]
<1>1. link' = [link EXCEPT ![n][m] = b] /\ peer' = peer
  BY DEF ReadFrontier, SetLink
<1>2. frontier[n] \in Nat /\ link \in [Nodes -> [Nodes -> Batches]] /\ peer \in [Nodes -> [Nodes -> Cursor]]
  BY DEF TypeOK
<1>3. /\ b \in Batches
      /\ b.pc = "read" /\ b.fr = frontier[n] /\ b.buf = <<>> /\ b.bad = 0 /\ b.done = 0
  <2>1. /\ NoBatch.buf = <<>> /\ NoBatch.bad = 0 /\ NoBatch.done = 0
    BY DEF NoBatch
  <2>. QED
    BY <1>2, <2>1, NoBatchType, Zenon DEF Batches
<1>. HIDE DEF b
<1>. QED
  BY <1>1, <1>2, <1>3, SetCell DEF Elsewhere

(* What SubSeq cuts out of a sequence.                                     *)
LEMMA PartOf ==
  ASSUME NEW S, NEW s \in Seq(S), NEW a \in Nat, NEW b \in Nat, a <= b, b <= Len(s)
  PROVE  /\ SubSeq(s, a + 1, b) \in Seq(S) /\ Len(SubSeq(s, a + 1, b)) = b - a
         /\ \A j \in 1..(b - a) : SubSeq(s, a + 1, b)[j] = s[a + j]
<1>1. Len(s) \in Nat
  OBVIOUS
<1>2. Len(SubSeq(s, a + 1, b)) = b - a
  BY <1>1
<1>3. SubSeq(s, a + 1, b) \in Seq(S)
  BY <1>1
<1>4. ASSUME NEW j \in 1..(b - a)
      PROVE  SubSeq(s, a + 1, b)[j] = s[a + j]
  BY <1>1
<1>. QED
  BY <1>2, <1>3, <1>4, Zenon

(* A batch is read from the log, from the cursor on.                       *)
LEMMA BuildBatchEffect ==
  ASSUME TypeOK, NEW n \in Nodes, NEW m \in Nodes, BuildBatch(n, m)
  PROVE  /\ link' \in [Nodes -> [Nodes -> Batches]] /\ peer' \in [Nodes -> [Nodes -> Cursor]]
         /\ Elsewhere(n, m)
         /\ peer'[n][m].ino = inode[n] /\ peer'[n][m].off = Offset(n, m)
         /\ peer'[n][m].room = peer[n][m].room
         /\ link'[n][m].pc = "sent" /\ link'[n][m].bad = 0 /\ link'[n][m].done = 0
         /\ link'[n][m].room = peer[n][m].room
         /\ Offset(n, m) + Len(link'[n][m].buf) <= Len(aof[n])
         /\ \A j \in DOMAIN link'[n][m].buf : link'[n][m].buf[j] = aof[n][Offset(n, m) + j]
         /\ \/ link'[n][m].fr = 0
            \/ /\ link'[n][m].fr = link[n][m].fr
               /\ Offset(n, m) + Len(link'[n][m].buf) = Len(aof[n])
<1>. DEFINE off == Offset(n, m)
            upto == IF Len(aof[n]) - off > MaxBatch THEN off + MaxBatch ELSE Len(aof[n])
            b == [pc |-> "sent", buf |-> SubSeq(aof[n], off + 1, upto),
                  fr |-> IF upto = Len(aof[n]) THEN link[n][m].fr ELSE 0,
                  room |-> peer[n][m].room, done |-> 0, bad |-> 0]
<1>1. /\ link' = [link EXCEPT ![n][m] = b]
      /\ SetPeer(n, m, inode[n], off, peer[n][m].room)
  BY DEF BuildBatch, SetLink
<1>2. link \in [Nodes -> [Nodes -> Batches]] /\ peer \in [Nodes -> [Nodes -> Cursor]]
  BY DEF TypeOK
<1>3. /\ link[n][m].fr \in Nat /\ peer[n][m].room \in Rooms \cup {None}
      /\ peer[n][m].off \in Nat /\ inode[n] \in Nat /\ aof[n] \in Seq(Entries) /\ Len(aof[n]) \in Nat
  BY BatchFacts
<1>4. off \in Nat /\ off <= Len(aof[n])
  BY <1>3 DEF Offset, TypeOK
<1>. HIDE DEF off
<1>5. upto \in Nat /\ off <= upto /\ upto <= Len(aof[n])
  BY <1>3, <1>4, BoundsAssumption
<1>6. b.buf = SubSeq(aof[n], off + 1, upto) /\ b.pc = "sent" /\ b.bad = 0 /\ b.done = 0 /\ b.room = peer[n][m].room
  BY Zenon
<1>7. b.fr = 0 \/ (b.fr = link[n][m].fr /\ upto = Len(aof[n]))
  OBVIOUS
<1>. HIDE DEF upto
<1>8. /\ SubSeq(aof[n], off + 1, upto) \in Seq(Entries)
      /\ Len(SubSeq(aof[n], off + 1, upto)) = upto - off
      /\ \A j \in 1..(upto - off) : SubSeq(aof[n], off + 1, upto)[j] = aof[n][off + j]
  <2>1. aof[n] \in Seq(Entries)
    BY <1>3, Zenon
  <2>. QED
    BY <1>4, <1>5, <2>1, PartOf, ZenonT(30)
<1>9. b \in Batches
  BY <1>3, <1>8 DEF Batches
<1>10. /\ off + Len(b.buf) = upto
       /\ \A j \in DOMAIN b.buf : b.buf[j] = aof[n][off + j]
  BY <1>4, <1>5, <1>6, <1>8
<1>. HIDE DEF b
<1>11. /\ link' \in [Nodes -> [Nodes -> Batches]] /\ link'[n][m] = b
       /\ \A p, q \in Nodes : p # n \/ q # m => link'[p][q] = link[p][q]
  BY <1>1, <1>2, <1>9, SetCell
<1>12. /\ peer' \in [Nodes -> [Nodes -> Cursor]]
       /\ peer'[n][m].ino = inode[n] /\ peer'[n][m].off = off /\ peer'[n][m].room = peer[n][m].room
       /\ \A p, q \in Nodes : p # n \/ q # m => peer'[p][q] = peer[p][q]
  BY <1>1, <1>2, <1>3, <1>4, SetPeerEffect
<1>13. Elsewhere(n, m)
  BY <1>11, <1>12 DEF Elsewhere
<1>. QED
  BY <1>5, <1>6, <1>7, <1>10, <1>11, <1>12, <1>13, Zenon DEF off

(* A batch that is over moves the cursor behind what was acknowledged.     *)
LEMMA BatchDoneEffect ==
  ASSUME TInv, NEW n \in Nodes, NEW m \in Nodes, BatchDone(n, m)
  PROVE  /\ link' \in [Nodes -> [Nodes -> Batches]] /\ peer' \in [Nodes -> [Nodes -> Cursor]]
         /\ Elsewhere(n, m) /\ link'[n][m] = NoBatch
         /\ peer'[n][m].ino = peer[n][m].ino /\ peer'[n][m].off = OffsetAfter(n, m)
         /\ peer'[n][m].room = IF link[n][m].bad = 0 THEN link[n][m].room ELSE None
         /\ OffsetAfter(n, m) \in Nat
         /\ OffsetAfter(n, m) <= peer[n][m].off + Len(link[n][m].buf)
<1>1. /\ link' = [link EXCEPT ![n][m] = NoBatch]
      /\ SetPeer(n, m, peer[n][m].ino, OffsetAfter(n, m),
                 IF link[n][m].bad = 0 THEN link[n][m].room ELSE None)
  BY DEF BatchDone, SetLink
<1>2. link \in [Nodes -> [Nodes -> Batches]] /\ peer \in [Nodes -> [Nodes -> Cursor]]
  BY DEF TInv, TypeOK
<1>3. /\ link[n][m].room \in Rooms \cup {None} /\ link[n][m].bad \in Nat
      /\ peer[n][m].off \in Nat /\ Len(link[n][m].buf) \in Nat
      /\ peer[n][m].ino \in Nat
  BY BatchFacts DEF TInv
<1>4. link[n][m].bad <= Len(link[n][m].buf)
  BY DEF TInv, CursorOK
<1>5. /\ OffsetAfter(n, m) \in Nat
      /\ OffsetAfter(n, m) <= peer[n][m].off + Len(link[n][m].buf)
  <2>1. CASE link[n][m].bad = 0
    <3>1. OffsetAfter(n, m) = peer[n][m].off + Len(link[n][m].buf)
      BY <2>1 DEF OffsetAfter
    <3>. QED
      BY <1>3, <3>1
  <2>2. CASE link[n][m].bad # 0
    <3>1. OffsetAfter(n, m) = peer[n][m].off + (link[n][m].bad - 1)
      BY <2>2 DEF OffsetAfter
    <3>. QED
      BY <1>3, <1>4, <2>2, <3>1
  <2>. QED
    BY <2>1, <2>2
<1>6. /\ link' \in [Nodes -> [Nodes -> Batches]] /\ link'[n][m] = NoBatch
      /\ \A p, q \in Nodes : p # n \/ q # m => link'[p][q] = link[p][q]
  BY <1>1, <1>2, NoBatchType, SetCell
<1>7. /\ peer' \in [Nodes -> [Nodes -> Cursor]]
      /\ peer'[n][m].ino = peer[n][m].ino /\ peer'[n][m].off = OffsetAfter(n, m)
      /\ peer'[n][m].room = IF link[n][m].bad = 0 THEN link[n][m].room ELSE None
      /\ \A p, q \in Nodes : p # n \/ q # m => peer'[p][q] = peer[p][q]
  BY <1>1, <1>2, <1>3, <1>5, SetPeerEffect
<1>8. Elsewhere(n, m)
  BY <1>6, <1>7 DEF Elsewhere
<1>. QED
  BY <1>5, <1>6, <1>7, <1>8

(* A lost connection drops the batch and forgets the room of the peer.     *)
LEMMA ConnectionLostEffect ==
  ASSUME LeastNumber, TypeOK, NEW n \in Nodes, NEW m \in Nodes, ConnectionLost(n, m)
  PROVE  /\ link' \in [Nodes -> [Nodes -> Batches]] /\ peer' \in [Nodes -> [Nodes -> Cursor]]
         /\ Elsewhere(n, m) /\ link'[n][m] = NoBatch
         /\ peer'[n][m].ino = peer[n][m].ino /\ peer'[n][m].off = OffsetAfterLoss(n, m)
         /\ peer'[n][m].room = None
<1>1. /\ link' = [link EXCEPT ![n][m] = NoBatch]
      /\ SetPeer(n, m, peer[n][m].ino, OffsetAfterLoss(n, m), None)
  BY DEF ConnectionLost, SetLink, RoomAfterLoss
<1>2. link \in [Nodes -> [Nodes -> Batches]] /\ peer \in [Nodes -> [Nodes -> Cursor]]
  BY DEF TypeOK
<1>3. peer[n][m].ino \in Nat /\ OffsetAfterLoss(n, m) \in Nat
  BY BatchFacts, OffsetAfterLossWithin
<1>4. /\ link' \in [Nodes -> [Nodes -> Batches]] /\ link'[n][m] = NoBatch
      /\ \A p, q \in Nodes : p # n \/ q # m => link'[p][q] = link[p][q]
  BY <1>1, <1>2, NoBatchType, SetCell
<1>5. /\ peer' \in [Nodes -> [Nodes -> Cursor]]
      /\ peer'[n][m].ino = peer[n][m].ino /\ peer'[n][m].off = OffsetAfterLoss(n, m)
      /\ peer'[n][m].room = None
      /\ \A p, q \in Nodes : p # n \/ q # m => peer'[p][q] = peer[p][q]
  BY <1>1, <1>2, <1>3, SetPeerEffect
<1>6. Elsewhere(n, m)
  BY <1>4, <1>5 DEF Elsewhere
<1>. QED
  BY <1>4, <1>5, <1>6

(* A reply moves the batch on and leaves the cursor.                       *)
LEMMA RoomReplyEffect ==
  ASSUME LeastNumber, TypeOK, NEW n \in Nodes, NEW m \in Nodes, Pending(n, m) # {}, NEW bad \in Nat,
         RoomReply(n, m, bad), UNCHANGED peer
  PROVE  /\ link' \in [Nodes -> [Nodes -> Batches]] /\ Elsewhere(n, m)
         /\ link'[n][m].pc = link[n][m].pc /\ link'[n][m].fr = link[n][m].fr
         /\ link'[n][m].buf = link[n][m].buf /\ link'[n][m].bad = bad
         /\ link'[n][m].done = link[n][m].done /\ link'[n][m].room = Sent(n, m).room
<1>. DEFINE b == [link[n][m] EXCEPT !.room = Sent(n, m).room, !.bad = bad]
<1>1. link \in [Nodes -> [Nodes -> Batches]] /\ link[n][m] \in Batches
  BY DEF TypeOK
<1>2. NextUp(n, m) \in Nat /\ Sent(n, m).room \in Rooms
  BY NextUpIsPending DEF Entries
<1>3. link' = [link EXCEPT ![n][m] = b]
  BY DEF RoomReply, SetLink
<1>4. /\ b \in Batches /\ b.pc = link[n][m].pc /\ b.fr = link[n][m].fr /\ b.buf = link[n][m].buf
      /\ b.bad = bad /\ b.done = link[n][m].done /\ b.room = Sent(n, m).room
  BY <1>1, <1>2, Zenon DEF Batches
<1>. HIDE DEF b
<1>5. /\ link' \in [Nodes -> [Nodes -> Batches]] /\ link'[n][m] = b
      /\ \A p, q \in Nodes : p # n \/ q # m => link'[p][q] = link[p][q]
  BY <1>1, <1>3, <1>4, SetCell
<1>. QED
  BY <1>4, <1>5 DEF Elsewhere

(* The answer to a merge changes one link.                                 *)
LEMMA WriteReplyEffect ==
  ASSUME LeastNumber, TypeOK, NEW n \in Nodes, NEW m \in Nodes, Pending(n, m) # {}, NEW bad \in Nat,
         WriteReply(n, m, bad), UNCHANGED peer
  PROVE  /\ link' \in [Nodes -> [Nodes -> Batches]] /\ Elsewhere(n, m)
         /\ link'[n][m].pc = link[n][m].pc /\ link'[n][m].fr = link[n][m].fr
         /\ link'[n][m].buf = link[n][m].buf /\ link'[n][m].bad = bad
         /\ link'[n][m].done = NextUp(n, m) /\ link'[n][m].room = link[n][m].room
<1>. DEFINE b == [link[n][m] EXCEPT !.done = NextUp(n, m), !.bad = bad]
<1>1. link \in [Nodes -> [Nodes -> Batches]] /\ link[n][m] \in Batches
  BY DEF TypeOK
<1>2. NextUp(n, m) \in Nat /\ Sent(n, m).room \in Rooms
  BY NextUpIsPending DEF Entries
<1>3. link' = [link EXCEPT ![n][m] = b]
  BY DEF WriteReply, SetLink
<1>4. /\ b \in Batches /\ b.pc = link[n][m].pc /\ b.fr = link[n][m].fr /\ b.buf = link[n][m].buf
      /\ b.bad = bad /\ b.done = NextUp(n, m) /\ b.room = link[n][m].room
  BY <1>1, <1>2, Zenon DEF Batches
<1>. HIDE DEF b
<1>5. /\ link' \in [Nodes -> [Nodes -> Batches]] /\ link'[n][m] = b
      /\ \A p, q \in Nodes : p # n \/ q # m => link'[p][q] = link[p][q]
  BY <1>1, <1>3, <1>4, SetCell
<1>. QED
  BY <1>4, <1>5 DEF Elsewhere

(* The frontier leaves the batch once it is answered.                      *)
LEMMA FrontierReplyEffect ==
  ASSUME TypeOK, NEW n \in Nodes, NEW m \in Nodes, DeliverFrontier(n, m)
  PROVE  /\ link' \in [Nodes -> [Nodes -> Batches]] /\ Elsewhere(n, m)
         /\ link'[n][m].pc = link[n][m].pc /\ link'[n][m].fr = 0
         /\ link'[n][m].buf = link[n][m].buf /\ link'[n][m].bad = link[n][m].bad
         /\ link'[n][m].done = link[n][m].done /\ link'[n][m].room = link[n][m].room
<1>. DEFINE b == [link[n][m] EXCEPT !.fr = 0]
<1>1. link \in [Nodes -> [Nodes -> Batches]] /\ link[n][m] \in Batches
  BY DEF TypeOK
<1>2. link' = [link EXCEPT ![n][m] = b] /\ peer' = peer
  BY DEF DeliverFrontier, SetLink
<1>3. /\ b \in Batches /\ b.pc = link[n][m].pc /\ b.fr = 0 /\ b.buf = link[n][m].buf
      /\ b.bad = link[n][m].bad /\ b.done = link[n][m].done /\ b.room = link[n][m].room
  BY <1>1, Zenon DEF Batches
<1>. HIDE DEF b
<1>4. /\ link' \in [Nodes -> [Nodes -> Batches]] /\ link'[n][m] = b
      /\ \A p, q \in Nodes : p # n \/ q # m => link'[p][q] = link[p][q]
  BY <1>1, <1>2, <1>3, SetCell
<1>. QED
  BY <1>2, <1>3, <1>4 DEF Elsewhere

(* What a restart does to the batches and the cursors.                     *)
LEMMA RestartEffect ==
  ASSUME LeastNumber, TypeOK, NEW n \in Nodes, Restart(n)
  PROVE  /\ link' \in [Nodes -> [Nodes -> Batches]] /\ peer' \in [Nodes -> [Nodes -> Cursor]]
         /\ croom' \in [Nodes -> [Nodes -> Rooms]]
         /\ \A p, q \in Nodes :
              /\ peer'[p][q].ino = peer[p][q].ino
              /\ n \in {p, q} => /\ link'[p][q] = NoBatch /\ peer'[p][q].room = None
                                 /\ croom'[p][q] = Default
              /\ n \notin {p, q} => /\ link'[p][q] = link[p][q] /\ peer'[p][q] = peer[p][q]
                                    /\ croom'[p][q] = croom[p][q]
              /\ p = n => peer'[p][q].off = peer[p][q].off
              /\ p # n /\ q = n => peer'[p][q].off = OffsetAfterLoss(p, q)
<1>1. /\ link' = [p \in Nodes |-> [q \in Nodes |->
                    IF n \in {p, q} THEN NoBatch ELSE link[p][q]]]
      /\ peer' = [p \in Nodes |-> [q \in Nodes |->
                    IF p = n THEN [peer[p][q] EXCEPT !.room = None]
                    ELSE IF q = n THEN [peer[p][q] EXCEPT !.off = OffsetAfterLoss(p, q), !.room = None]
                    ELSE peer[p][q]]]
      /\ croom' = [p \in Nodes |-> [q \in Nodes |->
                     IF n \in {p, q} THEN Default ELSE croom[p][q]]]
  BY Zenon DEF Restart, RoomAfterLoss
<1>2. ASSUME NEW p \in Nodes, NEW q \in Nodes
      PROVE  /\ link[p][q] \in Batches /\ peer[p][q] \in Cursor /\ croom[p][q] \in Rooms
             /\ OffsetAfterLoss(p, q) \in Nat
  <2>1. OffsetAfterLoss(p, q) \in Nat
    BY OffsetAfterLossWithin
  <2>. QED
    BY <2>1 DEF TypeOK
<1>3. link' \in [Nodes -> [Nodes -> Batches]] /\ croom' \in [Nodes -> [Nodes -> Rooms]]
  BY <1>1, <1>2, NoBatchType, RoomsAssumption, Zenon
<1>4. ASSUME NEW p \in Nodes, NEW q \in Nodes
      PROVE  /\ peer'[p][q] \in Cursor /\ peer'[p][q].ino = peer[p][q].ino
             /\ n \in {p, q} => peer'[p][q].room = None
             /\ n \notin {p, q} => peer'[p][q] = peer[p][q]
             /\ p = n => peer'[p][q].off = peer[p][q].off
             /\ p # n /\ q = n => peer'[p][q].off = OffsetAfterLoss(p, q)
  <2>0. peer[p][q] \in Cursor /\ OffsetAfterLoss(p, q) \in Nat
    BY <1>2
  <2>1. CASE p = n
    <3>1. peer'[p][q] = [peer[p][q] EXCEPT !.room = None]
      BY <1>1, <2>1, Zenon
    <3>. QED
      BY <2>0, <2>1, <3>1 DEF Cursor
  <2>2. CASE p # n /\ q = n
    <3>1. peer'[p][q] = [peer[p][q] EXCEPT !.off = OffsetAfterLoss(p, q), !.room = None]
      BY <1>1, <2>2, Zenon
    <3>. QED
      BY <2>0, <2>2, <3>1, Zenon DEF Cursor
  <2>3. CASE p # n /\ q # n
    <3>1. peer'[p][q] = peer[p][q]
      BY <1>1, <2>3, Zenon
    <3>. QED
      BY <2>0, <2>3, <3>1
  <2>. QED
    BY <2>1, <2>2, <2>3
<1>5. peer' \in [Nodes -> [Nodes -> Cursor]]
  BY <1>1, <1>4, Zenon
<1>6. ASSUME NEW p \in Nodes, NEW q \in Nodes
      PROVE  /\ n \in {p, q} => link'[p][q] = NoBatch /\ croom'[p][q] = Default
             /\ n \notin {p, q} => link'[p][q] = link[p][q] /\ croom'[p][q] = croom[p][q]
  BY <1>1, Zenon
<1>. QED
  BY <1>3, <1>4, <1>5, <1>6

(* An executed entry is logged and decides the record of its room.         *)
LEMMA ApplyEffect ==
  ASSUME TypeOK, NEW n \in Nodes, NEW e \in Entries, Apply(n, e)
  PROVE  /\ db' \in [Nodes -> [Rooms -> Version \cup {None}]]
         /\ tomb' \in [Nodes -> [Rooms -> Version \cup {None}]]
         /\ aof' \in [Nodes -> Seq(Entries)] /\ aof'[n] = Append(aof[n], e)
         /\ \A p \in Nodes \ {n} : db'[p] = db[p] /\ tomb'[p] = tomb[p] /\ aof'[p] = aof[p]
         /\ \A r \in Rooms \ {e.room} : db'[n][r] = db[n][r] /\ tomb'[n][r] = tomb[n][r]
         /\ db'[n][e.room] = IF e.op = "put" THEN e.ver ELSE None
         /\ tomb'[n][e.room] =
              IF e.op = "del"
              THEN IF e.ver.ts <= watermark[n] THEN tomb[n][e.room]
                   ELSE IF tomb[n][e.room] # None /\ Newer(tomb[n][e.room], e.ver)
                        THEN tomb[n][e.room] ELSE e.ver
              ELSE IF db[n][e.room] = None THEN None ELSE tomb[n][e.room]
<1>1. e.room \in Rooms /\ e.ver \in Version /\ e.op \in {"put", "del"}
  BY DEF Entries
<1>2. /\ db \in [Nodes -> [Rooms -> Version \cup {None}]]
      /\ tomb \in [Nodes -> [Rooms -> Version \cup {None}]]
      /\ aof \in [Nodes -> Seq(Entries)]
  BY DEF TypeOK
<1>3. /\ db' \in [Nodes -> [Rooms -> Version \cup {None}]]
      /\ \A p \in Nodes \ {n} : db'[p] = db[p]
      /\ \A r \in Rooms \ {e.room} : db'[n][r] = db[n][r]
      /\ db'[n][e.room] = IF e.op = "put" THEN e.ver ELSE None
  BY <1>1, <1>2 DEF Apply
<1>4. /\ aof' \in [Nodes -> Seq(Entries)] /\ aof'[n] = Append(aof[n], e)
      /\ \A p \in Nodes \ {n} : aof'[p] = aof[p]
  BY <1>2 DEF Apply
<1>. DEFINE x == IF e.op = "del"
                 THEN IF e.ver.ts <= watermark[n] THEN tomb[n][e.room]
                      ELSE IF tomb[n][e.room] # None /\ Newer(tomb[n][e.room], e.ver)
                           THEN tomb[n][e.room] ELSE e.ver
                 ELSE IF db[n][e.room] = None THEN None ELSE tomb[n][e.room]
            tn == IF e.op = "del" THEN TombsAfterDelete(n, e)
                  ELSE IF db[n][e.room] = None THEN [tomb[n] EXCEPT ![e.room] = None]
                  ELSE tomb[n]
<1>5. x \in Version \cup {None}
  BY <1>1, <1>2
<1>6. tn = [tomb[n] EXCEPT ![e.room] = x]
  <2>1. CASE e.op = "del" /\ e.ver.ts <= watermark[n]
    BY <1>1, <1>2, <2>1 DEF TombsAfterDelete
  <2>2. CASE e.op = "del" /\ ~(e.ver.ts <= watermark[n])
    BY <1>1, <1>2, <2>2 DEF TombsAfterDelete
  <2>3. CASE e.op # "del"
    BY <1>1, <1>2, <2>3, Zenon
  <2>. QED
    BY <2>1, <2>2, <2>3
<1>7. tomb' = [tomb EXCEPT ![n] = tn]
  BY DEF Apply
<1>8. tomb' = [tomb EXCEPT ![n] = [tomb[n] EXCEPT ![e.room] = x]]
  BY <1>6, <1>7, Zenon
<1>. HIDE DEF x, tn
<1>9. /\ tomb' \in [Nodes -> [Rooms -> Version \cup {None}]]
      /\ \A p \in Nodes \ {n} : tomb'[p] = tomb[p]
      /\ \A r \in Rooms \ {e.room} : tomb'[n][r] = tomb[n][r]
      /\ tomb'[n][e.room] = x
  BY <1>1, <1>2, <1>5, <1>8, SMTT(20)
<1>. QED
  BY <1>3, <1>4, <1>9 DEF x

(* What replay makes of a log: the record of a room is that of its last    *)
(* entry, its tombstone the newest of its deletes, and the clock is above  *)
(* every entry.                                                            *)
LEMMA ReplayEffect ==
  ASSUME LeastNumber, TypeOK, Stamped, NEW n \in Nodes, NEW r \in Rooms
  PROVE  /\ EntriesOf(n, r) = {} => ReplayedRecord(n, r) = None /\ ReplayedTomb(n, r) = None
         /\ EntriesOf(n, r) # {} =>
              \E i \in EntriesOf(n, r) :
                /\ \A j \in EntriesOf(n, r) : j <= i
                /\ ReplayedRecord(n, r) = IF aof[n][i].op = "put" THEN aof[n][i].ver ELSE None
         /\ ReplayedTomb(n, r) # None =>
              \E i \in EntriesOf(n, r) : /\ aof[n][i].op = "del" /\ ReplayedTomb(n, r) = aof[n][i].ver
                                         /\ \A j \in EntriesOf(n, r) : aof[n][j].op = "del" =>
                                              ~Newer(aof[n][j].ver, aof[n][i].ver)
         /\ ReplayedTomb(n, r) = None => \A i \in EntriesOf(n, r) : aof[n][i].op # "del"
<1>0. /\ aof[n] \in Seq(Entries) /\ Len(aof[n]) \in Nat /\ DOMAIN aof[n] = 1..Len(aof[n])
  BY BatchFacts
<1>1. EntriesOf(n, r) \in SUBSET Nat /\ \A i \in EntriesOf(n, r) : i <= Len(aof[n])
  BY <1>0 DEF EntriesOf
<1>2. ASSUME EntriesOf(n, r) # {}
      PROVE  /\ Max(EntriesOf(n, r)) \in EntriesOf(n, r)
             /\ \A j \in EntriesOf(n, r) : j <= Max(EntriesOf(n, r))
  BY <1>0, <1>1, <1>2, MaxOf, Zenon
<1>3. EntriesOf(n, r) # {} =>
        \E i \in EntriesOf(n, r) :
          /\ \A j \in EntriesOf(n, r) : j <= i
          /\ ReplayedRecord(n, r) = IF aof[n][i].op = "put" THEN aof[n][i].ver ELSE None
  BY <1>2 DEF ReplayedRecord
<1>. DEFINE I == {j \in EntriesOf(n, r) : aof[n][j].op = "del"}
            D == {aof[n][i].ver : i \in I}
<1>4. ReplayedTomb(n, r) = IF D = {} THEN None ELSE CHOOSE v \in D : \A w \in D : ~Newer(w, v)
  BY DEF ReplayedTomb
<1>5. CASE I = {}
  <2>1. D = {}
    BY <1>5
  <2>2. ReplayedTomb(n, r) = None
    BY <1>4, <2>1
  <2>. QED
    BY <1>3, <1>5, <2>2 DEF ReplayedRecord
<1>6. CASE I # {}
  <2>1. I \in SUBSET DOMAIN aof[n]
    BY DEF EntriesOf
  <2>2. \E i \in I : \A j \in I : ~Newer(aof[n][j].ver, aof[n][i].ver)
    <3>. HIDE DEF I
    <3>. QED
      BY <1>0, <1>6, <2>1, NewestOf
  <2>3. \E v \in D : \A w \in D : ~Newer(w, v)
    BY <2>2
  <2>4. /\ ReplayedTomb(n, r) \in D
        /\ \A w \in D : ~Newer(w, ReplayedTomb(n, r))
    <3>. HIDE DEF D
    <3>. QED
      BY <1>4, <2>3
  <2>5. PICK i \in I : ReplayedTomb(n, r) = aof[n][i].ver
    BY <2>4
  <2>6. \A j \in I : ~Newer(aof[n][j].ver, aof[n][i].ver)
    BY <2>4, <2>5
  <2>7. i \in DOMAIN aof[n]
    BY <2>1
  <2>8. aof[n][i].ver \in Version
    <3>1. aof[n][i] \in Entries
      BY <1>0, <2>7
    <3>. QED
      BY <3>1 DEF Entries
  <2>9. ReplayedTomb(n, r) # None
    BY <2>5, <2>8, NoneAssumption
  <2>. QED
    BY <1>3, <1>6, <2>5, <2>6, <2>9
<1>. QED
  BY <1>5, <1>6

(* The clock after a replay is above every version of the log.             *)
LEMMA ReplayedClockIsAbove ==
  ASSUME LeastNumber, TypeOK, Stamped, NEW n \in Nodes
  PROVE  /\ ReplayedClock(n) \in Nat \ {0}
         /\ \A i \in DOMAIN aof[n] : aof[n][i].ver.ts < ReplayedClock(n)
<1>. DEFINE T == {0} \cup {aof[n][i].ver.ts : i \in DOMAIN aof[n]}
<1>0. aof[n] \in Seq(Entries) /\ clock[n] \in Nat
  BY DEF TypeOK
<1>1. \A i \in DOMAIN aof[n] : aof[n][i].ver.ts \in Nat /\ aof[n][i].ver.ts <= clock[n]
  <2>1. \A i \in DOMAIN aof[n] : aof[n][i] \in Entries
    BY <1>0
  <2>. QED
    BY <2>1 DEF Entries, Version, Stamped
<1>2. T \in SUBSET Nat /\ T # {} /\ \A y \in T : y <= clock[n]
  BY <1>0, <1>1
<1>3. \A i \in DOMAIN aof[n] : aof[n][i].ver.ts \in T
  OBVIOUS
<1>4. ReplayedClock(n) = Max(T) + 1
  BY DEF ReplayedClock
<1>. HIDE DEF T
<1>5. Max(T) \in T /\ \A y \in T : y <= Max(T)
  BY <1>0, <1>2, MaxOf, Zenon
<1>6. Max(T) \in Nat
  BY <1>2, <1>5, Zenon
<1>7. \A i \in DOMAIN aof[n] : aof[n][i].ver.ts <= Max(T)
  BY <1>3, <1>5, Zenon
<1>. QED
  BY <1>1, <1>4, <1>6, <1>7

(* A client write executes an entry of its node with the next version.     *)
LEMMA WriteEffect ==
  ASSUME TypeOK, NEW n \in Nodes, NEW r \in Rooms, NEW op \in {"put", "del"}, Write(n, r, op)
  PROVE  \E e \in Entries :
           /\ e.room = r /\ e.op = op /\ e.ver.node = n /\ n \in Live
           /\ Apply(n, e) /\ e.ver.ts > clock[n]
           /\ clock' = [clock EXCEPT ![n] = e.ver.ts]
           /\ heard' = [heard EXCEPT ![n] = @ \cup {e}]
           /\ UNCHANGED <<frontier, known, watermark, inode, linkVars, faults>>
<1>. DEFINE ts == NextVersion(n, Above(n, r))
            v == [ts |-> ts, node |-> n]
            e == Entry(op, r, v)
<1>1. clock[n] \in Nat /\ db[n][r] \in Version \cup {None} /\ tomb[n][r] \in Version \cup {None}
  BY DEF TypeOK
<1>2. Above(n, r) \in Nat
  BY <1>1 DEF Above, Version
<1>3. ts \in Nat /\ ts > clock[n]
  BY <1>1, <1>2 DEF NextVersion, Bigger
<1>4. /\ n \in Live /\ Apply(n, e)
      /\ clock' = [clock EXCEPT ![n] = ts]
      /\ heard' = [heard EXCEPT ![n] = @ \cup {e}]
      /\ UNCHANGED <<frontier, known, watermark, inode, linkVars, faults>>
  BY DEF Write
<1>. HIDE DEF ts
<1>5. v \in Version /\ v.ts = ts /\ v.node = n
  BY <1>3 DEF Version
<1>. HIDE DEF v
<1>6. e \in Entries /\ e.room = r /\ e.op = op /\ e.ver = v
  BY <1>5 DEF Entries, Entry
<1>. HIDE DEF e
<1>. QED
  BY <1>3, <1>4, <1>5, <1>6, Zenon

(* A merge is executed in the room of its connection, unless it is stale.  *)
LEMMA DeliverWriteEffect ==
  ASSUME LeastNumber, TypeOK, NEW n \in Nodes, NEW m \in Nodes, DeliverWrite(n, m)
  PROVE  \E e \in Entries, c \in Nat :
           /\ e.op = Sent(n, m).op /\ e.ver = Sent(n, m).ver /\ e.room = croom[m][n]
           /\ clock' = [clock EXCEPT ![m] = c] /\ clock[m] <= c /\ e.ver.ts <= c
           /\ heard' = [heard EXCEPT ![m] = @ \cup {e}]
           /\ \/ Stale(m, e.room, e.ver) /\ UNCHANGED <<db, tomb, aof>>
              \/ ~Stale(m, e.room, e.ver) /\ Apply(m, e)
           /\ UNCHANGED <<frontier, known, watermark, inode, peer, croom, faults>>
<1>. DEFINE e == Entry(Sent(n, m).op, croom[m][n], Sent(n, m).ver)
            c == Bigger(clock[m], Sent(n, m).ver.ts)
<1>0. Pending(n, m) # {}
  BY DEF DeliverWrite
<1>1. Sent(n, m) \in Entries
  BY <1>0, NextUpIsPending
<1>2. /\ Sent(n, m).op \in {"put", "del"} /\ Sent(n, m).ver \in Version /\ Sent(n, m).ver.ts \in Nat
      /\ croom[m][n] \in Rooms /\ clock[m] \in Nat
  BY <1>1 DEF Entries, Version, TypeOK
<1>3. e \in Entries /\ e.op = Sent(n, m).op /\ e.ver = Sent(n, m).ver /\ e.room = croom[m][n]
  BY <1>2 DEF Entries, Entry
<1>4. c \in Nat /\ clock[m] <= c /\ Sent(n, m).ver.ts <= c
  BY <1>2 DEF Bigger
<1>5. clock' = [clock EXCEPT ![m] = c]
  BY <1>3, Zenon DEF DeliverWrite, TypeOK
<1>6. /\ heard' = [heard EXCEPT ![m] = @ \cup {e}]
      /\ IF Stale(m, e.room, e.ver) THEN UNCHANGED <<db, tomb, aof>> ELSE Apply(m, e)
      /\ UNCHANGED <<frontier, known, watermark, inode, peer, croom, faults>>
  BY Zenon DEF DeliverWrite
<1>. HIDE DEF e, c
<1>. QED
  BY <1>3, <1>4, <1>5, <1>6, ZenonT(30)

(* A frontier is noted, the watermark follows the lowest of what the peers *)
(* announced, and the tombstones up to it are forgotten.                   *)
LEMMA DeliverFrontierEffect ==
  ASSUME LeastNumber, TypeOK, NEW n \in Nodes, NEW m \in Peers(n), DeliverFrontier(n, m)
  PROVE  /\ known' \in [Nodes -> [Nodes -> Nat]]
         /\ known'[m][n] = Bigger(known[m][n], link[n][m].fr)
         /\ \A p, q \in Nodes : p # m \/ q # n => known'[p][q] = known[p][q]
         /\ watermark' \in [Nodes -> Nat]
         /\ \A p \in Nodes \ {m} : watermark'[p] = watermark[p] /\ tomb'[p] = tomb[p]
         /\ watermark[m] <= watermark'[m]
         /\ watermark'[m] = watermark[m] \/ \A p \in Peers(m) : watermark'[m] <= known'[m][p]
         /\ tomb' \in [Nodes -> [Rooms -> Version \cup {None}]]
         /\ \A r \in Rooms : tomb'[m][r] =
              IF tomb[m][r] # None /\ tomb[m][r].ts <= watermark'[m] THEN None ELSE tomb[m][r]
         /\ clock' \in [Nodes -> Nat \ {0}] /\ frontier' \in [Nodes -> Nat \ {0}]
         /\ \A p \in Nodes : clock[p] <= clock'[p]
         /\ \A p \in Nodes : frontier'[p] = frontier[p] \/ frontier'[p] = clock'[p]
<1>0. /\ m \in Nodes /\ n \in Peers(m) /\ link[n][m].fr \in Nat
      /\ known \in [Nodes -> [Nodes -> Nat]] /\ watermark \in [Nodes -> Nat]
      /\ tomb \in [Nodes -> [Rooms -> Version \cup {None}]]
      /\ clock \in [Nodes -> Nat \ {0}] /\ frontier \in [Nodes -> Nat \ {0}]
  BY BatchFacts, Zenon DEF TypeOK, Peers
<1>. DEFINE k == [known[m] EXCEPT ![n] = Bigger(known[m][n], link[n][m].fr)]
            K == {k[p] : p \in Peers(m)}
            w == Bigger(watermark[m], Min(K))
<1>1. /\ known' = [known EXCEPT ![m] = k]
      /\ watermark' = [watermark EXCEPT ![m] = w]
      /\ tomb' = [tomb EXCEPT ![m] = [r \in Rooms |->
             IF tomb[m][r] # None /\ tomb[m][r].ts <= w THEN None ELSE tomb[m][r]]]
  BY <1>0 DEF DeliverFrontier
<1>2. Bigger(known[m][n], link[n][m].fr) \in Nat
  BY <1>0, Zenon DEF Bigger
<1>3. /\ k \in [Nodes -> Nat] /\ k[n] = Bigger(known[m][n], link[n][m].fr)
      /\ \A q \in Nodes \ {n} : k[q] = known[m][q]
  BY <1>0, <1>2
<1>. HIDE DEF k
<1>4. K \in SUBSET Nat /\ K # {} /\ \A p \in Peers(m) : k[p] \in K
  BY <1>0, <1>3 DEF Peers
<1>. HIDE DEF K
<1>5. Min(K) \in Nat /\ \A p \in Peers(m) : Min(K) <= k[p]
  <2>1. Min(K) \in K /\ \A y \in K : Min(K) <= y
    BY <1>4, MinOf
  <2>. QED
    BY <1>4, <2>1, Zenon
<1>6. w \in Nat /\ watermark[m] <= w /\ (w = watermark[m] \/ w = Min(K))
  BY <1>0, <1>5 DEF Bigger
<1>. HIDE DEF w
<1>7. /\ known' \in [Nodes -> [Nodes -> Nat]] /\ known'[m] = k
      /\ \A p \in Nodes \ {m} : known'[p] = known[p]
  BY <1>0, <1>1, <1>3, Zenon
<1>8. /\ watermark' \in [Nodes -> Nat] /\ watermark'[m] = w
      /\ \A p \in Nodes \ {m} : watermark'[p] = watermark[p]
  BY <1>0, <1>1, <1>6
<1>9. \A p \in Peers(m) : k[p] = known'[m][p]
  BY <1>7
<1>10. watermark'[m] = watermark[m] \/ \A p \in Peers(m) : watermark'[m] <= known'[m][p]
  BY <1>5, <1>6, <1>8, <1>9
<1>11. /\ tomb' \in [Nodes -> [Rooms -> Version \cup {None}]]
       /\ \A p \in Nodes \ {m} : tomb'[p] = tomb[p]
       /\ \A r \in Rooms : tomb'[m][r] =
            IF tomb[m][r] # None /\ tomb[m][r].ts <= w THEN None ELSE tomb[m][r]
  BY <1>0, <1>1
<1>12. /\ clock' = [clock EXCEPT ![m] = IF clock[m] < MaxTs THEN clock[m] + 1 ELSE clock[m]]
       /\ frontier' = [frontier EXCEPT ![m] = IF clock[m] < MaxTs THEN clock'[m] ELSE frontier[m]]
  BY <1>0 DEF DeliverFrontier
<1>13. /\ clock' \in [Nodes -> Nat \ {0}]
       /\ \A p \in Nodes : clock[p] <= clock'[p]
  BY <1>0, <1>12, BoundsAssumption
<1>14. /\ frontier' \in [Nodes -> Nat \ {0}]
       /\ \A p \in Nodes : frontier'[p] = frontier[p] \/ frontier'[p] = clock'[p]
  <2>1. clock'[m] \in Nat \ {0}
    BY <1>0, <1>13
  <2>. QED
    BY <1>0, <1>12, <2>1
<1>15. /\ known'[m][n] = Bigger(known[m][n], link[n][m].fr)
       /\ \A p, q \in Nodes : p # m \/ q # n => known'[p][q] = known[p][q]
  BY <1>0, <1>3, <1>7
<1>. QED
  BY <1>6, <1>7, <1>8, <1>10, <1>11, <1>13, <1>14, <1>15, Zenon

(* The state of the node that restarts.                                    *)
LEMMA RestartStore ==
  ASSUME LeastNumber, TypeOK, Stamped, NEW n \in Nodes, Restart(n)
  PROVE  /\ \E ts \in {ReplayedClock(n), clock[n] + 1} :
              /\ ts \in Nat \ {0}
              /\ ts > clock[n] \/ "skew" \in Faults
              /\ clock' = [clock EXCEPT ![n] = ts] /\ frontier' = [frontier EXCEPT ![n] = ts]
              /\ \A i \in DOMAIN aof[n] : aof[n][i].ver.ts <= ts
         /\ db' \in [Nodes -> [Rooms -> Version \cup {None}]]
         /\ tomb' \in [Nodes -> [Rooms -> Version \cup {None}]]
         /\ \A r \in Rooms : db'[n][r] = ReplayedRecord(n, r) /\ tomb'[n][r] = ReplayedTomb(n, r)
         /\ \A p \in Nodes \ {n} : db'[p] = db[p] /\ tomb'[p] = tomb[p]
         /\ \A r \in Rooms : /\ db'[n][r] # None => \E i \in EntriesOf(n, r) :
                                  aof[n][i].op = "put" /\ db'[n][r] = aof[n][i].ver
                             /\ tomb'[n][r] # None => \E i \in EntriesOf(n, r) :
                                  aof[n][i].op = "del" /\ tomb'[n][r] = aof[n][i].ver
<1>0. /\ db \in [Nodes -> [Rooms -> Version \cup {None}]]
      /\ tomb \in [Nodes -> [Rooms -> Version \cup {None}]]
      /\ clock[n] \in Nat /\ aof[n] \in Seq(Entries)
  BY DEF TypeOK
<1>1. PICK ts \in {ReplayedClock(n), clock[n] + 1} :
         /\ ts > clock[n] \/ "skew" \in Faults
         /\ clock' = [clock EXCEPT ![n] = ts] /\ frontier' = [frontier EXCEPT ![n] = ts]
  BY Zenon DEF Restart
<1>2. /\ db' = [db EXCEPT ![n] = [r \in Rooms |-> ReplayedRecord(n, r)]]
      /\ tomb' = [tomb EXCEPT ![n] = [r \in Rooms |-> ReplayedTomb(n, r)]]
  BY Zenon DEF Restart
<1>3. ASSUME NEW i \in DOMAIN aof[n]
      PROVE  aof[n][i].ver.ts \in Nat /\ aof[n][i].ver.ts <= clock[n] /\ aof[n][i].ver \in Version
  <2>1. aof[n][i] \in Entries
    BY <1>0
  <2>2. aof[n][i].ver \in Version /\ aof[n][i].ver.ts \in Nat
    BY <2>1 DEF Entries, Version
  <2>3. aof[n][i].ver.ts <= clock[n]
    BY Zenon DEF Stamped
  <2>. QED
    BY <2>2, <2>3, Zenon
<1>4. ReplayedClock(n) \in Nat \ {0} /\ \A i \in DOMAIN aof[n] : aof[n][i].ver.ts < ReplayedClock(n)
  BY ReplayedClockIsAbove
<1>5. ts \in Nat \ {0}
  BY <1>0, <1>1, <1>4
<1>6. \A i \in DOMAIN aof[n] : aof[n][i].ver.ts <= ts
  <2>1. CASE ts = ReplayedClock(n)
    BY <1>3, <1>4, <2>1
  <2>2. CASE ts = clock[n] + 1
    BY <1>0, <1>3, <2>2
  <2>. QED
    BY <1>1, <2>1, <2>2
<1>7. ASSUME NEW r \in Rooms
      PROVE  /\ ReplayedRecord(n, r) # None => \E i \in EntriesOf(n, r) :
                  aof[n][i].op = "put" /\ ReplayedRecord(n, r) = aof[n][i].ver
             /\ ReplayedTomb(n, r) # None => \E i \in EntriesOf(n, r) :
                  aof[n][i].op = "del" /\ ReplayedTomb(n, r) = aof[n][i].ver
  <2>1. ReplayedTomb(n, r) # None => \E i \in EntriesOf(n, r) :
                  aof[n][i].op = "del" /\ ReplayedTomb(n, r) = aof[n][i].ver
    BY ReplayEffect, Zenon
  <2>2. /\ EntriesOf(n, r) = {} => ReplayedRecord(n, r) = None
        /\ EntriesOf(n, r) # {} => \E i \in EntriesOf(n, r) :
              ReplayedRecord(n, r) = IF aof[n][i].op = "put" THEN aof[n][i].ver ELSE None
    BY ReplayEffect
  <2>. QED
    BY <2>1, <2>2
<1>8. \A r \in Rooms : EntriesOf(n, r) \subseteq DOMAIN aof[n]
  BY DEF EntriesOf
<1>9. \A r \in Rooms : /\ ReplayedRecord(n, r) \in Version \cup {None}
                       /\ ReplayedTomb(n, r) \in Version \cup {None}
  BY <1>3, <1>7, <1>8, Zenon
<1>10. /\ db' \in [Nodes -> [Rooms -> Version \cup {None}]]
       /\ tomb' \in [Nodes -> [Rooms -> Version \cup {None}]]
       /\ \A r \in Rooms : db'[n][r] = ReplayedRecord(n, r) /\ tomb'[n][r] = ReplayedTomb(n, r)
       /\ \A p \in Nodes \ {n} : db'[p] = db[p] /\ tomb'[p] = tomb[p]
  BY <1>0, <1>2, <1>9
<1>. QED
  BY <1>1, <1>5, <1>6, <1>7, <1>10, ZenonT(30)

-----------------------------------------------------------------------------
(* Rooms stay apart as long as no peer refuses a room.                     *)

(* all that a node stores it has executed                                  *)
Logged(n) ==
  /\ \A i \in DOMAIN aof[n] : aof[n][i] \in heard[n]
  /\ \A r \in Rooms : /\ db[n][r] # None => Entry("put", r, db[n][r]) \in heard[n]
                      /\ tomb[n][r] # None => Entry("del", r, tomb[n][r]) \in heard[n]

(* the room a thread believes its connection to be in, if it believes any  *)
Believed(n, m) == IF link[n][m].pc = "sent" THEN link[n][m].room ELSE peer[n][m].room

(* a batch holds what its node executed, and the thread knows the room     *)
Sending(n, m) ==
  /\ \A j \in DOMAIN link[n][m].buf : link[n][m].buf[j] \in heard[n]
  /\ link[n][m].pc # "sent" => link[n][m].buf = <<>>
  /\ Believed(n, m) \in {None, croom[m][n]}

(* an operation that a node executed was executed by its writer            *)
Genuine == \A m \in Nodes : \A e \in heard[m] : e \in heard[e.ver.node]

RInv == Genuine /\ (\A n \in Nodes : Logged(n)) /\ \A n, m \in Nodes : Sending(n, m)

(* A merge reaches the room it was written in.                             *)
LEMMA MergedIsSent ==
  ASSUME LeastNumber, TypeOK, NEW n \in Nodes, NEW m \in Nodes, Sending(n, m), Pending(n, m) # {}
  PROVE  /\ link[n][m].pc = "sent" /\ Sent(n, m) \in heard[n]
         /\ InRoom(n, m) => \A e \in Entries :
              e.op = Sent(n, m).op /\ e.ver = Sent(n, m).ver /\ e.room = croom[m][n]
                => e = Sent(n, m)
<1>1. /\ NextUp(n, m) \in Pending(n, m) /\ Sent(n, m) \in Entries
  BY NextUpIsPending
<1>2. NextUp(n, m) \in DOMAIN link[n][m].buf
  BY <1>1 DEF Pending, Ours
<1>3. DOMAIN <<>> = {}
  OBVIOUS
<1>4. link[n][m].pc = "sent"
  BY <1>2, <1>3 DEF Sending
<1>5. Sent(n, m) \in heard[n]
  BY <1>2 DEF Sending, Sent
<1>6. Sent(n, m).room \in Rooms
  BY <1>1 DEF Entries
<1>7. InRoom(n, m) => croom[m][n] = Sent(n, m).room
  BY <1>4, <1>6, NoneAssumption DEF Sending, Believed, InRoom
<1>8. \A e \in Entries : e.op = Sent(n, m).op /\ e.ver = Sent(n, m).ver /\ e.room = Sent(n, m).room
                           => e = Sent(n, m)
  BY <1>1 DEF Entries
<1>. QED
  BY <1>4, <1>5, <1>7, <1>8, Zenon

-----------------------------------------------------------------------------
(* What the nodes agree on.                                                *)

(* the disturbances that the proofs of this module allow                   *)
OnlyLossAndRestart == Faults \subseteq {"loss", "restart"}

(* versions start at 1, and every one a node has met is covered by its     *)
(* clock                                                                   *)
Covered(n) ==
  /\ frontier[n] <= clock[n]
  /\ \A e \in heard[n] : e.ver.ts >= 1 /\ e.ver.ts <= clock[n]

(* the writes of node n are entries of its log, each version once          *)
Written(n) ==
  /\ \A e \in heard[n] : e.ver.node = n => n \in Live /\ \E i \in DOMAIN aof[n] : aof[n][i] = e
  /\ \A i, j \in DOMAIN aof[n] : aof[n][i].ver.node = n /\ aof[n][i].ver = aof[n][j].ver => i = j

(* within a room the log is sorted                                         *)
Sorted(n) ==
  \A i, j \in DOMAIN aof[n] :
    i < j /\ aof[n][i].room = aof[n][j].room => Newer(aof[n][j].ver, aof[n][i].ver)

(* what a node has executed is in its log, or something not older is       *)
Superseded(n) ==
  \A e \in heard[n] : \E i \in EntriesOf(n, e.room) : ~Newer(e.ver, aof[n][i].ver)

(* the last entry of a room                                                *)
IsLast(n, r, i) == i \in EntriesOf(n, r) /\ \A j \in EntriesOf(n, r) : j <= i

(* it decides what the room holds; its tombstone may have been forgotten   *)
(* once every peer is past it                                              *)
Decides(n, r) ==
  /\ EntriesOf(n, r) = {} => db[n][r] = None /\ tomb[n][r] = None
  /\ \A i \in EntriesOf(n, r) : IsLast(n, r, i) =>
       /\ aof[n][i].op = "put" => db[n][r] = aof[n][i].ver
       /\ aof[n][i].op = "del" =>
            /\ db[n][r] = None
            /\ tomb[n][r] = aof[n][i].ver \/ (tomb[n][r] = None /\ aof[n][i].ver.ts <= watermark[n])
  /\ tomb[n][r] # None =>
       /\ tomb[n][r].ts > watermark[n]
       /\ \E i \in EntriesOf(n, r) : tomb[n][r] = aof[n][i].ver

NodeOK(n) == Covered(n) /\ Written(n) /\ Sorted(n) /\ Superseded(n) /\ \A r \in Rooms : Decides(n, r)

(* node m has the i-th entry of the log of n, if n wrote it                *)
Got(n, m, i) == aof[n][i].ver.node = n => aof[n][i] \in heard[m]

(* what is confirmed, or answered, has arrived; a frontier closes a batch  *)
(* only if all writes up to it are in or before the batch                  *)
Shipped(n, m) ==
  /\ inode[n] = 1 /\ peer[n][m].ino \in {0, 1} /\ (peer[n][m].ino = 0 => peer[n][m].off = 0)
  /\ link[n][m].bad = 0 /\ link[n][m].fr <= clock[n]
  /\ \A i \in DOMAIN aof[n] : i <= peer[n][m].off => Got(n, m, i)
  /\ link[n][m].pc = "sent" =>
       /\ peer[n][m].ino = 1
       /\ \A j \in DOMAIN link[n][m].buf : link[n][m].buf[j] = aof[n][peer[n][m].off + j]
       /\ \A j \in DOMAIN link[n][m].buf : j <= link[n][m].done => Got(n, m, peer[n][m].off + j)
       /\ \A i \in DOMAIN aof[n] : aof[n][i].ver.node = n /\ aof[n][i].ver.ts <= link[n][m].fr =>
            i <= peer[n][m].off + Len(link[n][m].buf)

(* what a node announced, and the watermark of its peer, are true          *)
Announced(n, m) ==
  /\ known[m][n] <= clock[n] /\ watermark[m] <= known[m][n]
  /\ \A i \in DOMAIN aof[n] : aof[n][i].ver.ts <= known[m][n] => Got(n, m, i)

CInv ==
  /\ \A n \in Nodes : NodeOK(n)
  /\ \A n, m \in Nodes : n # m => Shipped(n, m) /\ Announced(n, m)

(* Newer is transitive.                                                    *)
LEMMA NewerIsTransitive ==
  ASSUME NEW a \in Version, NEW b \in Version, NEW c \in Version, Newer(a, b), Newer(b, c)
  PROVE  Newer(a, c)
<1>1. /\ a.ts \in Nat /\ b.ts \in Nat /\ c.ts \in Nat
      /\ a.node \in Nat /\ b.node \in Nat /\ c.node \in Nat
  BY NodesAssumption, Zenon DEF Version
<1>. QED
  BY <1>1 DEF Newer

-----------------------------------------------------------------------------
(* One node.                                                               *)

(* What a sequence of log entries holds.                                   *)
LEMMA EntrySequences ==
  \A s \in Seq(Entries) :
    /\ Len(s) \in Nat /\ DOMAIN s = 1..Len(s) /\ DOMAIN s \subseteq Nat
    /\ \A i \in DOMAIN s : s[i] \in Entries /\ s[i].ver \in Version /\ s[i].ver.ts \in Nat
<1>1. \A s \in Seq(Entries) :
        Len(s) \in Nat /\ DOMAIN s = 1..Len(s) /\ \A i \in DOMAIN s : s[i] \in Entries
  OBVIOUS
<1>2. \A e \in Entries : e.ver \in Version /\ e.ver.ts \in Nat
  BY DEF Entries, Version
<1>3. \A k \in Nat : 1..k \subseteq Nat
  OBVIOUS
<1>. QED
  BY <1>1, <1>2, <1>3, Zenon

(* The positions of a log and what is there.                               *)
LEMMA LogFacts ==
  ASSUME TypeOK, NEW n \in Nodes
  PROVE  /\ aof[n] \in Seq(Entries) /\ Len(aof[n]) \in Nat /\ DOMAIN aof[n] = 1..Len(aof[n])
         /\ \A i \in DOMAIN aof[n] : /\ aof[n][i] \in Entries /\ aof[n][i].ver \in Version
                                     /\ aof[n][i].ver.ts \in Nat /\ aof[n][i].ver.node \in Nodes
                                     /\ aof[n][i].op \in {"put", "del"} /\ aof[n][i].room \in Rooms
         /\ \A r \in Rooms : EntriesOf(n, r) \subseteq DOMAIN aof[n]
<1>1. aof[n] \in Seq(Entries)
  BY DEF TypeOK
<1>2. Len(aof[n]) \in Nat /\ DOMAIN aof[n] = 1..Len(aof[n])
  BY <1>1
<1>3. ASSUME NEW i \in DOMAIN aof[n]
      PROVE  /\ aof[n][i] \in Entries /\ aof[n][i].ver \in Version
             /\ aof[n][i].ver.ts \in Nat /\ aof[n][i].ver.node \in Nodes
             /\ aof[n][i].op \in {"put", "del"} /\ aof[n][i].room \in Rooms
  <2>1. aof[n][i] \in Entries
    BY <1>1
  <2>. QED
    BY <2>1 DEF Entries, Version
<1>4. \A r \in Rooms : EntriesOf(n, r) \subseteq DOMAIN aof[n]
  BY DEF EntriesOf
<1>. QED
  BY <1>1, <1>2, <1>3, <1>4

(* A room with entries has a last one.                                     *)
LEMMA LastExists ==
  ASSUME LeastNumber, TypeOK, NEW n \in Nodes, NEW r \in Rooms, EntriesOf(n, r) # {}
  PROVE  \E i \in EntriesOf(n, r) : IsLast(n, r, i)
<1>1. Len(aof[n]) \in Nat /\ DOMAIN aof[n] = 1..Len(aof[n])
  BY LogFacts
<1>2. EntriesOf(n, r) \in SUBSET Nat /\ \A i \in EntriesOf(n, r) : i <= Len(aof[n])
  BY <1>1 DEF EntriesOf
<1>3. /\ Max(EntriesOf(n, r)) \in EntriesOf(n, r)
      /\ \A j \in EntriesOf(n, r) : j <= Max(EntriesOf(n, r))
  BY <1>1, <1>2, MaxOf, Zenon
<1>. QED
  BY <1>3 DEF IsLast

(* The last entry of a room is its newest.                                 *)
LEMMA LastIsNewest ==
  ASSUME TypeOK, NEW n \in Nodes, NEW r \in Rooms, Sorted(n), NEW i, IsLast(n, r, i)
  PROVE  \A j \in EntriesOf(n, r) : j # i => Newer(aof[n][i].ver, aof[n][j].ver)
<1>1. DOMAIN aof[n] = 1..Len(aof[n]) /\ Len(aof[n]) \in Nat
  BY LogFacts
<1>2. ASSUME NEW j \in EntriesOf(n, r), j # i
      PROVE  Newer(aof[n][i].ver, aof[n][j].ver)
  <2>1. i \in DOMAIN aof[n] /\ j \in DOMAIN aof[n] /\ aof[n][i].room = aof[n][j].room /\ j <= i
    BY DEF IsLast, EntriesOf
  <2>2. j < i
    BY <1>1, <1>2, <2>1
  <2>. QED
    BY <2>1, <2>2 DEF Sorted
<1>. QED
  BY <1>2

(* A merge that is not stale is newer than all that the log has of its     *)
(* room: crdt.cpp's test of the record, the tombstone or the watermark     *)
(* stands for the whole history.                                           *)
LEMMA NotStaleIsNewer ==
  ASSUME LeastNumber, TypeOK, NEW n \in Nodes, NodeOK(n), NEW r \in Rooms, NEW v \in Version, ~Stale(n, r, v)
  PROVE  \A i \in EntriesOf(n, r) : Newer(v, aof[n][i].ver)
<1>. SUFFICES ASSUME NEW j \in EntriesOf(n, r)
              PROVE  Newer(v, aof[n][j].ver)
  OBVIOUS
<1>1. PICK i \in EntriesOf(n, r) : IsLast(n, r, i)
  BY LastExists
<1>2. /\ i \in DOMAIN aof[n] /\ j \in DOMAIN aof[n]
      /\ aof[n][i].ver \in Version /\ aof[n][j].ver \in Version /\ aof[n][i].op \in {"put", "del"}
      /\ aof[n][i].ver.ts \in Nat
  BY LogFacts
<1>3. Decides(n, r) /\ Sorted(n)
  BY DEF NodeOK
<1>4. watermark[n] \in Nat /\ v.ts \in Nat
  BY DEF TypeOK, Version
<1>5. Newer(v, aof[n][i].ver)
  <2>1. CASE aof[n][i].op = "put"
    <3>1. db[n][r] = aof[n][i].ver /\ db[n][r] # None
      BY <1>1, <1>2, <1>3, <2>1, NoneAssumption DEF Decides
    <3>. QED
      BY <3>1 DEF Stale
  <2>2. CASE aof[n][i].op = "del"
    <3>1. /\ db[n][r] = None
          /\ tomb[n][r] = aof[n][i].ver \/ (tomb[n][r] = None /\ aof[n][i].ver.ts <= watermark[n])
      BY <1>1, <1>3, <2>2, Zenon DEF Decides
    <3>2. CASE tomb[n][r] = aof[n][i].ver
      <4>1. tomb[n][r] # None
        BY <1>2, <3>2, NoneAssumption
      <4>. QED
        BY <3>1, <3>2, <4>1 DEF Stale
    <3>3. CASE tomb[n][r] = None /\ aof[n][i].ver.ts <= watermark[n]
      <4>1. ~(v.ts <= watermark[n])
        BY <3>1, <3>3 DEF Stale
      <4>2. v.ts > aof[n][i].ver.ts
        BY <1>2, <1>4, <3>3, <4>1
      <4>. QED
        BY <4>2 DEF Newer
    <3>. QED
      BY <3>1, <3>2, <3>3
  <2>. QED
    BY <1>2, <2>1, <2>2
<1>6. CASE j = i
  BY <1>5, <1>6
<1>7. CASE j # i
  <2>1. Newer(aof[n][i].ver, aof[n][j].ver)
    BY <1>1, <1>3, <1>7, LastIsNewest
  <2>2. \A a, b, c \in Version : Newer(a, b) /\ Newer(b, c) => Newer(a, c)
    BY NewerIsTransitive
  <2>. QED
    BY <1>2, <1>5, <2>1, <2>2
<1>. QED
  BY <1>6, <1>7

(* A stale merge is superseded, unless it is below the watermark.          *)
LEMMA StaleIsSuperseded ==
  ASSUME LeastNumber, TypeOK, NEW n \in Nodes, NodeOK(n), NEW r \in Rooms, NEW v \in Version, Stale(n, r, v)
  PROVE  v.ts <= watermark[n] \/ \E i \in EntriesOf(n, r) : ~Newer(v, aof[n][i].ver)
<1>0. Decides(n, r)
  BY DEF NodeOK
<1>1. CASE db[n][r] # None
  <2>1. EntriesOf(n, r) # {}
    BY <1>0, <1>1 DEF Decides
  <2>2. PICK i \in EntriesOf(n, r) : IsLast(n, r, i)
    BY <2>1, LastExists
  <2>3. aof[n][i].op \in {"put", "del"}
    BY LogFacts
  <2>4. db[n][r] = aof[n][i].ver
    BY <1>0, <1>1, <2>2, <2>3 DEF Decides
  <2>. QED
    BY <1>1, <2>4 DEF Stale
<1>2. CASE db[n][r] = None /\ tomb[n][r] # None
  <2>1. PICK i \in EntriesOf(n, r) : tomb[n][r] = aof[n][i].ver
    BY <1>0, <1>2 DEF Decides
  <2>. QED
    BY <1>2, <2>1 DEF Stale
<1>3. CASE db[n][r] = None /\ tomb[n][r] = None
  BY <1>3 DEF Stale
<1>. QED
  BY <1>1, <1>2, <1>3

-----------------------------------------------------------------------------
(* What other nodes rely on: the clock does not fall, what was executed    *)
(* stays executed, the log is only appended to, and the writes appended to *)
(* it have versions above the old clock.                                   *)
Grows(n) ==
  /\ clock[n] <= clock'[n] /\ heard[n] \subseteq heard'[n]
  /\ DOMAIN aof[n] \subseteq DOMAIN aof'[n]
  /\ \A i \in DOMAIN aof[n] : aof'[n][i] = aof[n][i]
  /\ \A i \in DOMAIN aof'[n] \ DOMAIN aof[n] :
       aof'[n][i].ver.node = n => aof'[n][i].ver.ts > clock[n]

(* A node that executes nothing and whose clock does not fall grows.       *)
LEMMA GrowsQuietly ==
  ASSUME NEW n \in Nodes, clock[n] <= clock'[n], heard[n] \subseteq heard'[n], aof'[n] = aof[n]
  PROVE  Grows(n)
BY DEF Grows

(* Executing an entry appends it to the log.                               *)
LEMMA GrowsByApply ==
  ASSUME TypeOK, NEW n \in Nodes, NEW e \in Entries, aof'[n] = Append(aof[n], e),
         clock[n] <= clock'[n], heard[n] \subseteq heard'[n], e.ver.node = n => e.ver.ts > clock[n]
  PROVE  /\ Grows(n) /\ DOMAIN aof'[n] = DOMAIN aof[n] \cup {Len(aof[n]) + 1}
         /\ aof'[n][Len(aof[n]) + 1] = e
<1>1. aof[n] \in Seq(Entries) /\ Len(aof[n]) \in Nat /\ DOMAIN aof[n] = 1..Len(aof[n])
  BY LogFacts
<1>2. /\ DOMAIN aof'[n] = 1..(Len(aof[n]) + 1)
      /\ \A i \in 1..Len(aof[n]) : aof'[n][i] = aof[n][i]
      /\ aof'[n][Len(aof[n]) + 1] = e
  BY <1>1
<1>3. DOMAIN aof'[n] = DOMAIN aof[n] \cup {Len(aof[n]) + 1}
  BY <1>1, <1>2
<1>4. \A i \in DOMAIN aof'[n] \ DOMAIN aof[n] : i = Len(aof[n]) + 1
  BY <1>3
<1>5. \A i \in DOMAIN aof'[n] \ DOMAIN aof[n] :
         aof'[n][i].ver.node = n => aof'[n][i].ver.ts > clock[n]
  BY <1>2, <1>4
<1>. QED
  BY <1>1, <1>2, <1>3, <1>5 DEF Grows

(* A cursor lies within its log.                                           *)
LEMMA CursorWithin ==
  ASSUME TInv, NEW n \in Nodes, NEW m \in Nodes, Shipped(n, m)
  PROVE  /\ peer[n][m].off <= Len(aof[n])
         /\ link[n][m].pc = "sent" =>
              \A j \in DOMAIN link[n][m].buf : peer[n][m].off + j \in DOMAIN aof[n]
<1>1. /\ Len(link[n][m].buf) \in Nat /\ DOMAIN link[n][m].buf = 1..Len(link[n][m].buf)
      /\ peer[n][m].off \in Nat /\ Len(aof[n]) \in Nat /\ DOMAIN aof[n] = 1..Len(aof[n])
  BY BatchFacts DEF TInv
<1>2. peer[n][m].ino = inode[n] => peer[n][m].off + Len(link[n][m].buf) <= Len(aof[n])
  BY DEF TInv, CursorOK
<1>3. /\ peer[n][m].ino = inode[n] \/ peer[n][m].off = 0
      /\ link[n][m].pc = "sent" => peer[n][m].ino = inode[n]
  BY DEF Shipped
<1>4. \A a, b, c \in Nat : a + b <= c => a <= c /\ \A j \in 1..b : a + j \in 1..c
  OBVIOUS
<1>5. peer[n][m].ino = inode[n] =>
        /\ peer[n][m].off <= Len(aof[n])
        /\ \A j \in 1..Len(link[n][m].buf) : peer[n][m].off + j \in 1..Len(aof[n])
  BY <1>1, <1>2, <1>4, Zenon
<1>6. peer[n][m].off = 0 => peer[n][m].off <= Len(aof[n])
  BY <1>1
<1>. QED
  BY <1>1, <1>3, <1>5, <1>6

(* A thread that does not move is not disturbed by nodes that grow.        *)
LEMMA ShippedKept ==
  ASSUME TInv, TInv', NEW n \in Nodes, NEW m \in Nodes, Shipped(n, m), Grows(n), Grows(m),
         inode'[n] = inode[n], peer'[n][m] = peer[n][m], link'[n][m] = link[n][m]
  PROVE  Shipped(n, m)'
<1>1. /\ peer[n][m].off \in Nat /\ Len(aof[n]) \in Nat /\ DOMAIN aof[n] = 1..Len(aof[n])
      /\ link[n][m].fr \in Nat
  BY BatchFacts DEF TInv
<1>2. clock[n] \in Nat /\ clock'[n] \in Nat
  BY DEF TInv, TypeOK
<1>3. \A i \in DOMAIN aof'[n] : aof'[n][i].ver.ts \in Nat
  <2>1. aof'[n] \in Seq(Entries)
    BY Zenon DEF TInv, TypeOK
  <2>. QED
    BY <2>1, EntrySequences, Zenon
<1>4. DOMAIN aof'[n] \subseteq Nat
  <2>1. aof'[n] \in Seq(Entries)
    BY Zenon DEF TInv, TypeOK
  <2>. QED
    BY <2>1, EntrySequences, Zenon
<1>5. \A i \in DOMAIN aof[n] : Got(n, m, i) => Got(n, m, i)'
  BY Zenon DEF Got, Grows
<1>6. \A i \in DOMAIN aof'[n] : i <= peer[n][m].off => Got(n, m, i)'
  <2>. SUFFICES ASSUME NEW i \in DOMAIN aof'[n], i <= peer[n][m].off
                PROVE  Got(n, m, i)'
    BY Zenon
  <2>0. i \in Nat
    BY <1>4
  <2>1. peer[n][m].off <= Len(aof[n])
    BY CursorWithin
  <2>2. i >= 1
    <3>1. aof'[n] \in Seq(Entries)
      BY DEF TInv, TypeOK
    <3>2. DOMAIN aof'[n] = 1..Len(aof'[n])
      BY <3>1
    <3>. QED
      BY <3>2
  <2>3. i \in DOMAIN aof[n]
    BY <1>1, <2>0, <2>1, <2>2
  <2>. QED
    BY <1>5, <2>3, Zenon DEF Shipped
<1>7. link[n][m].fr <= clock'[n]
  BY <1>1, <1>2 DEF Shipped, Grows
<1>8. ASSUME link[n][m].pc = "sent"
      PROVE  /\ \A j \in DOMAIN link[n][m].buf : link[n][m].buf[j] = aof'[n][peer[n][m].off + j]
             /\ \A j \in DOMAIN link[n][m].buf : j <= link[n][m].done => Got(n, m, peer[n][m].off + j)'
  <2>1. \A j \in DOMAIN link[n][m].buf : peer[n][m].off + j \in DOMAIN aof[n]
    BY <1>8, CursorWithin
  <2>2. \A j \in DOMAIN link[n][m].buf : link[n][m].buf[j] = aof'[n][peer[n][m].off + j]
    BY <1>8, <2>1 DEF Shipped, Grows
  <2>3. ASSUME NEW j \in DOMAIN link[n][m].buf, j <= link[n][m].done
        PROVE  Got(n, m, peer[n][m].off + j)'
    <3>1. Got(n, m, peer[n][m].off + j)
      BY <1>8, <2>3, Zenon DEF Shipped
    <3>. QED
      BY <2>1, <3>1, Zenon DEF Got, Grows
  <2>. QED
    BY <2>2, <2>3
<1>9. ASSUME link[n][m].pc = "sent", NEW i \in DOMAIN aof'[n],
             aof'[n][i].ver.node = n, aof'[n][i].ver.ts <= link[n][m].fr
      PROVE  i <= peer[n][m].off + Len(link[n][m].buf)
  <2>1. ~(aof'[n][i].ver.ts > clock[n])
    BY <1>1, <1>2, <1>3, <1>9 DEF Shipped
  <2>2. i \in DOMAIN aof[n]
    BY <1>9, <2>1 DEF Grows
  <2>3. aof'[n][i] = aof[n][i]
    BY <2>2 DEF Grows
  <2>. QED
    BY <1>9, <2>2, <2>3 DEF Shipped
<1>. QED
  BY <1>6, <1>7, <1>8, <1>9, Zenon DEF Shipped

(* What a node announced stays true while the nodes grow.                  *)
LEMMA AnnouncedKept ==
  ASSUME TInv, TInv', NEW n \in Nodes, NEW m \in Nodes, Announced(n, m), Grows(n), Grows(m),
         known'[m][n] = known[m][n], watermark'[m] <= known[m][n]
  PROVE  Announced(n, m)'
<1>1. clock[n] \in Nat /\ clock'[n] \in Nat /\ known[m][n] \in Nat
  BY DEF TInv, TypeOK
<1>2. \A i \in DOMAIN aof'[n] : aof'[n][i].ver.ts \in Nat
  <2>1. aof'[n] \in Seq(Entries)
    BY Zenon DEF TInv, TypeOK
  <2>. QED
    BY <2>1, EntrySequences, Zenon
<1>3. known[m][n] <= clock'[n]
  <2>1. \A a, b, c \in Nat : a <= b /\ b <= c => a <= c
    OBVIOUS
  <2>. QED
    BY <1>1, <2>1, Zenon DEF Announced, Grows
<1>4. ASSUME NEW i \in DOMAIN aof'[n], aof'[n][i].ver.ts <= known[m][n]
      PROVE  Got(n, m, i)'
  <2>1. CASE i \in DOMAIN aof[n]
    <3>1. aof'[n][i] = aof[n][i]
      BY <2>1 DEF Grows
    <3>2. Got(n, m, i)
      BY <1>4, <2>1, <3>1 DEF Announced
    <3>. QED
      BY <3>1, <3>2 DEF Got, Grows
  <2>2. CASE i \notin DOMAIN aof[n]
    <3>1. ~(aof'[n][i].ver.ts > clock[n])
      BY <1>1, <1>2, <1>4 DEF Announced
    <3>2. aof'[n][i].ver.node # n
      BY <2>2, <3>1 DEF Grows
    <3>. QED
      BY <3>2 DEF Got
  <2>. QED
    BY <2>1, <2>2
<1>. QED
  BY <1>3, <1>4 DEF Announced

(* The types of what Covered compares.                                     *)
LEMMA CoveredTypes ==
  ASSUME TInv, TInv', NEW n \in Nodes
  PROVE  /\ clock[n] \in Nat /\ clock'[n] \in Nat /\ frontier[n] \in Nat
         /\ \A e \in heard[n] : e \in Entries /\ e.ver.ts \in Nat
<1>1. clock[n] \in Nat /\ frontier[n] \in Nat /\ heard[n] \in SUBSET Entries
  BY DEF TInv, TypeOK
<1>2. clock'[n] \in Nat
  BY DEF TInv, TypeOK
<1>3. \A e \in heard[n] : e \in Entries
  BY <1>1
<1>. QED
  BY <1>1, <1>2, <1>3 DEF Entries, Version

(* A node that neither executes nor forgets stays consistent.              *)
LEMMA NodeKept ==
  ASSUME TInv, TInv', NEW n \in Nodes, NodeOK(n), aof'[n] = aof[n], heard'[n] = heard[n],
         db'[n] = db[n], tomb'[n] = tomb[n], watermark'[n] = watermark[n],
         clock[n] <= clock'[n], frontier'[n] <= clock'[n]
  PROVE  NodeOK(n)'
<1>1. clock[n] \in Nat /\ clock'[n] \in Nat /\ \A e \in heard[n] : e.ver.ts \in Nat
  BY CoveredTypes
<1>2. Covered(n)'
  BY <1>1 DEF NodeOK, Covered
<1>3. Written(n)' /\ Sorted(n)'
  <2>1. Written(n) /\ Sorted(n)
    BY Zenon DEF NodeOK
  <2>2. Written(n)'
    BY <2>1 DEF Written
  <2>3. Sorted(n)'
    BY <2>1 DEF Sorted
  <2>. QED
    BY <2>2, <2>3, Zenon
<1>4. \A r : EntriesOf(n, r)' = EntriesOf(n, r)
  BY Zenon DEF EntriesOf
<1>5. Superseded(n)'
  BY <1>4, Zenon DEF NodeOK, Superseded
<1>6. ASSUME NEW r \in Rooms
      PROVE  Decides(n, r)'
  <2>1. Decides(n, r)
    BY Zenon DEF NodeOK
  <2>2. \A i : IsLast(n, r, i)' = IsLast(n, r, i)
    BY <1>4 DEF IsLast
  <2>. QED
    BY <1>4, <2>1, <2>2, Zenon DEF Decides
<1>. QED
  BY <1>2, <1>3, <1>5, <1>6 DEF NodeOK

(* The log after an entry was appended that is newer than all that the log *)
(* has of its room.                                                        *)
LEMMA SortedAppend ==
  ASSUME TInv, TInv', NEW n \in Nodes, NEW e \in Entries, aof'[n] = Append(aof[n], e),
         Sorted(n), \A i \in EntriesOf(n, e.room) : Newer(e.ver, aof[n][i].ver)
  PROVE  /\ Sorted(n)'
         /\ \A r \in Rooms \ {e.room} : EntriesOf(n, r)' = EntriesOf(n, r)
         /\ EntriesOf(n, e.room)' = EntriesOf(n, e.room) \cup {Len(aof[n]) + 1}
         /\ \A i \in EntriesOf(n, e.room) : i < Len(aof[n]) + 1
         /\ DOMAIN aof'[n] = DOMAIN aof[n] \cup {Len(aof[n]) + 1}
         /\ Len(aof[n]) + 1 \notin DOMAIN aof[n]
         /\ \A i \in DOMAIN aof[n] : aof'[n][i] = aof[n][i]
         /\ aof'[n][Len(aof[n]) + 1] = e
<1>1. aof[n] \in Seq(Entries) /\ Len(aof[n]) \in Nat /\ DOMAIN aof[n] = 1..Len(aof[n])
  BY LogFacts DEF TInv
<1>2. /\ DOMAIN aof'[n] = 1..(Len(aof[n]) + 1)
      /\ \A i \in 1..Len(aof[n]) : aof'[n][i] = aof[n][i]
      /\ aof'[n][Len(aof[n]) + 1] = e
  BY <1>1
<1>3. DOMAIN aof'[n] = DOMAIN aof[n] \cup {Len(aof[n]) + 1} /\ Len(aof[n]) + 1 \notin DOMAIN aof[n]
  BY <1>1, <1>2
<1>4. \A r \in Rooms \ {e.room} : EntriesOf(n, r)' = EntriesOf(n, r)
  BY <1>1, <1>2, <1>3 DEF EntriesOf
<1>5. EntriesOf(n, e.room)' = EntriesOf(n, e.room) \cup {Len(aof[n]) + 1}
  BY <1>1, <1>2, <1>3 DEF EntriesOf
<1>6. \A i \in EntriesOf(n, e.room) : i < Len(aof[n]) + 1
  BY <1>1 DEF EntriesOf
<1>7. ASSUME NEW i \in DOMAIN aof'[n], NEW j \in DOMAIN aof'[n], i < j,
             aof'[n][i].room = aof'[n][j].room
      PROVE  Newer(aof'[n][j].ver, aof'[n][i].ver)
  <2>1. i \in DOMAIN aof[n] /\ aof'[n][i] = aof[n][i]
    BY <1>1, <1>2, <1>7
  <2>2. CASE j \in DOMAIN aof[n]
    <3>1. aof'[n][j] = aof[n][j]
      BY <1>1, <1>2, <2>2
    <3>. QED
      BY <1>7, <2>1, <2>2, <3>1 DEF Sorted
  <2>3. CASE j = Len(aof[n]) + 1
    <3>1. aof'[n][j] = e
      BY <1>2, <2>3
    <3>2. i \in EntriesOf(n, e.room)
      BY <1>7, <2>1, <3>1 DEF EntriesOf
    <3>. QED
      BY <2>1, <3>1, <3>2
  <2>. QED
    BY <1>3, <2>2, <2>3
<1>8. Sorted(n)'
  BY <1>7 DEF Sorted
<1>. QED
  BY <1>1, <1>2, <1>3, <1>4, <1>5, <1>6, <1>8

(* What the newest entry of a room decides once it has been executed.      *)
LEMMA DecidesApply ==
  ASSUME TInv, TInv', NEW n \in Nodes, NodeOK(n), NEW e \in Entries, Apply(n, e),
         watermark'[n] = watermark[n],
         \A i \in EntriesOf(n, e.room) : Newer(e.ver, aof[n][i].ver)
  PROVE  \A r \in Rooms : Decides(n, r)'
<1>0. TypeOK /\ Sorted(n) /\ e.room \in Rooms /\ e.ver \in Version /\ e.op \in {"put", "del"}
  BY Zenon DEF TInv, NodeOK, Entries
<1>1. /\ aof'[n] = Append(aof[n], e)
      /\ \A r \in Rooms \ {e.room} : db'[n][r] = db[n][r] /\ tomb'[n][r] = tomb[n][r]
      /\ db'[n][e.room] = IF e.op = "put" THEN e.ver ELSE None
      /\ tomb'[n][e.room] =
           IF e.op = "del"
           THEN IF e.ver.ts <= watermark[n] THEN tomb[n][e.room]
                ELSE IF tomb[n][e.room] # None /\ Newer(tomb[n][e.room], e.ver)
                     THEN tomb[n][e.room] ELSE e.ver
           ELSE IF db[n][e.room] = None THEN None ELSE tomb[n][e.room]
  BY <1>0, ApplyEffect, Zenon
<1>2. /\ \A r \in Rooms \ {e.room} : EntriesOf(n, r)' = EntriesOf(n, r)
      /\ EntriesOf(n, e.room)' = EntriesOf(n, e.room) \cup {Len(aof[n]) + 1}
      /\ \A i \in EntriesOf(n, e.room) : i < Len(aof[n]) + 1
      /\ \A i \in DOMAIN aof[n] : aof'[n][i] = aof[n][i]
      /\ aof'[n][Len(aof[n]) + 1] = e
  BY <1>0, <1>1, SortedAppend, Zenon
<1>3. \A r : \A i \in EntriesOf(n, r) : i \in DOMAIN aof[n] /\ aof'[n][i] = aof[n][i]
  BY <1>2, Zenon DEF EntriesOf
<1>4. ASSUME NEW r \in Rooms \ {e.room}
      PROVE  Decides(n, r)'
  <2>1. Decides(n, r)
    BY Zenon DEF NodeOK
  <2>2. \A i : IsLast(n, r, i)' = IsLast(n, r, i)
    BY <1>2, Zenon DEF IsLast
  <2>3. /\ EntriesOf(n, r)' = EntriesOf(n, r) /\ db'[n][r] = db[n][r] /\ tomb'[n][r] = tomb[n][r]
        /\ \A i \in EntriesOf(n, r) : aof'[n][i] = aof[n][i]
    BY <1>1, <1>2, <1>3, Zenon
  <2>. QED
    BY <2>1, <2>2, <2>3, Zenon DEF Decides
<1>5. Decides(n, e.room)'
  <2>. DEFINE t == tomb[n][e.room]
  <2>1. Decides(n, e.room)
    BY <1>0, Zenon DEF NodeOK
  <2>2. t \in Version \cup {None} /\ watermark[n] \in Nat /\ e.ver.ts \in Nat
    <3>1. t \in Version \cup {None} /\ watermark[n] \in Nat
      BY <1>0 DEF TypeOK
    <3>2. e.ver.ts \in Nat
      BY <1>0, Zenon DEF Version
    <3>. QED
      BY <3>1, <3>2, Zenon
  <2>3. t # None => /\ t.ts > watermark[n] /\ Newer(e.ver, t) /\ ~Newer(t, e.ver) /\ t.ts <= e.ver.ts
                    /\ \E i \in EntriesOf(n, e.room)' : t = aof'[n][i].ver
    <3>. SUFFICES ASSUME t # None
                  PROVE  /\ t.ts > watermark[n] /\ Newer(e.ver, t) /\ ~Newer(t, e.ver) /\ t.ts <= e.ver.ts
                         /\ \E i \in EntriesOf(n, e.room)' : t = aof'[n][i].ver
      BY Zenon
    <3>1. PICK i \in EntriesOf(n, e.room) : t = aof[n][i].ver
      BY <2>1, Zenon DEF Decides
    <3>2. t.ts > watermark[n]
      BY <2>1, Zenon DEF Decides
    <3>3. Newer(e.ver, t)
      BY <3>1
    <3>4. t \in Version
      BY <2>2, Zenon
    <3>5. ~Newer(t, e.ver)
      BY <1>0, <3>3, <3>4, NewerIsOrder, Zenon
    <3>6. t.ts <= e.ver.ts
      BY <1>0, <3>4, <3>5, NewerIsOrder
    <3>7. i \in EntriesOf(n, e.room)' /\ t = aof'[n][i].ver
      BY <1>2, <1>3, <3>1, Zenon
    <3>. QED
      BY <3>2, <3>3, <3>5, <3>6, <3>7, Zenon
  <2>4. EntriesOf(n, e.room)' # {}
    BY <1>2
  <2>5. \A i \in EntriesOf(n, e.room)' : IsLast(n, e.room, i)' => aof'[n][i] = e
    <3>1. Len(aof[n]) \in Nat /\ \A i \in EntriesOf(n, e.room) : i \in Nat
      BY <1>0, LogFacts, EntrySequences, Zenon
    <3>2. ASSUME NEW i \in EntriesOf(n, e.room)', IsLast(n, e.room, i)'
          PROVE  i = Len(aof[n]) + 1
      <4>1. Len(aof[n]) + 1 <= i
        BY <1>2, <3>2 DEF IsLast
      <4>. QED
        BY <1>2, <3>1, <4>1
    <3>. QED
      BY <1>2, <3>2, Zenon
  <2>6. tomb'[n][e.room] # None =>
          /\ tomb'[n][e.room].ts > watermark[n]
          /\ \E i \in EntriesOf(n, e.room)' : tomb'[n][e.room] = aof'[n][i].ver
    <3>. SUFFICES ASSUME tomb'[n][e.room] # None
                  PROVE  /\ tomb'[n][e.room].ts > watermark[n]
                         /\ \E i \in EntriesOf(n, e.room)' : tomb'[n][e.room] = aof'[n][i].ver
      OBVIOUS
    <3>1. tomb'[n][e.room] = t \/ (tomb'[n][e.room] = e.ver /\ ~(e.ver.ts <= watermark[n]))
      BY <1>1
    <3>2. CASE tomb'[n][e.room] = t
      BY <2>3, <3>2
    <3>3. CASE tomb'[n][e.room] = e.ver /\ ~(e.ver.ts <= watermark[n])
      <4>1. e.ver.ts > watermark[n]
        <5>1. \A a, b \in Nat : ~(a <= b) => a > b
          OBVIOUS
        <5>. QED
          BY <2>2, <3>3, <5>1, Zenon
      <4>. QED
        BY <1>2, <3>3, <4>1
    <3>. QED
      BY <3>1, <3>2, <3>3, Zenon
  <2>7. e.op = "del" =>
          /\ db'[n][e.room] = None
          /\ tomb'[n][e.room] = e.ver \/ (tomb'[n][e.room] = None /\ e.ver.ts <= watermark[n])
    <3>. SUFFICES ASSUME e.op = "del"
                  PROVE  tomb'[n][e.room] = e.ver \/ (tomb'[n][e.room] = None /\ e.ver.ts <= watermark[n])
      BY <1>1, Zenon
    <3>1. CASE e.ver.ts <= watermark[n]
      <4>1. t = None
        <5>. SUFFICES ASSUME t # None PROVE FALSE
          OBVIOUS
        <5>1. t.ts > watermark[n] /\ t.ts <= e.ver.ts /\ t.ts \in Nat
          BY <2>2, <2>3, Zenon DEF Version
        <5>. QED
          BY <2>2, <3>1, <5>1
      <4>. QED
        BY <1>1, <3>1, <4>1, Zenon
    <3>2. CASE ~(e.ver.ts <= watermark[n])
      <4>1. ~(t # None /\ Newer(t, e.ver))
        BY <2>3, Zenon
      <4>. QED
        BY <1>1, <3>2, <4>1
    <3>. QED
      BY <3>1, <3>2
  <2>8. e.op = "put" => db'[n][e.room] = e.ver
    BY <1>1
  <2>. HIDE DEF t
  <2>. QED
    BY <2>4, <2>5, <2>6, <2>7, <2>8, Zenon DEF Decides
<1>. QED
  BY <1>4, <1>5
=============================================================================
