----------------------- MODULE ReplicationInvariants ------------------------
(***************************************************************************)
(* Every step keeps the two invariants of ReplicationLemmas.               *)
(***************************************************************************)
EXTENDS ReplicationLemmas

(* a set of rooms can be listed, which ReplicationProofs shows of the      *)
(* finite sets                                                             *)
Listable == \A S \in SUBSET Rooms :
  Cardinality(S) \in Nat /\ Bijection(1..Cardinality(S), S) # {}

(* Executing an entry that the clock covers keeps the versions below the   *)
(* clocks, and no log gets shorter.                                        *)
LEMMA ApplyKeepsStamped ==
  ASSUME TypeOK, Stamped, NEW n \in Nodes, NEW e \in Entries, Apply(n, e),
         NEW c \in Nat, clock' = [clock EXCEPT ![n] = c], clock[n] <= c, e.ver.ts <= c
  PROVE  Stamped' /\ \A p \in Nodes : Len(aof[p]) <= Len(aof'[p])
<1>0. /\ clock \in [Nodes -> Nat] /\ e.ver.ts \in Nat /\ e.room \in Rooms /\ aof[n] \in Seq(Entries)
      /\ e.ver \in Version
  BY Zenon DEF TypeOK, Entries, Version
<1>1. /\ aof'[n] = Append(aof[n], e)
      /\ \A p \in Nodes \ {n} : db'[p] = db[p] /\ tomb'[p] = tomb[p] /\ aof'[p] = aof[p]
      /\ \A r \in Rooms \ {e.room} : db'[n][r] = db[n][r] /\ tomb'[n][r] = tomb[n][r]
      /\ db'[n][e.room] \in {e.ver, None}
      /\ tomb'[n][e.room] \in {tomb[n][e.room], e.ver, None}
  <2>1. /\ db'[n][e.room] = IF e.op = "put" THEN e.ver ELSE None
        /\ tomb'[n][e.room] \in {tomb[n][e.room], e.ver, None}
    BY ApplyEffect
  <2>. QED
    BY <2>1, ApplyEffect
<1>2. clock'[n] = c /\ \A p \in Nodes \ {n} : clock'[p] = clock[p]
  BY <1>0
<1>3. ASSUME NEW p \in Nodes
      PROVE  /\ \A i \in DOMAIN aof'[p] : aof'[p][i].ver.ts <= clock'[p]
             /\ \A r \in Rooms : /\ db'[p][r] # None => db'[p][r].ts <= clock'[p]
                                 /\ tomb'[p][r] # None => tomb'[p][r].ts <= clock'[p]
             /\ Len(aof[p]) <= Len(aof'[p])
  <2>1. CASE p # n
    <3>1. Len(aof[p]) \in Nat
      BY BatchFacts
    <3>. QED
      BY <1>1, <1>2, <2>1, <3>1 DEF Stamped
  <2>2. CASE p = n
    <3>0. /\ Len(aof[n]) \in Nat /\ DOMAIN aof[n] = 1..Len(aof[n])
          /\ DOMAIN aof'[n] = 1..(Len(aof[n]) + 1) /\ Len(aof'[n]) = Len(aof[n]) + 1
          /\ aof'[n][Len(aof[n]) + 1] = e
          /\ \A i \in 1..Len(aof[n]) : aof'[n][i] = aof[n][i]
      BY <1>0, <1>1
    <3>1. \A i \in 1..Len(aof[n]) : aof[n][i].ver.ts \in Nat /\ aof[n][i].ver.ts <= clock[n]
      <4>1. \A i \in 1..Len(aof[n]) : aof[n][i] \in Entries
        BY <1>0
      <4>. QED
        BY <3>0, <4>1 DEF Stamped, Entries, Version
    <3>2. ASSUME NEW i \in DOMAIN aof'[n]
          PROVE  aof'[n][i].ver.ts <= c
      <4>1. CASE i = Len(aof[n]) + 1
        BY <3>0, <4>1
      <4>2. CASE i \in 1..Len(aof[n])
        <5>1. aof'[n][i] = aof[n][i] /\ aof[n][i].ver.ts \in Nat /\ aof[n][i].ver.ts <= clock[n]
          BY <3>0, <3>1, <4>2
        <5>2. clock[n] \in Nat
          BY <1>0
        <5>. QED
          BY <5>1, <5>2
      <4>. QED
        BY <3>0, <4>1, <4>2
    <3>3. ASSUME NEW r \in Rooms
          PROVE  /\ db[n][r] # None => db[n][r].ts <= c
                 /\ tomb[n][r] # None => tomb[n][r].ts <= c
      <4>1. /\ db[n][r] # None => db[n][r].ts <= clock[n] /\ db[n][r].ts \in Nat
            /\ tomb[n][r] # None => tomb[n][r].ts <= clock[n] /\ tomb[n][r].ts \in Nat
        BY DEF TypeOK, Stamped, Version
      <4>2. clock[n] \in Nat
        BY <1>0
      <4>. QED
        BY <4>1, <4>2
    <3>4. ASSUME NEW r \in Rooms
          PROVE  /\ db'[n][r] # None => db'[n][r].ts <= c
                 /\ tomb'[n][r] # None => tomb'[n][r].ts <= c
      <4>1. CASE r = e.room
        BY <1>1, <3>3, <4>1
      <4>2. CASE r # e.room
        BY <1>1, <3>3, <4>2
      <4>. QED
        BY <4>1, <4>2
    <3>. QED
      BY <1>2, <2>2, <3>0, <3>2, <3>4
  <2>. QED
    BY <2>1, <2>2
<1>. QED
  BY <1>3 DEF Stamped

(* Arithmetic of a cursor in a log that grows.                             *)
LEMMA SumWithin == \A a, b, c, d \in Nat : a + b <= c /\ c <= d => a + b <= d
  OBVIOUS

(* A batch and a cursor that a step leaves alone stay within the log.      *)
LEMMA CursorKept ==
  ASSUME TInv, NEW p \in Nodes, NEW q \in Nodes, inode'[p] = inode[p],
         link'[p][q] = link[p][q], peer'[p][q] = peer[p][q],
         Len(aof'[p]) \in Nat, Len(aof[p]) <= Len(aof'[p])
  PROVE  CursorOK(p, q)'
<1>1. /\ Len(link[p][q].buf) \in Nat /\ peer[p][q].off \in Nat
      /\ Len(aof[p]) \in Nat
  BY BatchFacts DEF TInv
<1>2. CursorOK(p, q)
  BY DEF TInv
<1>3. ASSUME peer[p][q].ino = inode[p]
      PROVE  peer[p][q].off + Len(link[p][q].buf) <= Len(aof'[p])
  <2>1. peer[p][q].off + Len(link[p][q].buf) <= Len(aof[p])
    BY <1>2, <1>3 DEF CursorOK
  <2>. QED
    BY <1>1, <2>1, SumWithin, Zenon
<1>. QED
  BY <1>2, <1>3 DEF CursorOK

(* If nothing but a batch and its cursor changed, they alone matter.       *)
LEMMA CursorStep ==
  ASSUME TInv, NEW n \in Nodes, NEW m \in Nodes, Elsewhere(n, m), UNCHANGED inode,
         \A p \in Nodes : Len(aof'[p]) \in Nat /\ Len(aof[p]) <= Len(aof'[p]), CursorOK(n, m)'
  PROVE  \A p, q \in Nodes : CursorOK(p, q)'
<1>. SUFFICES ASSUME NEW p \in Nodes, NEW q \in Nodes
              PROVE  CursorOK(p, q)'
  OBVIOUS
<1>1. CASE p = n /\ q = m
  BY <1>1
<1>2. CASE p # n \/ q # m
  <2>1. link'[p][q] = link[p][q] /\ peer'[p][q] = peer[p][q]
    BY <1>2 DEF Elsewhere
  <2>. QED
    BY <2>1, CursorKept
<1>. QED
  BY <1>1, <1>2

(* The type invariant after a step, but for the cursors.                   *)
LEMMA CursorImpliesLast ==
  ASSUME \A n, m \in Nodes : CursorOK(n, m)', link' \in [Nodes -> [Nodes -> Batches]],
         peer' \in [Nodes -> [Nodes -> Cursor]], aof' \in [Nodes -> Seq(Entries)]
  PROVE  \A n, m \in Nodes : peer'[n][m].ino = inode'[n] => peer'[n][m].off <= Len(aof'[n])
<1>. SUFFICES ASSUME NEW n \in Nodes, NEW m \in Nodes, peer'[n][m].ino = inode'[n]
              PROVE  peer'[n][m].off <= Len(aof'[n])
  OBVIOUS
<1>1. Len(link'[n][m].buf) \in Nat /\ peer'[n][m].off \in Nat /\ Len(aof'[n]) \in Nat
  <2>1. link'[n][m] \in Batches /\ peer'[n][m] \in Cursor /\ aof'[n] \in Seq(Entries)
    OBVIOUS
  <2>2. link'[n][m].buf \in Seq(Entries) /\ peer'[n][m].off \in Nat
    BY <2>1, Zenon DEF Batches, Cursor
  <2>. QED
    BY <2>1, <2>2
<1>2. CursorOK(n, m)'
  OBVIOUS
<1>3. peer'[n][m].off + Len(link'[n][m].buf) <= Len(aof'[n])
  BY <1>2 DEF CursorOK
<1>. QED
  BY <1>1, <1>3

(* The type invariant holds at first.                                      *)
LEMMA TInvInit == Init => TInv
<1>. SUFFICES ASSUME Init
              PROVE  TInv
  OBVIOUS
<1>. USE RoomsAssumption
<1>1. <<>> \in Seq(Entries) /\ Len(<<>>) = 0 /\ DOMAIN <<>> = {}
  OBVIOUS
<1>. DEFINE c == [ino |-> 0, off |-> 0, room |-> None]
<1>2. c \in Cursor /\ c.ino = 0 /\ c.off = 0
  BY DEF Cursor
<1>3. NoBatch.bad = 0 /\ NoBatch.buf = <<>>
  BY DEF NoBatch
<1>4. /\ peer = [n \in Nodes |-> [m \in Nodes |-> c]]
      /\ link = [n \in Nodes |-> [m \in Nodes |-> NoBatch]]
      /\ aof = [n \in Nodes |-> <<>>] /\ inode = [n \in Nodes |-> 1]
      /\ db = [n \in Nodes |-> [r \in Rooms |-> None]]
      /\ tomb = [n \in Nodes |-> [r \in Rooms |-> None]]
  BY DEF Init
<1>. HIDE DEF c
<1>5. ASSUME NEW n \in Nodes, NEW m \in Nodes
      PROVE  CursorOK(n, m)
  <2>1. peer[n][m] = c /\ link[n][m] = NoBatch /\ aof[n] = <<>> /\ inode[n] = 1
    BY <1>4
  <2>. QED
    BY <1>1, <1>2, <1>3, <2>1 DEF CursorOK
<1>6. Stamped
  BY <1>1, <1>4 DEF Stamped
<1>7. /\ peer \in [Nodes -> [Nodes -> Cursor]] /\ link \in [Nodes -> [Nodes -> Batches]]
      /\ aof \in [Nodes -> Seq(Entries)] /\ inode \in [Nodes -> Nat]
      /\ db \in [Nodes -> [Rooms -> Version \cup {None}]]
      /\ tomb \in [Nodes -> [Rooms -> Version \cup {None}]]
  BY <1>1, <1>2, <1>4, NoBatchType
<1>8. /\ clock \in [Nodes -> Nat \ {0}] /\ frontier \in [Nodes -> Nat \ {0}]
      /\ known \in [Nodes -> [Nodes -> Nat]] /\ watermark \in [Nodes -> Nat]
      /\ croom \in [Nodes -> [Nodes -> Rooms]] /\ heard \in [Nodes -> SUBSET Entries]
      /\ faults \in Nat
  BY DEF Init
<1>9. \A n, m \in Nodes : peer[n][m].ino = inode[n] => peer[n][m].off <= Len(aof[n])
  BY <1>1, <1>2, <1>4
<1>10. TypeOK
  BY <1>7, <1>8, <1>9 DEF TypeOK
<1>. QED
  BY <1>5, <1>6, <1>10 DEF TInv

(* A client write preserves the type invariant.                            *)
LEMMA TInvWrite ==
  ASSUME TInv
  PROVE  \A n \in Nodes, r \in Rooms, op \in {"put", "del"} : Write(n, r, op) => TInv'
<1>. USE DEF TInv
<1>1. ASSUME NEW n \in Nodes, NEW r \in Rooms, NEW op \in {"put", "del"}, Write(n, r, op)
      PROVE  TInv'
  <2>1. PICK e \in Entries :
           /\ Apply(n, e) /\ e.ver.ts > clock[n]
           /\ clock' = [clock EXCEPT ![n] = e.ver.ts]
           /\ heard' = [heard EXCEPT ![n] = @ \cup {e}]
           /\ UNCHANGED <<frontier, known, watermark, inode, linkVars, faults>>
    BY <1>1, WriteEffect
  <2>2. e.ver.ts \in Nat /\ clock[n] \in Nat
    BY DEF Entries, Version, TypeOK
  <2>3. Stamped' /\ \A p \in Nodes : Len(aof[p]) <= Len(aof'[p])
    <3>1. clock[n] <= e.ver.ts /\ e.ver.ts <= e.ver.ts
      BY <2>1, <2>2
    <3>. QED
      BY <2>1, <2>2, <3>1, ApplyKeepsStamped, Zenon
  <2>4. /\ db' \in [Nodes -> [Rooms -> Version \cup {None}]]
        /\ tomb' \in [Nodes -> [Rooms -> Version \cup {None}]]
        /\ aof' \in [Nodes -> Seq(Entries)]
    BY <2>1, ApplyEffect, Zenon
  <2>5. /\ clock' \in [Nodes -> Nat \ {0}] /\ heard' \in [Nodes -> SUBSET Entries]
    BY <2>1, <2>2 DEF TypeOK
  <2>6. UNCHANGED <<frontier, known, watermark, inode, peer, link, croom, faults>>
    BY <2>1 DEF linkVars
  <2>7. ASSUME NEW p \in Nodes, NEW q \in Nodes
        PROVE  CursorOK(p, q)'
    <3>1. Len(aof[p]) <= Len(aof'[p]) /\ Len(aof'[p]) \in Nat
      BY <2>3, <2>4
    <3>2. link'[p][q] = link[p][q] /\ peer'[p][q] = peer[p][q] /\ inode'[p] = inode[p]
      BY <2>6
    <3>. QED
      BY <3>1, <3>2, CursorKept
  <2>8. TypeOK'
    <3>1. /\ link' \in [Nodes -> [Nodes -> Batches]] /\ peer' \in [Nodes -> [Nodes -> Cursor]]
      BY <2>6 DEF TypeOK
    <3>2. \A p, q \in Nodes : peer'[p][q].ino = inode'[p] => peer'[p][q].off <= Len(aof'[p])
      BY <2>4, <2>7, <3>1, CursorImpliesLast, Zenon
    <3>. QED
      BY <2>4, <2>5, <2>6, <3>2 DEF TypeOK
  <2>. QED
    BY <2>3, <2>7, <2>8
<1>. QED
  BY <1>1

(* A step of a thread that changes no node, but for its batch and cursor.  *)
LEMMA LinkOnlyStep ==
  ASSUME TInv, NEW n \in Nodes, NEW m \in Nodes, Elsewhere(n, m), CursorOK(n, m)',
         link' \in [Nodes -> [Nodes -> Batches]], peer' \in [Nodes -> [Nodes -> Cursor]],
         croom' \in [Nodes -> [Nodes -> Rooms]], faults' \in Nat,
         UNCHANGED <<nodeVars, logVars, heard>>
  PROVE  TInv'
<1>1. UNCHANGED <<db, tomb, clock, frontier, known, watermark, aof, inode, heard>>
  BY DEF nodeVars, logVars
<1>2. TypeOK /\ Stamped
  BY DEF TInv
<1>3. \A p \in Nodes : Len(aof'[p]) \in Nat /\ Len(aof[p]) <= Len(aof'[p])
  BY <1>1, <1>2, BatchFacts
<1>4. \A p, q \in Nodes : CursorOK(p, q)'
  BY <1>1, <1>3, CursorStep
<1>5. aof' \in [Nodes -> Seq(Entries)]
  BY <1>1, <1>2 DEF TypeOK
<1>6. \A p, q \in Nodes : peer'[p][q].ino = inode'[p] => peer'[p][q].off <= Len(aof'[p])
  BY <1>4, <1>5, CursorImpliesLast
<1>7. TypeOK'
  BY <1>1, <1>2, <1>6, Zenon DEF TypeOK
<1>8. Stamped'
  BY <1>1, <1>2, Zenon DEF Stamped
<1>. QED
  BY <1>4, <1>7, <1>8 DEF TInv

(* The steps of a thread and of the link keep the invariant.               *)
LEMMA TInvLinkSteps ==
  ASSUME LeastNumber, TInv, NEW n \in Nodes, NEW m \in Nodes,
         \/ ReadFrontier(n, m) \/ BuildBatch(n, m) \/ BatchDone(n, m)
         \/ ConnectionLost(n, m) \/ DeliverRefused(n, m) \/ DeliverRoom(n, m)
  PROVE  TInv'
<1>0. /\ TypeOK /\ CursorOK(n, m) /\ croom \in [Nodes -> [Nodes -> Rooms]] /\ faults \in Nat
      /\ Len(link[n][m].buf) \in Nat /\ peer[n][m].off \in Nat /\ Len(aof[n]) \in Nat
      /\ link[n][m].bad \in Nat /\ peer[n][m].ino \in Nat /\ inode[n] \in Nat
      /\ peer \in [Nodes -> [Nodes -> Cursor]]
  BY BatchFacts, Zenon DEF TInv, TypeOK
<1>00. /\ CursorOK(n, m) /\ Len(link[n][m].buf) \in Nat /\ peer[n][m].off \in Nat /\ Len(aof[n]) \in Nat
       /\ link[n][m].bad \in Nat /\ peer[n][m].ino \in Nat /\ inode[n] \in Nat
  BY <1>0, Zenon
<1>01. Len(<<>>) = 0
  OBVIOUS
<1>02. NoBatch.bad = 0 /\ NoBatch.buf = <<>>
  BY DEF NoBatch
<1>1. CASE ReadFrontier(n, m)
  <2>1. UNCHANGED <<nodeVars, logVars, heard>> /\ croom' = croom /\ faults' = faults /\ UNCHANGED <<inode, aof>>
    BY <1>1 DEF ReadFrontier, logVars
  <2>2. /\ link' \in [Nodes -> [Nodes -> Batches]] /\ peer' \in [Nodes -> [Nodes -> Cursor]]
        /\ Elsewhere(n, m) /\ peer'[n][m] = peer[n][m]
        /\ link'[n][m].buf = <<>> /\ link'[n][m].bad = 0
    BY <1>0, <1>1, ReadFrontierEffect, Zenon
  <2>3. /\ UNCHANGED <<inode, aof>> /\ peer'[n][m] = peer[n][m]
        /\ link'[n][m].bad = 0 /\ Len(link'[n][m].buf) = 0
    BY <1>01, <2>1, <2>2, Zenon
  <2>4. CursorOK(n, m)'
    BY <1>00, <2>3 DEF CursorOK
  <2>. QED
    BY <1>0, <2>1, <2>2, <2>4, LinkOnlyStep, Zenon
<1>2. CASE BuildBatch(n, m)
  <2>1. UNCHANGED <<nodeVars, logVars, heard>> /\ croom' = croom /\ faults' = faults /\ UNCHANGED <<inode, aof>>
    BY <1>2, Zenon DEF BuildBatch, logVars
  <2>2. /\ link' \in [Nodes -> [Nodes -> Batches]] /\ peer' \in [Nodes -> [Nodes -> Cursor]]
        /\ Elsewhere(n, m)
        /\ peer'[n][m].ino = inode[n] /\ peer'[n][m].off = Offset(n, m)
        /\ link'[n][m].bad = 0
        /\ Offset(n, m) + Len(link'[n][m].buf) <= Len(aof[n])
    BY <1>0, <1>2, BuildBatchEffect, Zenon
  <2>3. Len(link'[n][m].buf) \in Nat
    <3>1. link'[n][m].buf \in Seq(Entries)
      BY <2>2, Zenon DEF Batches
    <3>. QED
      BY <3>1
  <2>31. /\ UNCHANGED <<inode, aof>> /\ link'[n][m].bad = 0
         /\ peer'[n][m].ino = inode[n] /\ peer'[n][m].off = Offset(n, m)
         /\ Offset(n, m) + Len(link'[n][m].buf) <= Len(aof[n])
    BY <2>1, <2>2, Zenon
  <2>4. CursorOK(n, m)'
    BY <1>00, <2>3, <2>31 DEF CursorOK
  <2>. QED
    BY <1>0, <2>1, <2>2, <2>4, LinkOnlyStep, Zenon
<1>3. CASE BatchDone(n, m)
  <2>1. UNCHANGED <<nodeVars, logVars, heard>> /\ croom' = croom /\ faults' = faults /\ UNCHANGED <<inode, aof>>
    BY <1>3, Zenon DEF BatchDone, logVars
  <2>2. /\ link' \in [Nodes -> [Nodes -> Batches]] /\ peer' \in [Nodes -> [Nodes -> Cursor]]
        /\ Elsewhere(n, m) /\ link'[n][m] = NoBatch
        /\ peer'[n][m].ino = peer[n][m].ino /\ peer'[n][m].off = OffsetAfter(n, m)
        /\ OffsetAfter(n, m) \in Nat
        /\ OffsetAfter(n, m) <= peer[n][m].off + Len(link[n][m].buf)
    BY <1>3, BatchDoneEffect, Zenon
  <2>21. /\ OffsetAfter(n, m) \in Nat
         /\ OffsetAfter(n, m) <= peer[n][m].off + Len(link[n][m].buf)
    BY <2>2, Zenon
  <2>3. peer[n][m].ino = inode[n] => OffsetAfter(n, m) + 0 <= Len(aof[n])
    <3>1. \A a, b, c, d \in Nat : a <= b + c /\ b + c <= d => a + 0 <= d
      OBVIOUS
    <3>2. peer[n][m].ino = inode[n] => peer[n][m].off + Len(link[n][m].buf) <= Len(aof[n])
      BY <1>00, Zenon DEF CursorOK
    <3>. QED
      BY <1>00, <2>21, <3>1, <3>2, Zenon
  <2>31. /\ UNCHANGED <<inode, aof>> /\ link'[n][m].bad = 0 /\ Len(link'[n][m].buf) = 0
         /\ peer'[n][m].ino = peer[n][m].ino /\ peer'[n][m].off = OffsetAfter(n, m)
    BY <1>01, <1>02, <2>1, <2>2, Zenon
  <2>4. CursorOK(n, m)'
    BY <1>00, <2>3, <2>31 DEF CursorOK
  <2>. QED
    BY <1>0, <2>1, <2>2, <2>4, LinkOnlyStep, Zenon
<1>4. CASE ConnectionLost(n, m)
  <2>1. UNCHANGED <<nodeVars, logVars, heard>> /\ faults' = faults + 1 /\ UNCHANGED <<inode, aof>>
    BY <1>4 DEF ConnectionLost, Disturb, logVars
  <2>2. /\ link' \in [Nodes -> [Nodes -> Batches]] /\ peer' \in [Nodes -> [Nodes -> Cursor]]
        /\ Elsewhere(n, m) /\ link'[n][m] = NoBatch
        /\ peer'[n][m].ino = peer[n][m].ino /\ peer'[n][m].off = OffsetAfterLoss(n, m)
    BY <1>0, <1>4, ConnectionLostEffect, Zenon
  <2>3. /\ OffsetAfterLoss(n, m) \in Nat
        /\ OffsetAfterLoss(n, m) <= peer[n][m].off + Len(link[n][m].buf)
    BY <1>0, OffsetAfterLossWithin
  <2>4. peer[n][m].ino = inode[n] => OffsetAfterLoss(n, m) + 0 <= Len(aof[n])
    <3>1. \A a, b, c, d \in Nat : a <= b + c /\ b + c <= d => a + 0 <= d
      OBVIOUS
    <3>2. peer[n][m].ino = inode[n] => peer[n][m].off + Len(link[n][m].buf) <= Len(aof[n])
      BY <1>00, Zenon DEF CursorOK
    <3>. QED
      BY <1>00, <2>3, <3>1, <3>2, Zenon
  <2>41. /\ UNCHANGED <<inode, aof>> /\ link'[n][m].bad = 0 /\ Len(link'[n][m].buf) = 0
         /\ peer'[n][m].ino = peer[n][m].ino /\ peer'[n][m].off = OffsetAfterLoss(n, m)
    BY <1>01, <1>02, <2>1, <2>2, Zenon
  <2>5. CursorOK(n, m)'
    BY <1>00, <2>4, <2>41 DEF CursorOK
  <2>6. croom' \in [Nodes -> [Nodes -> Rooms]] /\ faults' \in Nat
    <3>1. croom' = [croom EXCEPT ![m][n] = Default] /\ croom \in [Nodes -> [Nodes -> Rooms]]
      BY <1>0, <1>4, Zenon DEF ConnectionLost
    <3>2. faults' = faults + 1 /\ faults \in Nat
      BY <1>0, <2>1, Zenon
    <3>. QED
      BY <3>1, <3>2, RoomsAssumption
  <2>. QED
    BY <2>1, <2>2, <2>5, <2>6, LinkOnlyStep, Zenon
<1>5. CASE DeliverRefused(n, m)
  <2>. DEFINE bad == IF link[n][m].bad = 0 THEN NextUp(n, m) ELSE link[n][m].bad
  <2>1. /\ UNCHANGED <<nodeVars, logVars, heard>> /\ faults' = faults + 1 /\ UNCHANGED <<inode, aof>>
        /\ peer' = peer /\ croom' = croom /\ Pending(n, m) # {}
    BY <1>5, Zenon DEF DeliverRefused, Disturb, logVars
  <2>2. RoomReply(n, m, bad) \/ WriteReply(n, m, bad)
    BY <1>5, Zenon DEF DeliverRefused
  <2>3. NextUp(n, m) \in 1..Len(link[n][m].buf)
    BY <1>0, <2>1, NextUpIsPending, Zenon
  <2>4. bad \in Nat /\ bad <= Len(link[n][m].buf)
    BY <1>00, <2>3 DEF CursorOK
  <2>. HIDE DEF bad
  <2>5. /\ link' \in [Nodes -> [Nodes -> Batches]] /\ Elsewhere(n, m)
        /\ link'[n][m].buf = link[n][m].buf /\ link'[n][m].bad = bad
    <3>1. CASE RoomReply(n, m, bad)
      BY <1>0, <2>1, <2>4, <3>1, RoomReplyEffect, Zenon
    <3>2. CASE WriteReply(n, m, bad)
      BY <1>0, <2>1, <2>4, <3>2, WriteReplyEffect, ZenonT(30)
    <3>. QED
      BY <2>2, <3>1, <3>2, Zenon
  <2>6. CursorOK(n, m)'
    BY <1>0, <2>1, <2>4, <2>5, Zenon DEF CursorOK
  <2>7. faults' \in Nat
    BY <1>0, <2>1
  <2>. QED
    BY <1>0, <2>1, <2>5, <2>6, <2>7, LinkOnlyStep, Zenon
<1>6. CASE DeliverRoom(n, m)
  <2>1. /\ UNCHANGED <<nodeVars, logVars, heard>> /\ faults' = faults /\ UNCHANGED <<inode, aof>>
        /\ peer' = peer /\ Pending(n, m) # {}
        /\ RoomReply(n, m, link[n][m].bad) /\ croom' = [croom EXCEPT ![m][n] = Sent(n, m).room]
    BY <1>6 DEF DeliverRoom, logVars
  <2>2. Sent(n, m).room \in Rooms
    BY <1>0, <2>1, NextUpIsPending, Zenon DEF Entries
  <2>3. croom' \in [Nodes -> [Nodes -> Rooms]]
    BY <1>0, <2>1, <2>2, Zenon
  <2>4. /\ link' \in [Nodes -> [Nodes -> Batches]] /\ Elsewhere(n, m)
        /\ link'[n][m].buf = link[n][m].buf /\ link'[n][m].bad = link[n][m].bad
    BY <1>0, <2>1, RoomReplyEffect, Zenon
  <2>5. CursorOK(n, m)'
    BY <1>0, <2>1, <2>4, Zenon DEF CursorOK
  <2>. QED
    BY <1>0, <2>1, <2>3, <2>4, <2>5, LinkOnlyStep, Zenon
<1>. QED
  BY <1>1, <1>2, <1>3, <1>4, <1>5, <1>6

(* A frontier takes tombstones away and leaves the others as they are.     *)
LEMMA TombsAfterFrontier ==
  ASSUME TypeOK, NEW n \in Nodes, NEW m \in Peers(n), DeliverFrontier(n, m)
  PROVE  \A p \in Nodes, r \in Rooms : tomb'[p][r] \in {None, tomb[p][r]}
<1>1. PICK w : tomb' = [tomb EXCEPT ![m] = [r \in Rooms |->
             IF tomb[m][r] # None /\ tomb[m][r].ts <= w THEN None ELSE tomb[m][r]]]
  BY Zenon DEF DeliverFrontier
<1>2. m \in Nodes /\ tomb \in [Nodes -> [Rooms -> Version \cup {None}]]
  BY Zenon DEF TypeOK, Peers
<1>3. \A r \in Rooms : tomb'[m][r] =
        IF tomb[m][r] # None /\ tomb[m][r].ts <= w THEN None ELSE tomb[m][r]
  BY <1>1, <1>2
<1>4. \A p \in Nodes \ {m} : tomb'[p] = tomb[p]
  BY <1>1, <1>2
<1>. QED
  BY <1>3, <1>4, Zenon

(* While the clocks grow the versions stay below them.                     *)
LEMMA StampedLater ==
  ASSUME TypeOK, Stamped, clock' \in [Nodes -> Nat \ {0}], \A p \in Nodes : clock[p] <= clock'[p],
         UNCHANGED <<aof, db>>,
         \A p \in Nodes, r \in Rooms : tomb'[p][r] \in {None, tomb[p][r]}
  PROVE  Stamped'
<1>. SUFFICES ASSUME NEW p \in Nodes
              PROVE  /\ \A i \in DOMAIN aof[p] : aof[p][i].ver.ts <= clock'[p]
                     /\ \A r \in Rooms : /\ db[p][r] # None => db[p][r].ts <= clock'[p]
                                         /\ tomb'[p][r] # None => tomb'[p][r].ts <= clock'[p]
  BY DEF Stamped
<1>1. clock[p] \in Nat /\ clock'[p] \in Nat /\ clock[p] <= clock'[p]
  BY DEF TypeOK
<1>2. ASSUME NEW i \in DOMAIN aof[p]
      PROVE  aof[p][i].ver.ts <= clock'[p]
  <2>1. aof[p] \in Seq(Entries)
    BY DEF TypeOK
  <2>2. aof[p][i] \in Entries
    BY <2>1
  <2>3. aof[p][i].ver.ts \in Nat
    BY <2>2 DEF Entries, Version
  <2>4. aof[p][i].ver.ts <= clock[p]
    BY DEF Stamped
  <2>. QED
    BY <1>1, <2>3, <2>4
<1>3. ASSUME NEW r \in Rooms
      PROVE  /\ db[p][r] # None => db[p][r].ts <= clock'[p]
             /\ tomb[p][r] # None => tomb[p][r].ts <= clock'[p]
  <2>1. db[p][r] \in Version \cup {None} /\ tomb[p][r] \in Version \cup {None}
    BY DEF TypeOK
  <2>2. /\ db[p][r] # None => db[p][r].ts \in Nat
        /\ tomb[p][r] # None => tomb[p][r].ts \in Nat
    BY <2>1 DEF Version
  <2>3. /\ db[p][r] # None => db[p][r].ts <= clock[p]
        /\ tomb[p][r] # None => tomb[p][r].ts <= clock[p]
    BY DEF Stamped
  <2>. QED
    BY <1>1, <2>2, <2>3
<1>. QED
  BY <1>2, <1>3

(* An executed merge and a frontier keep the invariant.                    *)
LEMMA TInvDeliver ==
  ASSUME LeastNumber, TInv, NEW n \in Nodes, NEW m \in Peers(n), DeliverWrite(n, m) \/ DeliverFrontier(n, m)
  PROVE  TInv'
<1>0. /\ TypeOK /\ Stamped /\ CursorOK(n, m) /\ m \in Nodes
      /\ Len(link[n][m].buf) \in Nat /\ peer[n][m].off \in Nat /\ Len(aof[n]) \in Nat
      /\ link[n][m].bad \in Nat /\ peer \in [Nodes -> [Nodes -> Cursor]]
  BY BatchFacts, Zenon DEF TInv, TypeOK, Peers
<1>1. CASE DeliverWrite(n, m)
  <2>1. /\ Pending(n, m) # {} /\ WriteReply(n, m, link[n][m].bad) /\ peer' = peer
    BY <1>1, Zenon DEF DeliverWrite
  <2>2. /\ link' \in [Nodes -> [Nodes -> Batches]] /\ Elsewhere(n, m)
        /\ link'[n][m].buf = link[n][m].buf /\ link'[n][m].bad = link[n][m].bad
    BY <1>0, <2>1, WriteReplyEffect, Zenon
  <2>3. PICK e \in Entries, c \in Nat :
           /\ clock' = [clock EXCEPT ![m] = c] /\ clock[m] <= c /\ e.ver.ts <= c
           /\ heard' = [heard EXCEPT ![m] = @ \cup {e}]
           /\ UNCHANGED <<db, tomb, aof>> \/ Apply(m, e)
           /\ UNCHANGED <<frontier, known, watermark, inode, peer, croom, faults>>
    <3>1. PICK e \in Entries, c \in Nat :
             /\ e.op = Sent(n, m).op /\ e.ver = Sent(n, m).ver /\ e.room = croom[m][n]
             /\ clock' = [clock EXCEPT ![m] = c] /\ clock[m] <= c /\ e.ver.ts <= c
             /\ heard' = [heard EXCEPT ![m] = @ \cup {e}]
             /\ \/ Stale(m, e.room, e.ver) /\ UNCHANGED <<db, tomb, aof>>
                \/ ~Stale(m, e.room, e.ver) /\ Apply(m, e)
             /\ UNCHANGED <<frontier, known, watermark, inode, peer, croom, faults>>
      BY <1>0, <1>1, DeliverWriteEffect, Zenon
    <3>. QED
      BY <3>1, Zenon
  <2>4. /\ clock' \in [Nodes -> Nat \ {0}] /\ heard' \in [Nodes -> SUBSET Entries]
        /\ \A p \in Nodes : clock[p] <= clock'[p]
    <3>1. clock \in [Nodes -> Nat \ {0}] /\ heard \in [Nodes -> SUBSET Entries]
      BY <1>0, Zenon DEF TypeOK
    <3>2. c \in Nat \ {0}
      BY <1>0, <2>3, <3>1
    <3>. QED
      BY <1>0, <2>3, <3>1, <3>2
  <2>5. /\ db' \in [Nodes -> [Rooms -> Version \cup {None}]]
        /\ tomb' \in [Nodes -> [Rooms -> Version \cup {None}]]
        /\ aof' \in [Nodes -> Seq(Entries)]
    <3>1. CASE UNCHANGED <<db, tomb, aof>>
      BY <1>0, <3>1, Zenon DEF TypeOK
    <3>2. CASE Apply(m, e)
      BY <1>0, <3>2, ApplyEffect, Zenon
    <3>. QED
      BY <2>3, <3>1, <3>2, Zenon
  <2>6. Stamped' /\ \A p \in Nodes : Len(aof[p]) <= Len(aof'[p])
    <3>1. CASE UNCHANGED <<db, tomb, aof>>
      <4>1. \A p \in Nodes : Len(aof[p]) <= Len(aof'[p])
        BY <1>0, <3>1, BatchFacts
      <4>2. \A p \in Nodes, r \in Rooms : tomb'[p][r] \in {None, tomb[p][r]}
        BY <3>1
      <4>. QED
        BY <1>0, <2>4, <3>1, <4>1, <4>2, StampedLater, Zenon
    <3>2. CASE Apply(m, e)
      BY <1>0, <2>3, <3>2, ApplyKeepsStamped, Zenon
    <3>. QED
      BY <2>3, <3>1, <3>2, Zenon
  <2>7. \A p \in Nodes : Len(aof'[p]) \in Nat /\ Len(aof[p]) <= Len(aof'[p])
    BY <2>5, <2>6
  <2>8. CursorOK(n, m)'
    <3>1. peer[n][m].ino = inode[n] => peer[n][m].off + Len(link[n][m].buf) <= Len(aof'[n])
      <4>1. SUFFICES ASSUME peer[n][m].ino = inode[n]
                     PROVE  peer[n][m].off + Len(link[n][m].buf) <= Len(aof'[n])
        OBVIOUS
      <4>2. peer[n][m].off + Len(link[n][m].buf) <= Len(aof[n])
        BY <1>0, <4>1, Zenon DEF CursorOK
      <4>3. Len(aof'[n]) \in Nat /\ Len(aof[n]) <= Len(aof'[n])
        BY <2>7
      <4>. QED
        BY <1>0, <4>2, <4>3, SumWithin, Zenon
    <3>. QED
      BY <1>0, <2>2, <2>3, <3>1, Zenon DEF CursorOK
  <2>9. \A p, q \in Nodes : CursorOK(p, q)'
    BY <1>0, <2>2, <2>3, <2>7, <2>8, CursorStep, Zenon
  <2>10. \A p, q \in Nodes : peer'[p][q].ino = inode'[p] => peer'[p][q].off <= Len(aof'[p])
    BY <1>0, <2>1, <2>2, <2>5, <2>9, CursorImpliesLast, Zenon
  <2>11. TypeOK'
    BY <1>0, <2>2, <2>3, <2>4, <2>5, <2>10, Zenon DEF TypeOK
  <2>. QED
    BY <2>6, <2>9, <2>11 DEF TInv
<1>2. CASE DeliverFrontier(n, m)
  <2>1. /\ link' \in [Nodes -> [Nodes -> Batches]] /\ Elsewhere(n, m)
        /\ link'[n][m].buf = link[n][m].buf /\ link'[n][m].bad = link[n][m].bad
    BY <1>0, <1>2, FrontierReplyEffect, Zenon
  <2>2. UNCHANGED <<db, aof, inode, peer, croom, heard, faults>>
    BY <1>2 DEF DeliverFrontier, logVars
  <2>3. /\ known' \in [Nodes -> [Nodes -> Nat]] /\ watermark' \in [Nodes -> Nat]
        /\ tomb' \in [Nodes -> [Rooms -> Version \cup {None}]]
        /\ clock' \in [Nodes -> Nat \ {0}] /\ frontier' \in [Nodes -> Nat \ {0}]
        /\ \A p \in Nodes : clock[p] <= clock'[p]
    BY <1>0, <1>2, DeliverFrontierEffect, Zenon
  <2>4. \A p \in Nodes, r \in Rooms : tomb'[p][r] \in {None, tomb[p][r]}
    BY <1>0, <1>2, TombsAfterFrontier, Zenon
  <2>5. Stamped'
    BY <1>0, <2>2, <2>3, <2>4, StampedLater, Zenon
  <2>6. \A p \in Nodes : Len(aof'[p]) \in Nat /\ Len(aof[p]) <= Len(aof'[p])
    <3>1. aof' = aof /\ \A p \in Nodes : Len(aof[p]) \in Nat
      BY <1>0, <2>2, BatchFacts, Zenon
    <3>2. \A k \in Nat : k <= k
      OBVIOUS
    <3>. QED
      BY <3>1, <3>2, Zenon
  <2>7. CursorOK(n, m)'
    BY <1>0, <2>1, <2>2, Zenon DEF CursorOK
  <2>8. \A p, q \in Nodes : CursorOK(p, q)'
    BY <1>0, <2>1, <2>2, <2>6, <2>7, CursorStep, Zenon
  <2>9. \A p, q \in Nodes : peer'[p][q].ino = inode'[p] => peer'[p][q].off <= Len(aof'[p])
    <3>1. aof' \in [Nodes -> Seq(Entries)]
      BY <1>0, <2>2 DEF TypeOK
    <3>. QED
      BY <1>0, <2>1, <2>2, <2>8, <3>1, CursorImpliesLast, Zenon
  <2>10. TypeOK'
    BY <1>0, <2>1, <2>2, <2>3, <2>9, Zenon DEF TypeOK
  <2>. QED
    BY <2>5, <2>8, <2>10 DEF TInv
<1>. QED
  BY <1>1, <1>2

(* A restart keeps the invariant.                                          *)
LEMMA TInvRestart ==
  ASSUME LeastNumber, TInv, NEW n \in Nodes, Restart(n)
  PROVE  TInv'
<1>0. TypeOK /\ Stamped
  BY DEF TInv
<1>1. /\ faults' = faults + 1 /\ UNCHANGED <<aof, inode, heard>>
      /\ known' = [known EXCEPT ![n] = [m \in Nodes |-> 0]]
      /\ watermark' = [watermark EXCEPT ![n] = 0]
  BY Zenon DEF Restart, Disturb, logVars
<1>2. /\ faults' \in Nat /\ known' \in [Nodes -> [Nodes -> Nat]] /\ watermark' \in [Nodes -> Nat]
      /\ aof' \in [Nodes -> Seq(Entries)] /\ inode' \in [Nodes -> Nat]
      /\ heard' \in [Nodes -> SUBSET Entries]
  <2>1. faults' \in Nat
    BY <1>0, <1>1 DEF TypeOK
  <2>2. /\ known \in [Nodes -> [Nodes -> Nat]] /\ watermark \in [Nodes -> Nat]
        /\ aof' \in [Nodes -> Seq(Entries)] /\ inode' \in [Nodes -> Nat]
        /\ heard' \in [Nodes -> SUBSET Entries]
    BY <1>0, <1>1 DEF TypeOK
  <2>3. known' \in [Nodes -> [Nodes -> Nat]] /\ watermark' \in [Nodes -> Nat]
    BY <1>1, <2>2
  <2>. QED
    BY <2>1, <2>2, <2>3
<1>3. PICK ts \in Nat \ {0} :
              /\ clock' = [clock EXCEPT ![n] = ts] /\ frontier' = [frontier EXCEPT ![n] = ts]
              /\ \A i \in DOMAIN aof[n] : aof[n][i].ver.ts <= ts
  BY <1>0, RestartStore, Zenon
<1>4. /\ clock' \in [Nodes -> Nat \ {0}] /\ frontier' \in [Nodes -> Nat \ {0}]
      /\ clock'[n] = ts /\ \A p \in Nodes \ {n} : clock'[p] = clock[p]
  BY <1>0, <1>3, Zenon DEF TypeOK
<1>5. /\ db' \in [Nodes -> [Rooms -> Version \cup {None}]]
      /\ tomb' \in [Nodes -> [Rooms -> Version \cup {None}]]
      /\ \A p \in Nodes \ {n} : db'[p] = db[p] /\ tomb'[p] = tomb[p]
      /\ \A r \in Rooms : /\ db'[n][r] # None => \E i \in EntriesOf(n, r) : db'[n][r] = aof[n][i].ver
                          /\ tomb'[n][r] # None => \E i \in EntriesOf(n, r) : tomb'[n][r] = aof[n][i].ver
  BY <1>0, RestartStore
<1>6. ASSUME NEW p \in Nodes
      PROVE  /\ \A i \in DOMAIN aof[p] : aof[p][i].ver.ts <= clock'[p]
             /\ \A r \in Rooms : /\ db'[p][r] # None => db'[p][r].ts <= clock'[p]
                                 /\ tomb'[p][r] # None => tomb'[p][r].ts <= clock'[p]
  <2>1. CASE p = n
    <3>1. \A r \in Rooms : EntriesOf(n, r) \subseteq DOMAIN aof[n]
      BY DEF EntriesOf
    <3>. QED
      BY <1>3, <1>4, <1>5, <2>1, <3>1, ZenonT(30)
  <2>2. CASE p # n
    BY <1>0, <1>4, <1>5, <2>2, Zenon DEF Stamped
  <2>. QED
    BY <2>1, <2>2, Zenon
<1>7. Stamped'
  BY <1>1, <1>6 DEF Stamped
<1>8. /\ link' \in [Nodes -> [Nodes -> Batches]] /\ peer' \in [Nodes -> [Nodes -> Cursor]]
      /\ croom' \in [Nodes -> [Nodes -> Rooms]]
  BY <1>0, RestartEffect
<1>9. ASSUME NEW p \in Nodes, NEW q \in Nodes
      PROVE  CursorOK(p, q)'
  <2>0. /\ CursorOK(p, q) /\ Len(link[p][q].buf) \in Nat /\ peer[p][q].off \in Nat
        /\ Len(aof[p]) \in Nat
    BY BatchFacts, Zenon DEF TInv
  <2>1. /\ peer'[p][q].ino = peer[p][q].ino
        /\ n \in {p, q} => link'[p][q] = NoBatch
        /\ n \notin {p, q} => link'[p][q] = link[p][q] /\ peer'[p][q] = peer[p][q]
        /\ p = n => peer'[p][q].off = peer[p][q].off
        /\ p # n /\ q = n => peer'[p][q].off = OffsetAfterLoss(p, q)
    BY <1>0, RestartEffect
  <2>2. NoBatch.bad = 0 /\ NoBatch.buf = <<>> /\ Len(<<>>) = 0
    BY DEF NoBatch
  <2>3. CASE n \notin {p, q}
    BY <1>1, <2>0, <2>1, <2>3 DEF CursorOK
  <2>4. CASE n \in {p, q}
    <3>1. /\ peer'[p][q].off \in Nat
          /\ peer'[p][q].off <= peer[p][q].off + Len(link[p][q].buf)
      <4>1. CASE p = n
        BY <2>0, <2>1, <4>1
      <4>2. CASE p # n /\ q = n
        BY <1>0, <2>0, <2>1, <4>2, OffsetAfterLossWithin, ZenonT(30)
      <4>. QED
        BY <2>4, <4>1, <4>2
    <3>2. ASSUME peer[p][q].ino = inode[p]
          PROVE  peer'[p][q].off + 0 <= Len(aof[p])
      <4>1. peer[p][q].off + Len(link[p][q].buf) <= Len(aof[p])
        BY <2>0, <3>2 DEF CursorOK
      <4>2. \A a, b, c, d \in Nat : a <= b + c /\ b + c <= d => a + 0 <= d
        OBVIOUS
      <4>. QED
        BY <2>0, <3>1, <4>1, <4>2, Zenon
    <3>3. link'[p][q].bad = 0 /\ Len(link'[p][q].buf) = 0
      BY <2>1, <2>2, <2>4
    <3>4. peer[p][q].ino <= inode[p]
      BY <2>0 DEF CursorOK
    <3>. QED
      BY <1>1, <2>1, <3>2, <3>3, <3>4 DEF CursorOK
  <2>. QED
    BY <2>3, <2>4
<1>10. \A p, q \in Nodes : peer'[p][q].ino = inode'[p] => peer'[p][q].off <= Len(aof'[p])
  BY <1>2, <1>8, <1>9, CursorImpliesLast, Zenon
<1>11. TypeOK'
  BY <1>2, <1>4, <1>5, <1>8, <1>10, Zenon DEF TypeOK
<1>. QED
  BY <1>7, <1>9, <1>11 DEF TInv

(* Listed lists the elements of a set of rooms.                            *)
LEMMA ListedOf ==
  ASSUME Listable, NEW S \in SUBSET Rooms
  PROVE  /\ Cardinality(S) \in Nat
         /\ Listed(S) \in [1..Cardinality(S) -> S]
<1>1. Cardinality(S) \in Nat /\ Bijection(1..Cardinality(S), S) # {}
  BY Zenon DEF Listable
<1>2. Listed(S) \in Bijection(1..Cardinality(S), S)
  BY <1>1 DEF Listed
<1>. QED
  BY <1>1, <1>2 DEF Bijection, Injection

(* The log a rewrite leaves holds the records and the tombstones.          *)
LEMMA DumpIsLog ==
  ASSUME Listable, TypeOK, NEW n \in Nodes
  PROVE  /\ DumpOf(n) \in Seq(Entries)
         /\ \A i \in DOMAIN DumpOf(n) : \E r \in Rooms :
              \/ db[n][r] # None /\ DumpOf(n)[i] = Entry("put", r, db[n][r])
              \/ tomb[n][r] # None /\ DumpOf(n)[i] = Entry("del", r, tomb[n][r])
<1>. DEFINE Puts == {r \in Rooms : db[n][r] # None}
            Dels == {r \in Rooms : tomb[n][r] # None}
            P == [i \in 1..Cardinality(Puts) |-> Entry("put", Listed(Puts)[i], db[n][Listed(Puts)[i]])]
            D == [i \in 1..Cardinality(Dels) |-> Entry("del", Listed(Dels)[i], tomb[n][Listed(Dels)[i]])]
<1>1. Puts \in SUBSET Rooms /\ Dels \in SUBSET Rooms
  OBVIOUS
<1>2. /\ Cardinality(Puts) \in Nat /\ Listed(Puts) \in [1..Cardinality(Puts) -> Puts]
      /\ Cardinality(Dels) \in Nat /\ Listed(Dels) \in [1..Cardinality(Dels) -> Dels]
  <2>. HIDE DEF Puts, Dels
  <2>. QED
    BY <1>1, ListedOf
<1>3. /\ \A r \in Puts : r \in Rooms /\ db[n][r] \in Version /\ db[n][r] # None
      /\ \A r \in Dels : r \in Rooms /\ tomb[n][r] \in Version /\ tomb[n][r] # None
  BY DEF TypeOK
<1>4. DumpOf(n) = P \o D
  BY DEF DumpOf
<1>. HIDE DEF Puts, Dels
<1>5. /\ P \in Seq(Entries) /\ Len(P) = Cardinality(Puts)
      /\ \A i \in 1..Len(P) : \E r \in Rooms : db[n][r] # None /\ P[i] = Entry("put", r, db[n][r])
  <2>1. ASSUME NEW i \in 1..Cardinality(Puts)
        PROVE  /\ P[i] \in Entries
               /\ \E r \in Rooms : db[n][r] # None /\ P[i] = Entry("put", r, db[n][r])
    <3>1. PICK r \in Puts : r = Listed(Puts)[i]
      BY <1>2
    <3>2. P[i] = Entry("put", r, db[n][r])
      BY <3>1
    <3>3. Entry("put", r, db[n][r]) \in Entries
      BY <1>3 DEF Entries, Entry
    <3>. QED
      BY <1>3, <3>2, <3>3
  <2>2. DOMAIN P = 1..Cardinality(Puts)
    OBVIOUS
  <2>3. P = [i \in 1..Cardinality(Puts) |-> P[i]]
    OBVIOUS
  <2>. HIDE DEF P
  <2>4. P \in [1..Cardinality(Puts) -> Entries]
    BY <2>1, <2>3
  <2>5. P \in Seq(Entries) /\ Len(P) = Cardinality(Puts)
    BY <1>2, <2>4
  <2>. QED
    BY <2>1, <2>5
<1>6. /\ D \in Seq(Entries) /\ Len(D) = Cardinality(Dels)
      /\ \A i \in 1..Len(D) : \E r \in Rooms : tomb[n][r] # None /\ D[i] = Entry("del", r, tomb[n][r])
  <2>1. ASSUME NEW i \in 1..Cardinality(Dels)
        PROVE  /\ D[i] \in Entries
               /\ \E r \in Rooms : tomb[n][r] # None /\ D[i] = Entry("del", r, tomb[n][r])
    <3>1. PICK r \in Dels : r = Listed(Dels)[i]
      BY <1>2
    <3>2. D[i] = Entry("del", r, tomb[n][r])
      BY <3>1
    <3>3. Entry("del", r, tomb[n][r]) \in Entries
      BY <1>3 DEF Entries, Entry
    <3>. QED
      BY <1>3, <3>2, <3>3
  <2>2. DOMAIN D = 1..Cardinality(Dels)
    OBVIOUS
  <2>3. D = [i \in 1..Cardinality(Dels) |-> D[i]]
    OBVIOUS
  <2>. HIDE DEF D
  <2>4. D \in [1..Cardinality(Dels) -> Entries]
    BY <2>1, <2>3
  <2>5. D \in Seq(Entries) /\ Len(D) = Cardinality(Dels)
    BY <1>2, <2>4
  <2>. QED
    BY <2>1, <2>5
<1>. HIDE DEF P, D
<1>7. P \o D \in Seq(Entries) /\ DOMAIN (P \o D) = 1..(Len(P) + Len(D))
  BY <1>5, <1>6
<1>8. \A i \in 1..(Len(P) + Len(D)) :
        \/ i \in 1..Len(P) /\ (P \o D)[i] = P[i]
        \/ i - Len(P) \in 1..Len(D) /\ (P \o D)[i] = D[i - Len(P)]
  BY <1>5, <1>6
<1>9. ASSUME NEW i \in DOMAIN (P \o D)
      PROVE  \E r \in Rooms :
               \/ db[n][r] # None /\ (P \o D)[i] = Entry("put", r, db[n][r])
               \/ tomb[n][r] # None /\ (P \o D)[i] = Entry("del", r, tomb[n][r])
  <2>1. CASE i \in 1..Len(P) /\ (P \o D)[i] = P[i]
    BY <1>5, <2>1, Zenon
  <2>2. CASE i - Len(P) \in 1..Len(D) /\ (P \o D)[i] = D[i - Len(P)]
    BY <1>6, <2>2, Zenon
  <2>. QED
    BY <1>7, <1>8, <2>1, <2>2, Zenon
<1>. QED
  BY <1>4, <1>7, <1>9, Zenon

(* The log is new and so is its inode: no saved offset belongs to it.      *)
LEMMA TInvRewrite ==
  ASSUME Listable, TInv, NEW n \in Nodes, Rewrite(n)
  PROVE  TInv'
<1>. USE DEF TInv
<1>1. /\ aof' = [aof EXCEPT ![n] = DumpOf(n)] /\ inode' = [inode EXCEPT ![n] = @ + 1]
      /\ UNCHANGED <<db, tomb, clock, frontier, known, watermark, peer, link, croom, heard>>
      /\ faults' = faults + 1
  BY DEF Rewrite, Disturb, nodeVars, linkVars
<1>2. DumpOf(n) \in Seq(Entries)
  BY DumpIsLog
<1>3. aof \in [Nodes -> Seq(Entries)] /\ inode \in [Nodes -> Nat] /\ faults \in Nat
  BY DEF TypeOK
<1>4. /\ aof' \in [Nodes -> Seq(Entries)] /\ inode' \in [Nodes -> Nat]
      /\ aof'[n] = DumpOf(n) /\ inode'[n] = inode[n] + 1
      /\ \A p \in Nodes \ {n} : aof'[p] = aof[p] /\ inode'[p] = inode[p]
  BY <1>1, <1>2, <1>3
<1>5. ASSUME NEW i \in DOMAIN DumpOf(n)
      PROVE  DumpOf(n)[i].ver.ts <= clock[n]
  <2>1. PICK r \in Rooms :
            \/ db[n][r] # None /\ DumpOf(n)[i] = Entry("put", r, db[n][r])
            \/ tomb[n][r] # None /\ DumpOf(n)[i] = Entry("del", r, tomb[n][r])
    BY <1>5, DumpIsLog
  <2>. QED
    BY <2>1 DEF Stamped, Entry
<1>6. Stamped'
  BY <1>1, <1>4, <1>5 DEF Stamped
<1>7. ASSUME NEW p \in Nodes, NEW q \in Nodes
      PROVE  CursorOK(p, q)'
  <2>1. CursorOK(p, q) /\ inode[p] \in Nat /\ peer[p][q].ino \in Nat
    BY BatchFacts
  <2>2. CASE p = n
    <3>1. peer'[p][q].ino # inode'[p] /\ peer'[p][q].ino <= inode'[p]
      BY <1>1, <1>4, <2>1, <2>2 DEF CursorOK
    <3>. QED
      BY <1>1, <2>1, <3>1 DEF CursorOK
  <2>3. CASE p # n
    BY <1>1, <1>4, <2>1, <2>3 DEF CursorOK
  <2>. QED
    BY <2>2, <2>3
<1>8. TypeOK'
  <2>1. /\ link' \in [Nodes -> [Nodes -> Batches]] /\ peer' \in [Nodes -> [Nodes -> Cursor]]
    BY <1>1 DEF TypeOK
  <2>2. \A p, q \in Nodes : peer'[p][q].ino = inode'[p] => peer'[p][q].off <= Len(aof'[p])
    BY <1>4, <1>7, <2>1, CursorImpliesLast
  <2>3. faults' \in Nat
    BY <1>1, <1>3
  <2>. QED
    BY <1>1, <1>4, <2>2, <2>3, Zenon DEF TypeOK
<1>. QED
  BY <1>6, <1>7, <1>8

(* The type invariant is inductive if a rewrite of the log preserves it.   *)
LEMMA TInvStep ==
  ASSUME LeastNumber, Listable, TInv, [Next]_vars
  PROVE  TInv'
<1>1. CASE UNCHANGED vars
  BY <1>1, Zenon DEF vars, nodeVars, logVars, linkVars, TInv, TypeOK, Stamped, CursorOK
<1>2. ASSUME NEW n \in Nodes, NEW r \in Rooms, NEW op \in {"put", "del"}, Write(n, r, op)
      PROVE  TInv'
  BY <1>2, TInvWrite
<1>3. ASSUME NEW n \in Nodes, NEW m \in Peers(n),
             Ship(n, m) \/ DeliverRefused(n, m) \/ ConnectionLost(n, m)
      PROVE  TInv'
  <2>1. m \in Nodes
    BY DEF Peers
  <2>2. CASE DeliverWrite(n, m) \/ DeliverFrontier(n, m)
    BY <2>2, TInvDeliver
  <2>3. CASE \/ ReadFrontier(n, m) \/ BuildBatch(n, m) \/ BatchDone(n, m)
             \/ ConnectionLost(n, m) \/ DeliverRefused(n, m) \/ DeliverRoom(n, m)
    BY <2>1, <2>3, TInvLinkSteps
  <2>. QED
    BY <1>3, <2>2, <2>3 DEF Ship
<1>4. ASSUME NEW n \in Nodes, Rewrite(n) \/ Restart(n)
      PROVE  TInv'
  BY <1>4, TInvRestart, TInvRewrite
<1>. QED
  BY <1>1, <1>2, <1>3, <1>4 DEF Next

(* What a node kept and knew stays so while it hears more.                 *)
LEMMA LoggedKept ==
  ASSUME NEW p \in Nodes, Logged(p), heard[p] \subseteq heard'[p],
         aof'[p] = aof[p], db'[p] = db[p], \A r \in Rooms : tomb'[p][r] \in {None, tomb[p][r]}
  PROVE  Logged(p)'
  BY Zenon DEF Logged, Entry

(* A link that is left alone still sends what its node heard.              *)
LEMMA SendingKept ==
  ASSUME NEW p \in Nodes, NEW q \in Nodes, Sending(p, q), heard[p] \subseteq heard'[p],
         link'[p][q] = link[p][q], peer'[p][q] = peer[p][q], croom'[q][p] = croom[q][p]
  PROVE  Sending(p, q)'
  BY DEF Sending, Believed

(* A node that applies an entry heard it.                                  *)
LEMMA LoggedApply ==
  ASSUME TypeOK, NEW n \in Nodes, NEW e \in Entries, Apply(n, e), Logged(n),
         heard' = [heard EXCEPT ![n] = @ \cup {e}]
  PROVE  Logged(n)' /\ \A p \in Nodes : Logged(p) => Logged(p)'
<1>0. heard \in [Nodes -> SUBSET Entries] /\ aof[n] \in Seq(Entries)
  BY DEF TypeOK
<1>1. heard'[n] = heard[n] \cup {e} /\ \A p \in Nodes \ {n} : heard'[p] = heard[p]
  BY <1>0
<1>2. /\ aof'[n] = Append(aof[n], e)
      /\ \A p \in Nodes \ {n} : db'[p] = db[p] /\ tomb'[p] = tomb[p] /\ aof'[p] = aof[p]
      /\ \A r \in Rooms \ {e.room} : db'[n][r] = db[n][r] /\ tomb'[n][r] = tomb[n][r]
      /\ db'[n][e.room] = IF e.op = "put" THEN e.ver ELSE None
      /\ tomb'[n][e.room] \in {tomb[n][e.room], None} \cup (IF e.op = "del" THEN {e.ver} ELSE {})
  BY ApplyEffect, ZenonT(30)
<1>3. e = Entry(e.op, e.room, e.ver) /\ e.op \in {"put", "del"} /\ e.room \in Rooms
  BY DEF Entries, Entry
<1>4. ASSUME NEW i \in DOMAIN aof'[n]
      PROVE  aof'[n][i] \in heard'[n]
  <2>1. i \in 1..(Len(aof[n]) + 1) /\ Len(aof[n]) \in Nat
    BY <1>0, <1>2
  <2>2. CASE i = Len(aof[n]) + 1
    BY <1>0, <1>1, <1>2, <2>2
  <2>3. CASE i \in 1..Len(aof[n])
    <3>0. aof[n] \in Seq(Entries) /\ aof'[n] = Append(aof[n], e)
      BY <1>0, <1>2, Zenon
    <3>1. aof'[n][i] = aof[n][i] /\ i \in DOMAIN aof[n]
      BY <2>1, <2>3, <3>0
    <3>. QED
      BY <1>1, <3>1 DEF Logged
  <2>. QED
    BY <2>1, <2>2, <2>3
<1>5. ASSUME NEW r \in Rooms
      PROVE  /\ db'[n][r] # None => Entry("put", r, db'[n][r]) \in heard'[n]
             /\ tomb'[n][r] # None => Entry("del", r, tomb'[n][r]) \in heard'[n]
  <2>0. /\ db[n][r] # None => Entry("put", r, db[n][r]) \in heard[n]
        /\ tomb[n][r] # None => Entry("del", r, tomb[n][r]) \in heard[n]
    BY DEF Logged
  <2>1. CASE r # e.room
    BY <1>1, <1>2, <2>0, <2>1, Zenon
  <2>2. CASE r = e.room /\ e.op = "put"
    <3>1. db'[n][r] = e.ver /\ tomb'[n][r] \in {tomb[n][r], None}
      BY <1>2, <2>2, Zenon
    <3>2. Entry("put", r, e.ver) = e
      BY <1>3, <2>2
    <3>. QED
      BY <1>1, <2>0, <3>1, <3>2, Zenon
  <2>3. CASE r = e.room /\ e.op = "del"
    <3>1. db'[n][r] = None /\ tomb'[n][r] \in {tomb[n][r], None, e.ver}
      BY <1>2, <2>3
    <3>2. Entry("del", r, e.ver) = e
      BY <1>3, <2>3
    <3>. QED
      BY <1>1, <2>0, <3>1, <3>2
  <2>. QED
    BY <1>3, <2>1, <2>2, <2>3, Zenon
<1>6. Logged(n)'
  BY <1>4, <1>5 DEF Logged
<1>7. ASSUME NEW p \in Nodes, p # n, Logged(p)
      PROVE  Logged(p)'
  <2>1. /\ heard[p] \subseteq heard'[p] /\ aof'[p] = aof[p] /\ db'[p] = db[p]
        /\ \A r \in Rooms : tomb'[p][r] \in {None, tomb[p][r]}
    BY <1>1, <1>2, <1>7
  <2>. QED
    BY <1>7, <2>1, LoggedKept, Zenon
<1>. QED
  BY <1>6, <1>7

(* Rooms are apart at first.                                               *)
LEMMA RInvInit == Init => RInv
<1>. SUFFICES ASSUME Init
              PROVE  RInv
  OBVIOUS
<1>1. /\ peer = [n \in Nodes |-> [m \in Nodes |-> [ino |-> 0, off |-> 0, room |-> None]]]
      /\ link = [n \in Nodes |-> [m \in Nodes |-> NoBatch]]
      /\ aof = [n \in Nodes |-> <<>>] /\ heard = [n \in Nodes |-> {}]
      /\ db = [n \in Nodes |-> [r \in Rooms |-> None]]
      /\ tomb = [n \in Nodes |-> [r \in Rooms |-> None]]
  BY DEF Init
<1>2. DOMAIN <<>> = {}
  OBVIOUS
<1>3. NoBatch.pc = "idle" /\ NoBatch.buf = <<>>
  BY DEF NoBatch
<1>4. Genuine
  BY <1>1 DEF Genuine
<1>5. \A n \in Nodes : Logged(n)
  BY <1>1, <1>2 DEF Logged
<1>6. ASSUME NEW n \in Nodes, NEW m \in Nodes
      PROVE  Sending(n, m)
  <2>1. link[n][m] = NoBatch /\ peer[n][m].room = None
    BY <1>1
  <2>. QED
    BY <1>2, <1>3, <2>1 DEF Sending, Believed
<1>. QED
  BY <1>4, <1>5, <1>6 DEF RInv

(* A step of a thread that changes no node.                                *)
LEMMA RInvQuiet ==
  ASSUME RInv, NEW n \in Nodes, NEW m \in Nodes, Elsewhere(n, m), Sending(n, m)',
         \A p, q \in Nodes : p # n \/ q # m => croom'[q][p] = croom[q][p],
         UNCHANGED <<nodeVars, logVars, heard>>
  PROVE  RInv'
<1>1. UNCHANGED <<db, tomb, aof, heard>>
  BY DEF nodeVars, logVars
<1>2. Genuine'
  BY <1>1, Zenon DEF RInv, Genuine
<1>3. ASSUME NEW p \in Nodes
      PROVE  Logged(p)'
  BY <1>1, LoggedKept, Zenon DEF RInv
<1>4. ASSUME NEW p \in Nodes, NEW q \in Nodes
      PROVE  Sending(p, q)'
  <2>1. CASE p = n /\ q = m
    BY <2>1
  <2>2. CASE p # n \/ q # m
    <3>1. /\ link'[p][q] = link[p][q] /\ peer'[p][q] = peer[p][q] /\ croom'[q][p] = croom[q][p]
          /\ heard[p] \subseteq heard'[p] /\ Sending(p, q)
      BY <1>1, <2>2 DEF Elsewhere, RInv
    <3>. QED
      BY <3>1, SendingKept
  <2>. QED
    BY <2>1, <2>2
<1>. QED
  BY <1>2, <1>3, <1>4 DEF RInv

(* The steps of a thread keep the rooms apart.                             *)
LEMMA RInvThread ==
  ASSUME LeastNumber, TInv, RInv, NEW n \in Nodes, NEW m \in Nodes,
         \/ ReadFrontier(n, m) \/ BuildBatch(n, m) \/ BatchDone(n, m)
         \/ ConnectionLost(n, m) \/ DeliverRoom(n, m)
  PROVE  RInv'
<1>0. /\ TypeOK /\ Sending(n, m) /\ Logged(n) /\ croom \in [Nodes -> [Nodes -> Rooms]]
      /\ link[n][m].pc \in {"idle", "read", "sent"}
  BY BatchFacts, Zenon DEF TInv, RInv, TypeOK
<1>01. DOMAIN <<>> = {}
  OBVIOUS
<1>02. NoBatch.pc = "idle" /\ NoBatch.buf = <<>>
  BY DEF NoBatch
<1>1. CASE ReadFrontier(n, m)
  <2>1. /\ UNCHANGED <<nodeVars, logVars, heard>> /\ croom' = croom /\ heard' = heard
        /\ link[n][m].pc = "idle"
    BY <1>1 DEF ReadFrontier
  <2>2. /\ Elsewhere(n, m) /\ peer'[n][m] = peer[n][m]
        /\ link'[n][m].buf = <<>> /\ link'[n][m].pc = "read"
    BY <1>0, <1>1, ReadFrontierEffect, Zenon
  <2>3. Sending(n, m)'
    BY <1>0, <1>01, <2>1, <2>2, Zenon DEF Sending, Believed
  <2>. QED
    BY <2>1, <2>2, <2>3, RInvQuiet
<1>2. CASE BuildBatch(n, m)
  <2>1. /\ UNCHANGED <<nodeVars, logVars, heard>> /\ croom' = croom /\ heard' = heard
        /\ link[n][m].pc = "read"
    BY <1>2, Zenon DEF BuildBatch
  <2>2. /\ Elsewhere(n, m) /\ link'[n][m].pc = "sent" /\ link'[n][m].room = peer[n][m].room
        /\ Offset(n, m) + Len(link'[n][m].buf) <= Len(aof[n])
        /\ \A j \in DOMAIN link'[n][m].buf : link'[n][m].buf[j] = aof[n][Offset(n, m) + j]
    BY <1>0, <1>2, BuildBatchEffect, Zenon
  <2>3. Offset(n, m) \in Nat /\ aof[n] \in Seq(Entries)
    BY <1>0, BatchFacts, Zenon DEF Offset
  <2>4. link'[n][m].buf \in Seq(Entries)
    <3>1. link' \in [Nodes -> [Nodes -> Batches]]
      BY <1>0, <1>2, BuildBatchEffect, Zenon
    <3>. QED
      BY <3>1 DEF Batches
  <2>5. ASSUME NEW j \in DOMAIN link'[n][m].buf
        PROVE  link'[n][m].buf[j] \in heard[n]
    <3>0. \A s \in Seq(Entries) : Len(s) \in Nat /\ DOMAIN s = 1..Len(s)
      OBVIOUS
    <3>1. j \in 1..Len(link'[n][m].buf) /\ Len(link'[n][m].buf) \in Nat /\ Len(aof[n]) \in Nat
      BY <2>3, <2>4, <3>0, Zenon
    <3>2. Offset(n, m) + j \in 1..Len(aof[n])
      BY <2>2, <2>3, <3>1
    <3>3. Offset(n, m) + j \in DOMAIN aof[n]
      BY <2>3, <3>2
    <3>. QED
      BY <1>0, <2>2, <3>3, Zenon DEF Logged
  <2>6. Sending(n, m)'
    BY <1>0, <2>1, <2>2, <2>5, Zenon DEF Sending, Believed
  <2>. QED
    BY <2>1, <2>2, <2>6, RInvQuiet, Zenon
<1>3. CASE BatchDone(n, m)
  <2>1. /\ UNCHANGED <<nodeVars, logVars, heard>> /\ croom' = croom /\ heard' = heard
        /\ link[n][m].pc = "sent"
    BY <1>3, Zenon DEF BatchDone
  <2>2. /\ Elsewhere(n, m) /\ link'[n][m] = NoBatch
        /\ peer'[n][m].room \in {link[n][m].room, None}
    BY <1>3, BatchDoneEffect, Zenon
  <2>3. Sending(n, m)'
    BY <1>0, <1>01, <1>02, <2>1, <2>2, Zenon DEF Sending, Believed
  <2>. QED
    BY <2>1, <2>2, <2>3, RInvQuiet, Zenon
<1>4. CASE ConnectionLost(n, m)
  <2>1. /\ UNCHANGED <<nodeVars, logVars, heard>> /\ heard' = heard
        /\ croom' = [croom EXCEPT ![m][n] = Default]
    BY <1>4 DEF ConnectionLost
  <2>2. /\ Elsewhere(n, m) /\ link'[n][m] = NoBatch /\ peer'[n][m].room = None
    BY <1>0, <1>4, ConnectionLostEffect, Zenon
  <2>3. Sending(n, m)'
    BY <1>01, <1>02, <2>1, <2>2 DEF Sending, Believed
  <2>4. \A p, q \in Nodes : p # n \/ q # m => croom'[q][p] = croom[q][p]
    BY <1>0, <2>1, Zenon
  <2>. QED
    BY <2>1, <2>2, <2>3, <2>4, RInvQuiet
<1>5. CASE DeliverRoom(n, m)
  <2>1. /\ UNCHANGED <<nodeVars, logVars, heard>> /\ heard' = heard /\ peer' = peer
        /\ Pending(n, m) # {} /\ RoomReply(n, m, link[n][m].bad)
        /\ croom' = [croom EXCEPT ![m][n] = Sent(n, m).room]
    BY <1>5 DEF DeliverRoom
  <2>2. link[n][m].bad \in Nat
    BY <1>0, BatchFacts, Zenon
  <2>3. /\ Elsewhere(n, m) /\ link'[n][m].pc = link[n][m].pc
        /\ link'[n][m].buf = link[n][m].buf /\ link'[n][m].room = Sent(n, m).room
    BY <1>0, <2>1, <2>2, RoomReplyEffect, Zenon
  <2>4. link[n][m].pc = "sent"
    <3>1. link[n][m].buf # <<>>
      BY <1>01, <2>1 DEF Pending, Ours
    <3>. QED
      BY <1>0, <3>1, Zenon DEF Sending
  <2>5. /\ croom'[m][n] = Sent(n, m).room
        /\ \A p, q \in Nodes : p # n \/ q # m => croom'[q][p] = croom[q][p]
    BY <1>0, <2>1, Zenon
  <2>6. Sending(n, m)'
    BY <1>0, <2>1, <2>3, <2>4, <2>5, Zenon DEF Sending, Believed
  <2>. QED
    BY <2>1, <2>3, <2>5, <2>6, RInvQuiet
<1>. QED
  BY <1>1, <1>2, <1>3, <1>4, <1>5

(* When a node executes an operation that its writer executed.             *)
LEMMA GenuineAdd ==
  ASSUME Genuine, heard \in [Nodes -> SUBSET Entries], NEW n \in Nodes, NEW e \in Entries,
         heard' = [heard EXCEPT ![n] = @ \cup {e}], e.ver.node = n \/ e \in heard[e.ver.node]
  PROVE  Genuine' /\ \A p \in Nodes : heard[p] \subseteq heard'[p]
<1>1. heard'[n] = heard[n] \cup {e} /\ \A p \in Nodes : heard[p] \subseteq heard'[p]
  OBVIOUS
<1>2. \A p \in Nodes \ {n} : heard'[p] = heard[p]
  OBVIOUS
<1>3. ASSUME NEW p \in Nodes, NEW f \in heard'[p]
      PROVE  f \in heard'[f.ver.node]
  <2>1. f.ver.node \in Nodes /\ e.ver.node \in Nodes
    <3>1. f \in Entries
      BY <1>1, <1>2
    <3>. QED
      BY <3>1 DEF Entries, Version
  <2>2. CASE f \in heard[p]
    <3>1. f \in heard[f.ver.node]
      BY <2>2 DEF Genuine
    <3>. QED
      BY <1>1, <2>1, <3>1
  <2>3. CASE f = e
    BY <1>1, <2>1, <2>3
  <2>. QED
    BY <1>1, <1>2, <2>2, <2>3
<1>. QED
  BY <1>1, <1>3 DEF Genuine

(* Executing a local or a merged write keeps the rooms apart.              *)
LEMMA RInvExecute ==
  ASSUME LeastNumber, TInv, RInv
  PROVE  /\ \A n \in Nodes, r \in Rooms, op \in {"put", "del"} : Write(n, r, op) => RInv'
         /\ \A n, m \in Nodes : DeliverWrite(n, m) => RInv'
<1>0. /\ TypeOK /\ Genuine /\ \A n \in Nodes : Logged(n)
      /\ \A n, m \in Nodes : Sending(n, m)
      /\ heard \in [Nodes -> SUBSET Entries]
  BY Zenon DEF TInv, RInv, TypeOK
<1>1. ASSUME NEW n \in Nodes, NEW r \in Rooms, NEW op \in {"put", "del"}, Write(n, r, op)
      PROVE  RInv'
  <2>1. PICK e \in Entries :
           /\ e.ver.node = n /\ Apply(n, e)
           /\ heard' = [heard EXCEPT ![n] = @ \cup {e}]
           /\ UNCHANGED linkVars
    BY <1>0, <1>1, WriteEffect
  <2>2. Genuine' /\ \A p \in Nodes : heard[p] \subseteq heard'[p]
    BY <1>0, <2>1, GenuineAdd, Zenon
  <2>3. \A p \in Nodes : Logged(p)'
    BY <1>0, <2>1, LoggedApply, Zenon
  <2>4. ASSUME NEW p \in Nodes, NEW q \in Nodes
        PROVE  Sending(p, q)'
    <3>1. /\ link'[p][q] = link[p][q] /\ peer'[p][q] = peer[p][q] /\ croom'[q][p] = croom[q][p]
          /\ heard[p] \subseteq heard'[p] /\ Sending(p, q)
      BY <1>0, <2>1, <2>2, Zenon DEF linkVars
    <3>. QED
      BY <3>1, SendingKept, Zenon
  <2>. QED
    BY <2>2, <2>3, <2>4 DEF RInv
<1>2. ASSUME NEW n \in Nodes, NEW m \in Nodes, DeliverWrite(n, m)
      PROVE  RInv'
  <2>1. PICK e \in Entries :
           /\ e.op = Sent(n, m).op /\ e.ver = Sent(n, m).ver /\ e.room = croom[m][n]
           /\ heard' = [heard EXCEPT ![m] = @ \cup {e}]
           /\ UNCHANGED <<db, tomb, aof>> \/ Apply(m, e)
           /\ UNCHANGED <<peer, croom>>
    BY <1>0, <1>2, DeliverWriteEffect, ZenonT(30)
  <2>2. /\ Pending(n, m) # {} /\ InRoom(n, m) /\ WriteReply(n, m, link[n][m].bad)
    BY <1>2, Zenon DEF DeliverWrite
  <2>3. Sent(n, m).ver.node = n /\ link[n][m].bad \in Nat
    BY <1>0, <2>2, NextUpIsPending, BatchFacts, Zenon
  <2>4. link[n][m].pc = "sent" /\ e = Sent(n, m) /\ e \in heard[n]
    BY <1>0, <2>1, <2>2, MergedIsSent, Zenon
  <2>5. Genuine' /\ \A p \in Nodes : heard[p] \subseteq heard'[p]
    BY <1>0, <2>1, <2>3, <2>4, GenuineAdd, Zenon
  <2>6. \A p \in Nodes : Logged(p)'
    <3>1. CASE UNCHANGED <<db, tomb, aof>>
      <4>1. ASSUME NEW p \in Nodes
            PROVE  Logged(p)'
        <5>1. /\ Logged(p) /\ heard[p] \subseteq heard'[p] /\ aof'[p] = aof[p] /\ db'[p] = db[p]
              /\ \A r \in Rooms : tomb'[p][r] \in {None, tomb[p][r]}
          BY <1>0, <2>5, <3>1
        <5>. QED
          BY <5>1, LoggedKept
      <4>. QED
        BY <4>1
    <3>2. CASE Apply(m, e)
      BY <1>0, <2>1, <3>2, LoggedApply, Zenon
    <3>. QED
      BY <2>1, <3>1, <3>2
  <2>7. /\ Elsewhere(n, m) /\ link'[n][m].pc = link[n][m].pc
        /\ link'[n][m].buf = link[n][m].buf /\ link'[n][m].room = link[n][m].room
    BY <1>0, <2>1, <2>2, <2>3, WriteReplyEffect, Zenon
  <2>8. ASSUME NEW p \in Nodes, NEW q \in Nodes
        PROVE  Sending(p, q)'
    <3>1. Sending(p, q) /\ heard[p] \subseteq heard'[p]
      BY <1>0, <2>5
    <3>2. CASE p = n /\ q = m
      BY <2>1, <2>4, <2>7, <3>1, <3>2, Zenon DEF Sending, Believed
    <3>3. CASE p # n \/ q # m
      <4>1. /\ link'[p][q] = link[p][q] /\ peer'[p][q] = peer[p][q] /\ croom'[q][p] = croom[q][p]
        BY <2>1, <2>7, <3>3, Zenon DEF Elsewhere
      <4>. QED
        BY <3>1, <4>1, SendingKept, Zenon
    <3>. QED
      BY <3>2, <3>3
  <2>. QED
    BY <2>5, <2>6, <2>8, Zenon DEF RInv
<1>. QED
  BY <1>1, <1>2

(* A restart and a frontier keep the rooms apart.                          *)
LEMMA RInvNode ==
  ASSUME LeastNumber, TInv, RInv
  PROVE  /\ \A n \in Nodes : Restart(n) => RInv'
         /\ \A n \in Nodes : \A m \in Peers(n) : DeliverFrontier(n, m) => RInv'
<1>0. /\ TypeOK /\ Stamped /\ Genuine /\ \A n \in Nodes : Logged(n)
      /\ \A n, m \in Nodes : Sending(n, m)
      /\ heard \in [Nodes -> SUBSET Entries]
  BY Zenon DEF TInv, RInv, TypeOK
<1>1. ASSUME NEW n \in Nodes, Restart(n)
      PROVE  RInv'
  <2>1. UNCHANGED <<aof, heard>>
    BY <1>1, Zenon DEF Restart, logVars
  <2>2. /\ \A p \in Nodes \ {n} : db'[p] = db[p] /\ tomb'[p] = tomb[p]
        /\ \A r \in Rooms : /\ db'[n][r] # None => \E i \in EntriesOf(n, r) :
                                  aof[n][i].op = "put" /\ db'[n][r] = aof[n][i].ver
                            /\ tomb'[n][r] # None => \E i \in EntriesOf(n, r) :
                                  aof[n][i].op = "del" /\ tomb'[n][r] = aof[n][i].ver
    BY <1>0, <1>1, RestartStore, Zenon
  <2>3. ASSUME NEW r \in Rooms, NEW i \in EntriesOf(n, r)
        PROVE  Entry(aof[n][i].op, r, aof[n][i].ver) \in heard[n]
    <3>1. i \in DOMAIN aof[n] /\ aof[n][i].room = r /\ aof[n] \in Seq(Entries)
      BY <1>0 DEF EntriesOf, TypeOK
    <3>2. aof[n][i] \in Entries /\ aof[n][i] \in heard[n]
      BY <1>0, <3>1 DEF Logged
    <3>3. aof[n][i] = Entry(aof[n][i].op, r, aof[n][i].ver)
      BY <3>1, <3>2 DEF Entries, Entry
    <3>. QED
      BY <3>2, <3>3
  <2>4. ASSUME NEW r \in Rooms
        PROVE  /\ db'[n][r] # None => Entry("put", r, db'[n][r]) \in heard[n]
               /\ tomb'[n][r] # None => Entry("del", r, tomb'[n][r]) \in heard[n]
    BY <2>2, <2>3
  <2>5. \A p \in Nodes : Logged(p)'
    BY <1>0, <2>1, <2>2, <2>4, Zenon DEF Logged
  <2>6. ASSUME NEW p \in Nodes, NEW q \in Nodes
        PROVE  Sending(p, q)'
    <3>1. CASE n \in {p, q}
      <4>1. link'[p][q] = NoBatch /\ peer'[p][q].room = None
        BY <1>0, <1>1, <3>1, RestartEffect, ZenonT(30)
      <4>2. NoBatch.pc = "idle" /\ NoBatch.buf = <<>> /\ DOMAIN <<>> = {}
        BY DEF NoBatch
      <4>. QED
        BY <4>1, <4>2, Zenon DEF Sending, Believed
    <3>2. CASE n \notin {p, q}
      <4>1. link'[p][q] = link[p][q] /\ peer'[p][q] = peer[p][q] /\ croom'[q][p] = croom[q][p]
        <5>1. TypeOK
          BY <1>0, Zenon
        <5>2. \A a, b \in Nodes : n \notin {a, b} =>
                 link'[a][b] = link[a][b] /\ peer'[a][b] = peer[a][b] /\ croom'[a][b] = croom[a][b]
          BY <1>1, <5>1, RestartEffect
        <5>. QED
          BY <3>2, <5>2
      <4>2. heard[p] \subseteq heard'[p] /\ Sending(p, q)
        BY <1>0, <2>1
      <4>. QED
        BY <4>1, <4>2, SendingKept, Zenon
    <3>. QED
      BY <3>1, <3>2
  <2>7. Genuine'
    BY <1>0, <2>1 DEF Genuine
  <2>. QED
    BY <2>5, <2>6, <2>7 DEF RInv
<1>2. ASSUME NEW n \in Nodes, NEW m \in Peers(n), DeliverFrontier(n, m)
      PROVE  RInv'
  <2>0. m \in Nodes
    BY DEF Peers
  <2>1. UNCHANGED <<db, aof, peer, croom, heard>> /\ link[n][m].pc = "sent"
    BY <1>2 DEF DeliverFrontier, logVars
  <2>2. /\ Elsewhere(n, m) /\ link'[n][m].pc = link[n][m].pc
        /\ link'[n][m].buf = link[n][m].buf /\ link'[n][m].room = link[n][m].room
    BY <1>0, <1>2, <2>0, FrontierReplyEffect, Zenon
  <2>3. \A p \in Nodes, r \in Rooms : tomb'[p][r] \in {None, tomb[p][r]}
    BY <1>0, <1>2, TombsAfterFrontier, Zenon
  <2>4. \A p \in Nodes : Logged(p)'
    BY <1>0, <2>1, <2>3, LoggedKept, Zenon
  <2>5. ASSUME NEW p \in Nodes, NEW q \in Nodes
        PROVE  Sending(p, q)'
    <3>1. Sending(p, q) /\ heard[p] \subseteq heard'[p]
      BY <1>0, <2>1
    <3>2. CASE p = n /\ q = m
      BY <2>1, <2>2, <3>1, <3>2, Zenon DEF Sending, Believed
    <3>3. CASE p # n \/ q # m
      <4>1. /\ link'[p][q] = link[p][q] /\ peer'[p][q] = peer[p][q] /\ croom'[q][p] = croom[q][p]
        BY <2>1, <2>2, <3>3, Zenon DEF Elsewhere
      <4>. QED
        BY <3>1, <4>1, SendingKept, Zenon
    <3>. QED
      BY <3>2, <3>3
  <2>6. Genuine'
    BY <1>0, <2>1 DEF Genuine
  <2>. QED
    BY <2>4, <2>5, <2>6 DEF RInv
<1>. QED
  BY <1>1, <1>2

(* A rewrite puts into the log what the node has executed.                 *)
LEMMA RInvRewrite ==
  ASSUME Listable, TInv, RInv, NEW n \in Nodes, Rewrite(n)
  PROVE  RInv'
<1>0. /\ TypeOK /\ Genuine /\ \A p \in Nodes : Logged(p)
      /\ \A p, q \in Nodes : Sending(p, q)
  BY DEF TInv, RInv
<1>1. /\ aof' = [aof EXCEPT ![n] = DumpOf(n)]
      /\ UNCHANGED <<db, tomb, peer, link, croom, heard>>
  BY DEF Rewrite, nodeVars, linkVars
<1>2. aof'[n] = DumpOf(n) /\ \A p \in Nodes \ {n} : aof'[p] = aof[p]
  BY <1>0, <1>1 DEF TypeOK
<1>3. \A i \in DOMAIN DumpOf(n) : DumpOf(n)[i] \in heard[n]
  <2>1. SUFFICES ASSUME NEW i \in DOMAIN DumpOf(n)
                 PROVE  DumpOf(n)[i] \in heard[n]
    OBVIOUS
  <2>2. PICK r \in Rooms :
            \/ db[n][r] # None /\ DumpOf(n)[i] = Entry("put", r, db[n][r])
            \/ tomb[n][r] # None /\ DumpOf(n)[i] = Entry("del", r, tomb[n][r])
    BY <1>0, DumpIsLog
  <2>. QED
    BY <1>0, <2>2 DEF Logged
<1>4. \A p \in Nodes : Logged(p)'
  BY <1>0, <1>1, <1>2, <1>3 DEF Logged
<1>5. Genuine' /\ \A p, q \in Nodes : Sending(p, q)'
  BY <1>0, <1>1, Zenon DEF Genuine, Sending, Believed
<1>. QED
  BY <1>4, <1>5 DEF RInv

(* Every step keeps the rooms apart.                                       *)
LEMMA RInvStep ==
  ASSUME LeastNumber, Listable, "refusal" \notin Faults, TInv, RInv, [Next]_vars
  PROVE  RInv'
<1>1. CASE UNCHANGED vars
  BY <1>1, Zenon DEF vars, nodeVars, logVars, linkVars, RInv, Genuine, Logged, Sending, Believed
<1>2. ASSUME NEW n \in Nodes, NEW r \in Rooms, NEW op \in {"put", "del"}, Write(n, r, op)
      PROVE  RInv'
  BY <1>2, RInvExecute
<1>3. ASSUME NEW n \in Nodes, NEW m \in Peers(n),
             Ship(n, m) \/ DeliverRefused(n, m) \/ ConnectionLost(n, m)
      PROVE  RInv'
  <2>1. m \in Nodes
    BY DEF Peers
  <2>2. CASE DeliverWrite(n, m)
    BY <2>1, <2>2, RInvExecute
  <2>3. CASE DeliverFrontier(n, m)
    BY <2>3, RInvNode
  <2>4. CASE \/ ReadFrontier(n, m) \/ BuildBatch(n, m) \/ BatchDone(n, m)
             \/ ConnectionLost(n, m) \/ DeliverRoom(n, m)
    BY <2>1, <2>4, RInvThread
  <2>5. CASE DeliverRefused(n, m)
    BY <2>5 DEF DeliverRefused, Disturb
  <2>. QED
    BY <1>3, <2>2, <2>3, <2>4, <2>5 DEF Ship
<1>4. ASSUME NEW n \in Nodes, Rewrite(n) \/ Restart(n)
      PROVE  RInv'
  BY <1>4, RInvNode, RInvRewrite
<1>. QED
  BY <1>1, <1>2, <1>3, <1>4 DEF Next

=============================================================================
