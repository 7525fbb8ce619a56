------------------------- MODULE ReplicationProofs --------------------------
(***************************************************************************)
(* The results about Replication, for every set of nodes and rooms and     *)
(* every value of the bounds: some under every fault, rewrites of the log  *)
(* included, and the agreement of the nodes under the faults that          *)
(* OnlyLossAndRestart allows.                                              *)
(***************************************************************************)
EXTENDS ReplicationInvariants, ReplicationConvergence, FiniteSetTheorems, WellFoundedInduction

(* Every set of numbers has a least one.                                   *)
LEMMA LeastNumberHolds == LeastNumber
<1>. SUFFICES ASSUME NEW T \in SUBSET Nat, T # {}
              PROVE  \E x \in T : \A y \in T : x <= y
  BY Zenon DEF LeastNumber
<1>. DEFINE R == OpToRel(<, Nat)
<1>1. IsWellFoundedOn(R, Nat)
  BY NatLessThanWellFounded, Zenon
<1>2. \A a, b \in Nat : <<a, b>> \in R <=> a < b
  BY DEF OpToRel
<1>. HIDE DEF R
<1>3. PICK x \in T : \A y \in T : ~(<<y, x>> \in R)
  BY <1>1, WFMin, Zenon
<1>4. ASSUME NEW y \in T
      PROVE  x <= y
  <2>1. x \in Nat /\ y \in Nat
    OBVIOUS
  <2>2. ~(y < x)
    BY <1>2, <1>3, <2>1, Zenon
  <2>. QED
    BY <2>1, <2>2
<1>. QED
  BY <1>4, Zenon

(* A set of rooms is finite and can be listed.                             *)
LEMMA ListableHolds == Listable
<1>. SUFFICES ASSUME NEW S \in SUBSET Rooms
              PROVE  Cardinality(S) \in Nat /\ Bijection(1..Cardinality(S), S) # {}
  BY Zenon DEF Listable
<1>1. IsFiniteSet(S)
  BY RoomsAssumption, FS_Subset, Zenon
<1>2. Cardinality(S) \in Nat /\ ExistsBijection(1..Cardinality(S), S)
  BY <1>1, FS_CardinalityType, Zenon
<1>. QED
  BY <1>2, Zenon DEF ExistsBijection

-----------------------------------------------------------------------------
(* What follows from the invariant.                                        *)

(* Two operations of one version are the same.                             *)
LEMMA VersionsAreUnique ==
  ASSUME RInv, CInv, NEW n \in Nodes, NEW m \in Nodes, NEW e \in heard[n], NEW f \in heard[m],
         e.ver.node \in Nodes, e.ver = f.ver
  PROVE  e = f
<1>. DEFINE w == e.ver.node
<1>1. e \in heard[w] /\ f \in heard[w]
  BY DEF RInv, Genuine
<1>2. Written(w)
  BY DEF CInv, NodeOK
<1>3. PICK i \in DOMAIN aof[w] : aof[w][i] = e
  BY <1>1, <1>2 DEF Written
<1>4. PICK j \in DOMAIN aof[w] : aof[w][j] = f
  BY <1>1, <1>2 DEF Written
<1>5. i = j
  BY <1>2, <1>3, <1>4 DEF Written
<1>. QED
  BY <1>3, <1>4, <1>5

(* The newest operation that a node has executed in a room decides what    *)
(* the room holds.                                                         *)
LEMMA NewestDecides ==
  ASSUME LeastNumber, TInv, RInv, CInv, NEW n \in Nodes, NEW r \in Rooms, NEW e \in heard[n], e.room = r,
         \A f \in heard[n] : f.room = r => ~Newer(f.ver, e.ver)
  PROVE  db[n][r] = (IF e.op = "put" THEN e.ver ELSE None)
<1>0. TypeOK /\ NodeOK(n) /\ Superseded(n) /\ Sorted(n) /\ Decides(n, r) /\ Logged(n)
  BY Zenon DEF TInv, RInv, CInv, NodeOK
<1>1. PICK k \in EntriesOf(n, r) : ~Newer(e.ver, aof[n][k].ver)
  BY <1>0, Zenon DEF Superseded
<1>2. PICK i \in EntriesOf(n, r) : IsLast(n, r, i)
  BY <1>0, <1>1, LastExists, Zenon
<1>3. /\ aof[n][k].ver \in Version /\ aof[n][i].ver \in Version /\ aof[n][i].op \in {"put", "del"}
      /\ aof[n][i].room = r /\ aof[n][i] \in heard[n]
  BY <1>0, LogFacts, Zenon DEF EntriesOf, Logged
<1>4. e \in Entries /\ e.ver \in Version /\ e.ver.node \in Nodes
  <2>1. e \in Entries
    BY <1>0 DEF TypeOK
  <2>. QED
    BY <2>1 DEF Entries, Version
<1>5. ~Newer(aof[n][i].ver, e.ver)
  BY <1>3, Zenon
<1>6. ~Newer(e.ver, aof[n][i].ver)
  <2>1. CASE k = i
    BY <1>1, <2>1, Zenon
  <2>2. CASE k # i
    <3>1. Newer(aof[n][i].ver, aof[n][k].ver)
      BY <1>0, <1>2, <2>2, LastIsNewest, Zenon
    <3>2. ~Newer(aof[n][k].ver, aof[n][i].ver)
      BY <1>3, <3>1, NewerIsOrder, Zenon
    <3>. QED
      BY <1>1, <1>3, <1>4, <3>2, NewerIsOrder, SMTT(20)
  <2>. QED
    BY <2>1, <2>2
<1>7. e.ver = aof[n][i].ver
  BY <1>3, <1>4, <1>5, <1>6, NewerIsOrder, Zenon
<1>8. e = aof[n][i]
  BY <1>3, <1>4, <1>7, VersionsAreUnique
<1>. QED
  BY <1>0, <1>2, <1>3, <1>8, Zenon DEF Decides

(* The last write wins.                                                    *)
LEMMA CInvLastWriteWins ==
  ASSUME LeastNumber, TInv, RInv, CInv
  PROVE  LastWriteWins
BY NewestDecides DEF LastWriteWins

(* Frontiers are exact.                                                    *)
LEMMA CInvFrontierIsExact ==
  ASSUME TInv, RInv, CInv
  PROVE  FrontierIsExact
<1>1. ASSUME NEW n \in Nodes, NEW m \in Nodes, n # m, NEW e \in heard[n],
             e.ver.node = n, e.ver.ts <= known[m][n]
      PROVE  \E f \in heard[m] : f.room = e.room /\ ~Newer(e.ver, f.ver)
  <2>1. PICK i \in DOMAIN aof[n] : aof[n][i] = e
    BY <1>1 DEF CInv, NodeOK, Written
  <2>2. Announced(n, m)
    BY <1>1 DEF CInv
  <2>3. e \in heard[m]
    BY <1>1, <2>1, <2>2 DEF Announced, Got
  <2>4. e.ver \in Version
    BY <1>1 DEF TInv, TypeOK, Entries
  <2>5. ~Newer(e.ver, e.ver)
    BY <2>4, NewerIsOrder, Zenon
  <2>. QED
    BY <2>3, <2>5
<1>. QED
  BY <1>1 DEF FrontierIsExact

(* In a room with entries, the last one is the newest operation executed.  *)
LEMMA NewestExists ==
  ASSUME LeastNumber, TInv, RInv, CInv, NEW n \in Nodes, NEW r \in Rooms, EntriesOf(n, r) # {}
  PROVE  \E e \in heard[n] : e.room = r /\ \A f \in heard[n] : f.room = r => ~Newer(f.ver, e.ver)
<1>0. TypeOK /\ Superseded(n) /\ Sorted(n) /\ Logged(n)
  BY DEF TInv, RInv, CInv, NodeOK
<1>1. PICK i \in EntriesOf(n, r) : IsLast(n, r, i)
  BY <1>0, LastExists
<1>2. \A k \in EntriesOf(n, r) : /\ aof[n][k].ver \in Version
                                 /\ aof[n][k].room = r /\ aof[n][k] \in heard[n]
  BY <1>0, LogFacts, Zenon DEF EntriesOf, Logged
<1>3. ASSUME NEW f \in heard[n], f.room = r
      PROVE  ~Newer(f.ver, aof[n][i].ver)
  <2>1. PICK k \in EntriesOf(n, r) : ~Newer(f.ver, aof[n][k].ver)
    BY <1>0, <1>3 DEF Superseded
  <2>2. f.ver \in Version
    BY <1>0 DEF TypeOK, Entries
  <2>3. ~Newer(aof[n][k].ver, aof[n][i].ver)
    <3>1. CASE k = i
      BY <1>2, <3>1, NewerIsOrder
    <3>2. CASE k # i
      <4>1. Newer(aof[n][i].ver, aof[n][k].ver)
        BY <1>0, <1>1, <3>2, LastIsNewest, Zenon
      <4>. QED
        BY <1>2, <4>1, NewerIsOrder
    <3>. QED
      BY <3>1, <3>2
  <2>. QED
    BY <1>2, <2>1, <2>2, <2>3, NewerIsOrder
<1>. QED
  BY <1>2, <1>3

(* A log confirmed to its end has arrived.                                 *)
LEMMA DeliveredIsHeard ==
  ASSUME TInv, RInv, CInv, \A n \in Live : \A m \in Live \ {n} : Delivered(n, m),
         NEW n \in Nodes, NEW m \in Live
  PROVE  heard[n] \subseteq heard[m]
<1>. SUFFICES ASSUME NEW e \in heard[n]
              PROVE  e \in heard[m]
  OBVIOUS
<1>. DEFINE w == e.ver.node
<1>1. e \in heard[w]
  BY DEF RInv, Genuine
<1>2. w \in Nodes /\ m \in Nodes /\ TypeOK
  <2>1. e \in Entries
    BY DEF TInv, TypeOK
  <2>. QED
    BY <2>1 DEF Entries, Version, Live, TInv
<1>3. CASE w = m
  BY <1>1, <1>3
<1>4. CASE w # m
  <2>1. w \in Live
    BY <1>1, <1>2, Zenon DEF CInv, NodeOK, Written
  <2>2. PICK i \in DOMAIN aof[w] : aof[w][i] = e
    BY <1>1, <1>2, SMTT(20) DEF CInv, NodeOK, Written
  <2>3. peer[w][m].off = Len(aof[w])
    BY <1>4, <2>1 DEF Delivered
  <2>4. i <= peer[w][m].off
    BY <1>2, <2>3, LogFacts
  <2>5. Shipped(w, m)
    BY <1>2, <1>4 DEF CInv
  <2>. QED
    BY <2>2, <2>4, <2>5, Zenon DEF Shipped, Got
<1>. QED
  BY <1>3, <1>4

(* The nodes that run agree.                                               *)
LEMMA CInvConverged ==
  ASSUME LeastNumber, TInv, RInv, CInv
  PROVE  Converged
<1>1. ASSUME \A n \in Live : \A m \in Live \ {n} : Delivered(n, m),
             NEW n \in Live, NEW m \in Live
      PROVE  db[n] = db[m]
  <2>0. n \in Nodes /\ m \in Nodes /\ TypeOK
    BY <1>1 DEF Live, TInv
  <2>1. heard[n] = heard[m]
    <3>1. heard[n] \subseteq heard[m]
      BY <1>1, <2>0, DeliveredIsHeard
    <3>2. heard[m] \subseteq heard[n]
      BY <1>1, <2>0, DeliveredIsHeard
    <3>. QED
      BY <3>1, <3>2
  <2>2. ASSUME NEW r \in Rooms
        PROVE  db[n][r] = db[m][r]
    <3>1. CASE EntriesOf(n, r) = {}
      <4>1. \A e \in heard[n] : e.room # r
        BY <1>1, <2>0, <3>1, Zenon DEF CInv, NodeOK, Superseded
      <4>2. EntriesOf(m, r) = {}
        BY <1>1, <2>0, <2>1, <4>1 DEF RInv, Logged, EntriesOf
      <4>. QED
        BY <1>1, <2>0, <3>1, <4>2, Zenon DEF CInv, NodeOK, Decides
    <3>2. CASE EntriesOf(n, r) # {}
      <4>1. PICK e \in heard[n] : e.room = r /\ \A f \in heard[n] : f.room = r => ~Newer(f.ver, e.ver)
        BY <1>1, <2>0, <3>2, NewestExists
      <4>2. db[n][r] = (IF e.op = "put" THEN e.ver ELSE None)
        BY <1>1, <2>0, <4>1, NewestDecides
      <4>3. db[m][r] = (IF e.op = "put" THEN e.ver ELSE None)
        BY <1>1, <2>0, <2>1, <4>1, NewestDecides
      <4>. QED
        BY <4>2, <4>3
    <3>. QED
      BY <3>1, <3>2
  <2>3. db[n] \in [Rooms -> Version \cup {None}] /\ db[m] \in [Rooms -> Version \cup {None}]
    BY <2>0 DEF TypeOK
  <2>. QED
    BY <2>2, <2>3
<1>. QED
  BY <1>1 DEF Converged

-----------------------------------------------------------------------------
(* The results.                                                            *)

(* What replication keeps of a node is well formed under every fault: the  *)
(* log, the records and the tombstones hold versions of nodes, and the     *)
(* saved offset of a peer lies within the log it belongs to, through lost  *)
(* connections, refusals, restarts and rewrites of the log.                *)
THEOREM TypeCorrect == Spec => []TypeOK
<1>1. TInv => TypeOK
  BY DEF TInv
<1>2. TInv /\ [Next]_vars => TInv'
  BY LeastNumberHolds, ListableHolds, TInvStep, Zenon
<1>. QED
  BY <1>1, <1>2, TInvInit, PTL DEF Spec

(* If no peer refuses a room (wake_room never fails), a merge is executed  *)
(* in the room it was written in, whatever connections break, nodes        *)
(* restart, clocks lag and logs are rewritten: the room that ship()        *)
(* remembers for a connection is the one the peer has selected.            *)
THEOREM RoomsStayApartHolds ==
  ASSUME "refusal" \notin Faults
  PROVE  Spec => []RoomsStayApart
<1>1. TInv /\ RInv => RoomsStayApart
  <2>1. SUFFICES ASSUME TInv, RInv, NEW n \in Nodes, NEW m \in Nodes, NEW e \in heard[m],
                        e.ver.node = n
                 PROVE  \E f \in heard[n] : f.room = e.room /\ f.ver = e.ver
    BY DEF RoomsStayApart
  <2>. QED
    BY <2>1 DEF RInv, Genuine
<1>2. TInv /\ RInv /\ [Next]_vars => (TInv /\ RInv)'
  BY LeastNumberHolds, ListableHolds, TInvStep, RInvStep, Zenon
<1>3. Init => TInv /\ RInv
  BY TInvInit, RInvInit
<1>. QED
  BY <1>1, <1>2, <1>3, PTL DEF Spec

(* The three invariants always hold if connections break and nodes         *)
(* restart but nothing else goes wrong.                                    *)
LEMMA CInvAlways ==
  ASSUME OnlyLossAndRestart
  PROVE  Spec => [](TInv /\ RInv /\ CInv)
<1>1. "refusal" \notin Faults
  BY DEF OnlyLossAndRestart
<1>2. Init => TInv /\ RInv /\ CInv
  BY TInvInit, RInvInit, CInvInit
<1>3. TInv /\ [Next]_vars => TInv'
  BY LeastNumberHolds, ListableHolds, TInvStep, Zenon
<1>4. TInv /\ RInv /\ [Next]_vars => RInv'
  BY <1>1, LeastNumberHolds, ListableHolds, RInvStep, Zenon
<1>5. TInv /\ RInv /\ CInv /\ [Next]_vars => CInv'
  BY <1>3, LeastNumberHolds, CInvStep, Zenon
<1>. QED
  BY <1>2, <1>3, <1>4, <1>5, PTL DEF Spec

(* Last write wins (crdtMerge, crdtDelete, and replay of the log after a   *)
(* restart): with connections that break and nodes that restart, the       *)
(* newest operation a node has executed in a room decides what the room    *)
(* holds, whatever the order of arrival and though tombstones are          *)
(* forgotten below the watermark.                                          *)
THEOREM LastWriteWinsHolds ==
  ASSUME OnlyLossAndRestart
  PROVE  Spec => []LastWriteWins
<1>1. TInv /\ RInv /\ CInv => LastWriteWins
  BY LeastNumberHolds, CInvLastWriteWins, Zenon
<1>. QED
  BY <1>1, CInvAlways, PTL

(* A frontier is exact (ship() reads it before the log, and REPLFRONTIER   *)
(* is sent behind the last merge of a batch that reached the end of the    *)
(* log): what node n has written up to a frontier that node m accepted, m  *)
(* has executed.                                                           *)
THEOREM FrontierIsExactHolds ==
  ASSUME OnlyLossAndRestart
  PROVE  Spec => []FrontierIsExact
<1>1. TInv /\ RInv /\ CInv => FrontierIsExact
  BY CInvFrontierIsExact, Zenon
<1>. QED
  BY <1>1, CInvAlways, PTL

(* Convergence (Replicator::ship and the merges of crdt.cpp): whenever     *)
(* every log has been confirmed to its end by every peer that runs, the    *)
(* nodes that run hold the same records, for any number of nodes and       *)
(* rooms, with connections that break and nodes that restart on the way.   *)
THEOREM ConvergedHolds ==
  ASSUME OnlyLossAndRestart
  PROVE  Spec => []Converged
<1>1. TInv /\ RInv /\ CInv => Converged
  BY LeastNumberHolds, CInvConverged, Zenon
<1>. QED
  BY <1>1, CInvAlways, PTL
=============================================================================
