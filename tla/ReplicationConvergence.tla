----------------------- MODULE ReplicationConvergence -----------------------
(***************************************************************************)
(* What the nodes agree on, proved for every set of nodes and rooms and    *)
(* every value of the bounds, when connections break and nodes restart but *)
(* no log is rewritten, no peer refuses a room and no clock runs behind.   *)
(***************************************************************************)
EXTENDS ReplicationLemmas

(* Executing an entry keeps a node consistent.                             *)
LEMMA NodeApply ==
  ASSUME TInv, TInv', NEW n \in Nodes, NodeOK(n), Logged(n), NEW e \in Entries, Apply(n, e),
         heard'[n] = heard[n] \cup {e}, watermark'[n] = watermark[n], frontier'[n] = frontier[n],
         clock[n] <= clock'[n], e.ver.ts <= clock'[n], e.ver.ts >= 1,
         e.ver.node = n => n \in Live /\ e.ver.ts > clock[n],
         \A i \in EntriesOf(n, e.room) : Newer(e.ver, aof[n][i].ver)
  PROVE  NodeOK(n)'
<1>0. /\ TypeOK /\ Sorted(n) /\ Covered(n) /\ Written(n) /\ Superseded(n)
      /\ e.room \in Rooms /\ e.ver \in Version
  BY Zenon DEF TInv, NodeOK, Entries
<1>1. aof'[n] = Append(aof[n], e)
  BY <1>0, ApplyEffect, Zenon
<1>2. /\ Sorted(n)'
      /\ \A r \in Rooms \ {e.room} : EntriesOf(n, r)' = EntriesOf(n, r)
      /\ EntriesOf(n, e.room)' = EntriesOf(n, e.room) \cup {Len(aof[n]) + 1}
      /\ DOMAIN aof'[n] = DOMAIN aof[n] \cup {Len(aof[n]) + 1}
      /\ Len(aof[n]) + 1 \notin DOMAIN aof[n]
      /\ \A i \in DOMAIN aof[n] : aof'[n][i] = aof[n][i]
      /\ aof'[n][Len(aof[n]) + 1] = e
  BY <1>0, <1>1, SortedAppend, Zenon
<1>3. /\ clock[n] \in Nat /\ clock'[n] \in Nat /\ frontier[n] \in Nat
      /\ \A f \in heard[n] : f \in Entries /\ f.ver.ts \in Nat
  BY CoveredTypes, Zenon
<1>4. Covered(n)'
  <2>1. frontier'[n] <= clock'[n]
    BY <1>0, <1>3, SMTT(20) DEF Covered
  <2>2. \A f \in heard[n] : f.ver.ts >= 1 /\ f.ver.ts <= clock'[n]
    BY <1>0, <1>3 DEF Covered
  <2>. QED
    BY <2>1, <2>2, Zenon DEF Covered
<1>5. Written(n)'
  <2>1. ASSUME NEW f \in heard'[n], f.ver.node = n
        PROVE  n \in Live /\ \E i \in DOMAIN aof'[n] : aof'[n][i] = f
    <3>1. CASE f = e
      BY <1>2, <2>1, <3>1
    <3>2. CASE f \in heard[n]
      <4>1. n \in Live
        BY <1>0, <2>1, <3>2 DEF Written
      <4>2. PICK i \in DOMAIN aof[n] : aof[n][i] = f
        BY <1>0, <2>1, <3>2 DEF Written
      <4>. QED
        BY <1>2, <4>1, <4>2
    <3>. QED
      BY <3>1, <3>2
  <2>2. \A i \in DOMAIN aof[n] : aof[n][i].ver.ts <= clock[n] /\ aof[n][i].ver.ts \in Nat
    <3>1. \A i \in DOMAIN aof[n] : aof[n][i] \in heard[n]
      BY Zenon DEF Logged
    <3>. QED
      BY <1>0, <1>3, <3>1 DEF Covered
  <2>3. e.ver.node = n => \A i \in DOMAIN aof[n] : aof[n][i].ver # e.ver
    BY <1>3, <2>2, SMTT(20)
  <2>4. ASSUME NEW i \in DOMAIN aof'[n], NEW j \in DOMAIN aof'[n],
               aof'[n][i].ver.node = n, aof'[n][i].ver = aof'[n][j].ver
        PROVE  i = j
    <3>1. CASE i \in DOMAIN aof[n] /\ j \in DOMAIN aof[n]
      BY <1>0, <1>2, <2>4, <3>1, Zenon DEF Written
    <3>2. CASE i = Len(aof[n]) + 1 /\ j \in DOMAIN aof[n]
      BY <1>2, <2>3, <2>4, <3>2, Zenon
    <3>3. CASE i \in DOMAIN aof[n] /\ j = Len(aof[n]) + 1
      BY <1>2, <2>3, <2>4, <3>3, Zenon
    <3>. QED
      BY <1>2, <3>1, <3>2, <3>3, Zenon
  <2>. QED
    BY <2>1, <2>4 DEF Written
<1>6. Superseded(n)'
  <2>1. ~Newer(e.ver, e.ver)
    BY <1>0, NewerIsOrder
  <2>2. ASSUME NEW f \in heard'[n]
        PROVE  \E i \in EntriesOf(n, f.room)' : ~Newer(f.ver, aof'[n][i].ver)
    <3>1. CASE f = e
      BY <1>2, <2>1, <3>1
    <3>2. CASE f \in heard[n]
      <4>1. PICK i \in EntriesOf(n, f.room) : ~Newer(f.ver, aof[n][i].ver)
        BY <1>0, <3>2 DEF Superseded
      <4>2. i \in DOMAIN aof[n] /\ f.room \in Rooms
        BY <1>3, <3>2, <4>1 DEF EntriesOf, Entries
      <4>3. i \in EntriesOf(n, f.room)' /\ aof'[n][i] = aof[n][i]
        BY <1>2, <4>1, <4>2, Zenon
      <4>. QED
        BY <4>1, <4>3, Zenon
    <3>. QED
      BY <3>1, <3>2
  <2>. QED
    BY <2>2, Zenon DEF Superseded
<1>7. \A r \in Rooms : Decides(n, r)'
  BY DecidesApply
<1>. QED
  BY <1>2, <1>4, <1>5, <1>6, <1>7, Zenon DEF NodeOK

(* So does a merge that is stale, if the log supersedes it.                *)
LEMMA NodeStale ==
  ASSUME TInv, TInv', NEW n \in Nodes, NodeOK(n), NEW e \in Entries,
         aof'[n] = aof[n], db'[n] = db[n], tomb'[n] = tomb[n],
         heard'[n] = heard[n] \cup {e}, watermark'[n] = watermark[n], frontier'[n] = frontier[n],
         clock[n] <= clock'[n], e.ver.ts <= clock'[n], e.ver.ts >= 1, e.ver.node # n,
         e \in heard[n] \/ \E i \in EntriesOf(n, e.room) : ~Newer(e.ver, aof[n][i].ver)
  PROVE  NodeOK(n)'
<1>1. /\ clock[n] \in Nat /\ clock'[n] \in Nat /\ frontier[n] \in Nat
      /\ \A f \in heard[n] : f.ver.ts \in Nat
  BY CoveredTypes, Zenon
<1>2. Covered(n)'
  BY <1>1 DEF NodeOK, Covered
<1>3. Written(n)' /\ Sorted(n)'
  <2>1. Written(n) /\ Sorted(n)
    BY Zenon DEF NodeOK
  <2>2. Written(n)'
    BY <2>1 DEF Written
  <2>3. Sorted(n)'
    BY <2>1 DEF Sorted
  <2>. QED
    BY <2>2, <2>3, Zenon
<1>4. \A r : EntriesOf(n, r)' = EntriesOf(n, r)
  BY Zenon DEF EntriesOf
<1>5. Superseded(n)'
  BY <1>4 DEF NodeOK, Superseded
<1>6. ASSUME NEW r \in Rooms
      PROVE  Decides(n, r)'
  <2>1. Decides(n, r)
    BY Zenon DEF NodeOK
  <2>2. \A i : IsLast(n, r, i)' = IsLast(n, r, i)
    BY <1>4 DEF IsLast
  <2>. QED
    BY <1>4, <2>1, <2>2, Zenon DEF Decides
<1>. QED
  BY <1>2, <1>3, <1>5, <1>6, Zenon DEF NodeOK

-----------------------------------------------------------------------------
(* The steps.                                                              *)

(* The threads that do not move in a step.                                 *)
LEMMA OthersKept ==
  ASSUME TInv, TInv', CInv, \A p \in Nodes : Grows(p), UNCHANGED <<inode, known, watermark>>
  PROVE  /\ \A p, q \in Nodes : p # q => Announced(p, q)'
         /\ \A p, q \in Nodes :
              p # q /\ peer'[p][q] = peer[p][q] /\ link'[p][q] = link[p][q] => Shipped(p, q)'
<1>1. ASSUME NEW p \in Nodes, NEW q \in Nodes, p # q
      PROVE  Announced(p, q)'
  <2>1. Announced(p, q) /\ watermark'[q] <= known[q][p] /\ known'[q][p] = known[q][p]
    BY <1>1 DEF CInv, Announced
  <2>. QED
    BY <2>1, AnnouncedKept
<1>2. ASSUME NEW p \in Nodes, NEW q \in Nodes, p # q,
             peer'[p][q] = peer[p][q], link'[p][q] = link[p][q]
      PROVE  Shipped(p, q)'
  <2>1. Shipped(p, q) /\ inode'[p] = inode[p]
    BY <1>2 DEF CInv
  <2>. QED
    BY <1>2, <2>1, ShippedKept
<1>. QED
  BY <1>1, <1>2

(* A client writes.                                                        *)
LEMMA CInvWrite ==
  ASSUME TInv, RInv, TInv', CInv, NEW n \in Nodes, NEW r \in Rooms, NEW op \in {"put", "del"},
         Write(n, r, op)
  PROVE  CInv'
<1>1. PICK e \in Entries :
        /\ e.room = r /\ e.op = op /\ e.ver.node = n /\ n \in Live
        /\ Apply(n, e) /\ e.ver.ts > clock[n]
        /\ clock' = [clock EXCEPT ![n] = e.ver.ts]
        /\ heard' = [heard EXCEPT ![n] = @ \cup {e}]
        /\ UNCHANGED <<frontier, known, watermark, inode, linkVars, faults>>
  BY WriteEffect DEF TInv
<1>2. /\ aof'[n] = Append(aof[n], e)
      /\ \A p \in Nodes \ {n} : db'[p] = db[p] /\ tomb'[p] = tomb[p] /\ aof'[p] = aof[p]
  BY <1>1, ApplyEffect, Zenon DEF TInv
<1>3. /\ clock'[n] = e.ver.ts /\ heard'[n] = heard[n] \cup {e}
      /\ \A p \in Nodes \ {n} : clock'[p] = clock[p] /\ heard'[p] = heard[p]
  BY <1>1, Zenon DEF TInv, TypeOK
<1>4. \A p \in Nodes : clock[p] \in Nat \ {0} /\ frontier[p] \in Nat
  BY DEF TInv, TypeOK
<1>5. e.ver.ts \in Nat /\ e.ver \in Version
  BY DEF Entries, Version
<1>6. \A p \in Nodes \ {n} : Grows(p)
  <2>1. \A p \in Nodes \ {n} : clock[p] <= clock'[p] /\ heard[p] \subseteq heard'[p]
    BY <1>3, <1>4
  <2>. QED
    BY <1>2, <2>1, GrowsQuietly, Zenon
<1>7. Grows(n)
  <2>1. clock[n] <= clock'[n] /\ heard[n] \subseteq heard'[n] /\ TypeOK
    BY <1>1, <1>3, <1>4, <1>5 DEF TInv
  <2>. QED
    BY <1>1, <1>2, <2>1, GrowsByApply
<1>8. \A p, q \in Nodes : p # q => Shipped(p, q)' /\ Announced(p, q)'
  <2>1. UNCHANGED <<inode, known, watermark>> /\ UNCHANGED <<peer, link>>
    BY <1>1, Zenon DEF linkVars
  <2>. QED
    BY <1>6, <1>7, <2>1, OthersKept
<1>9. \A p \in Nodes \ {n} : NodeOK(p)'
  <2>1. \A p \in Nodes \ {n} : /\ NodeOK(p) /\ frontier'[p] <= clock'[p] /\ clock[p] <= clock'[p]
                               /\ watermark'[p] = watermark[p]
    BY <1>1, <1>3, <1>4, SMTT(20) DEF CInv, NodeOK, Covered
  <2>. QED
    BY <1>2, <1>3, <2>1, NodeKept, Zenon
<1>10. NodeOK(n)'
  <2>1. \A i \in EntriesOf(n, e.room) : Newer(e.ver, aof[n][i].ver)
    <3>1. \A i \in EntriesOf(n, e.room) : aof[n][i].ver.ts \in Nat /\ aof[n][i].ver.ts <= clock[n]
      <4>1. \A i \in EntriesOf(n, e.room) : i \in DOMAIN aof[n]
        BY DEF EntriesOf
      <4>. QED
        BY <4>1, LogFacts, Zenon DEF TInv, Stamped
    <3>. QED
      BY <1>1, <1>4, <1>5, <3>1 DEF Newer
  <2>2. NodeOK(n) /\ Logged(n)
    BY DEF CInv, RInv
  <2>3. /\ clock[n] <= clock'[n] /\ e.ver.ts <= clock'[n] /\ e.ver.ts >= 1
        /\ watermark'[n] = watermark[n] /\ frontier'[n] = frontier[n]
    BY <1>1, <1>3, <1>4, <1>5
  <2>. QED
    BY <1>1, <1>3, <2>1, <2>2, <2>3, NodeApply, Zenon
<1>. QED
  BY <1>8, <1>9, <1>10 DEF CInv

(* A merge arrives: it is the entry of the log that the batch was read     *)
(* from, and if it is stale the receiving node has it or something newer.  *)
LEMMA MergeArrives ==
  ASSUME LeastNumber, TInv, RInv, CInv, NEW n \in Nodes, NEW m \in Nodes, n # m, Pending(n, m) # {},
         InRoom(n, m), NEW e \in Entries,
         e.op = Sent(n, m).op, e.ver = Sent(n, m).ver, e.room = croom[m][n]
  PROVE  /\ link[n][m].pc = "sent"
         /\ e = aof[n][peer[n][m].off + NextUp(n, m)] /\ e.ver.node = n /\ e.ver.ts >= 1
         /\ Stale(m, e.room, e.ver) =>
              e \in heard[m] \/ \E i \in EntriesOf(m, e.room) : ~Newer(e.ver, aof[m][i].ver)
<1>0. TypeOK /\ Sending(n, m) /\ Shipped(n, m) /\ Announced(n, m) /\ NodeOK(m) /\ NodeOK(n)
  BY Zenon DEF TInv, RInv, CInv
<1>1. link[n][m].pc = "sent" /\ Sent(n, m) \in heard[n] /\ e = Sent(n, m)
  BY <1>0, MergedIsSent
<1>2. /\ NextUp(n, m) \in 1..Len(link[n][m].buf) /\ Sent(n, m).ver.node = n
      /\ DOMAIN link[n][m].buf = 1..Len(link[n][m].buf)
  BY <1>0, NextUpIsPending, BatchFacts, Zenon
<1>3. e = aof[n][peer[n][m].off + NextUp(n, m)]
  BY <1>0, <1>1, <1>2, Zenon DEF Shipped, Sent
<1>4. peer[n][m].off + NextUp(n, m) \in DOMAIN aof[n]
  BY <1>0, <1>1, <1>2, CursorWithin, Zenon
<1>5. e.ver.ts >= 1
  BY <1>0, <1>1, Zenon DEF NodeOK, Covered
<1>6. ASSUME Stale(m, e.room, e.ver)
      PROVE  e \in heard[m] \/ \E i \in EntriesOf(m, e.room) : ~Newer(e.ver, aof[m][i].ver)
  <2>1. e.room \in Rooms /\ e.ver \in Version /\ e.ver.ts \in Nat
    BY DEF Entries, Version
  <2>2. e.ver.ts <= watermark[m] \/ \E i \in EntriesOf(m, e.room) : ~Newer(e.ver, aof[m][i].ver)
    BY <1>0, <1>6, <2>1, StaleIsSuperseded
  <2>3. ASSUME e.ver.ts <= watermark[m]
        PROVE  e \in heard[m]
    <3>1. watermark[m] \in Nat /\ known[m][n] \in Nat
      BY <1>0, Zenon DEF TypeOK
    <3>2. e.ver.ts <= known[m][n]
      BY <1>0, <2>1, <2>3, <3>1 DEF Announced
    <3>3. Got(n, m, peer[n][m].off + NextUp(n, m))
      BY <1>0, <1>3, <1>4, <3>2, Zenon DEF Announced
    <3>. QED
      BY <1>1, <1>2, <1>3, <3>3, Zenon DEF Got
  <2>. QED
    BY <2>2, <2>3, Zenon
<1>. QED
  BY <1>1, <1>2, <1>3, <1>5, <1>6, Zenon

(* The batch after the reply to a merge.                                   *)
LEMMA ShippedWrite ==
  ASSUME LeastNumber, TInv, TInv', NEW n \in Nodes, NEW m \in Nodes, Shipped(n, m), Pending(n, m) # {},
         link[n][m].pc = "sent", WriteReply(n, m, link[n][m].bad),
         Grows(m), aof'[n] = aof[n], clock'[n] = clock[n], UNCHANGED <<peer, inode>>,
         aof[n][peer[n][m].off + NextUp(n, m)] \in heard'[m]
  PROVE  Shipped(n, m)' /\ Elsewhere(n, m)
<1>0. TypeOK
  BY Zenon DEF TInv
<1>1. /\ DOMAIN link[n][m].buf = 1..Len(link[n][m].buf) /\ Len(link[n][m].buf) \in Nat
      /\ link[n][m].done \in Nat /\ link[n][m].bad \in Nat
  BY <1>0, BatchFacts, Zenon
<1>2. /\ Elsewhere(n, m) /\ link'[n][m].pc = link[n][m].pc /\ link'[n][m].fr = link[n][m].fr
      /\ link'[n][m].buf = link[n][m].buf /\ link'[n][m].bad = link[n][m].bad
      /\ link'[n][m].done = NextUp(n, m)
  BY <1>0, <1>1, WriteReplyEffect, Zenon
<1>3. /\ NextUp(n, m) \in 1..Len(link[n][m].buf)
      /\ \A j \in Pending(n, m) : NextUp(n, m) <= j
  BY <1>0, NextUpIsPending, Zenon
<1>4. \A i : Got(n, m, i) => Got(n, m, i)'
  BY Zenon DEF Got, Grows
<1>5. ASSUME NEW j \in DOMAIN link[n][m].buf, j <= NextUp(n, m)
      PROVE  Got(n, m, peer[n][m].off + j)'
  <2>1. CASE j <= link[n][m].done
    BY <1>4, <2>1, Zenon DEF Shipped
  <2>2. CASE j = NextUp(n, m)
    BY <2>2, Zenon DEF Got
  <2>3. CASE ~(j <= link[n][m].done) /\ j # NextUp(n, m)
    <3>1. j > link[n][m].done /\ ~(NextUp(n, m) <= j)
      BY <1>1, <1>3, <1>5, <2>3
    <3>2. j \notin Pending(n, m)
      BY <1>3, <3>1
    <3>3. link[n][m].buf[j].ver.node # n
      BY <3>1, <3>2, Zenon DEF Pending, Ours
    <3>4. link[n][m].buf[j] = aof[n][peer[n][m].off + j]
      BY Zenon DEF Shipped
    <3>. QED
      BY <3>3, <3>4, Zenon DEF Got
  <2>. QED
    BY <2>1, <2>2, <2>3
<1>6. \A i \in DOMAIN aof[n] : i <= peer[n][m].off => Got(n, m, i)'
  BY <1>4, Zenon DEF Shipped
<1>7. Shipped(n, m)'
  BY <1>2, <1>5, <1>6, Zenon DEF Shipped
<1>. QED
  BY <1>2, <1>7, Zenon

(* A merge arrives and is executed.                                        *)
LEMMA CInvDeliverWrite ==
  ASSUME LeastNumber, TInv, RInv, TInv', CInv, NEW n \in Nodes, NEW m \in Nodes, n # m, DeliverWrite(n, m)
  PROVE  CInv'
<1>0. TypeOK /\ Pending(n, m) # {} /\ InRoom(n, m) /\ WriteReply(n, m, link[n][m].bad)
  BY Zenon DEF TInv, DeliverWrite
<1>1. PICK e \in Entries, c \in Nat :
        /\ e.op = Sent(n, m).op /\ e.ver = Sent(n, m).ver /\ e.room = croom[m][n]
        /\ clock' = [clock EXCEPT ![m] = c] /\ clock[m] <= c /\ e.ver.ts <= c
        /\ heard' = [heard EXCEPT ![m] = @ \cup {e}]
        /\ \/ Stale(m, e.room, e.ver) /\ UNCHANGED <<db, tomb, aof>>
           \/ ~Stale(m, e.room, e.ver) /\ Apply(m, e)
        /\ UNCHANGED <<frontier, known, watermark, inode, peer, croom, faults>>
  BY <1>0, DeliverWriteEffect, Zenon
<1>2. /\ link[n][m].pc = "sent"
      /\ e = aof[n][peer[n][m].off + NextUp(n, m)] /\ e.ver.node = n /\ e.ver.ts >= 1
      /\ Stale(m, e.room, e.ver) =>
           e \in heard[m] \/ \E i \in EntriesOf(m, e.room) : ~Newer(e.ver, aof[m][i].ver)
  BY <1>0, <1>1, MergeArrives, Zenon
<1>3. /\ clock'[m] = c /\ heard'[m] = heard[m] \cup {e}
      /\ \A p \in Nodes \ {m} : clock'[p] = clock[p] /\ heard'[p] = heard[p]
      /\ \A p \in Nodes : clock[p] \in Nat /\ clock'[p] \in Nat
  BY <1>0, <1>1, Zenon DEF TypeOK
<1>4. \A p \in Nodes \ {m} : db'[p] = db[p] /\ tomb'[p] = tomb[p] /\ aof'[p] = aof[p]
  BY <1>0, <1>1, ApplyEffect, Zenon
<1>5. \A p \in Nodes : clock[p] <= clock'[p] /\ heard[p] \subseteq heard'[p]
  <2>1. clock[m] <= clock'[m] /\ heard[m] \subseteq heard'[m]
    BY <1>1, <1>3
  <2>2. \A p \in Nodes \ {m} : clock[p] <= clock'[p] /\ heard[p] \subseteq heard'[p]
    BY <1>3
  <2>. QED
    BY <2>1, <2>2
<1>6. \A p \in Nodes \ {m} : Grows(p)
  BY <1>4, <1>5, GrowsQuietly, Zenon
<1>7. Grows(m)
  <2>1. CASE UNCHANGED <<db, tomb, aof>>
    BY <1>5, <2>1, GrowsQuietly
  <2>2. CASE Apply(m, e)
    <3>1. aof'[m] = Append(aof[m], e)
      BY <1>0, <2>2, ApplyEffect, Zenon
    <3>. QED
      BY <1>0, <1>2, <1>5, <3>1, GrowsByApply, Zenon
  <2>. QED
    BY <1>1, <2>1, <2>2
<1>8. Shipped(n, m)' /\ Elsewhere(n, m)
  <2>1. /\ aof'[n] = aof[n] /\ clock'[n] = clock[n] /\ UNCHANGED <<peer, inode>>
        /\ aof[n][peer[n][m].off + NextUp(n, m)] \in heard'[m] /\ Shipped(n, m)
    BY <1>1, <1>2, <1>3, <1>4, Zenon DEF CInv
  <2>. QED
    BY <1>0, <1>2, <1>7, <2>1, ShippedWrite, Zenon
<1>9. \A p, q \in Nodes : p # q => Shipped(p, q)' /\ Announced(p, q)'
  <2>1. /\ \A p, q \in Nodes : p # q => Announced(p, q)'
        /\ \A p, q \in Nodes :
             p # q /\ peer'[p][q] = peer[p][q] /\ link'[p][q] = link[p][q] => Shipped(p, q)'
    BY <1>1, <1>6, <1>7, OthersKept, Zenon
  <2>. QED
    BY <1>8, <2>1, Zenon DEF Elsewhere
<1>10. \A p \in Nodes : NodeOK(p) /\ watermark'[p] = watermark[p] /\ frontier'[p] = frontier[p]
  BY <1>1, Zenon DEF CInv
<1>11. \A p \in Nodes \ {m} : NodeOK(p)'
  <2>1. \A p \in Nodes \ {m} : frontier'[p] <= clock'[p]
    BY <1>3, <1>10, Zenon DEF NodeOK, Covered
  <2>. QED
    BY <1>3, <1>4, <1>5, <1>10, <2>1, NodeKept, Zenon
<1>12. NodeOK(m)'
  <2>1. CASE Stale(m, e.room, e.ver) /\ UNCHANGED <<db, tomb, aof>>
    BY <1>1, <1>2, <1>3, <1>10, <2>1, NodeStale, Zenon
  <2>2. CASE ~Stale(m, e.room, e.ver) /\ Apply(m, e)
    <3>1. e.room \in Rooms /\ e.ver \in Version
      BY DEF Entries
    <3>2. \A i \in EntriesOf(m, e.room) : Newer(e.ver, aof[m][i].ver)
      BY <1>0, <1>10, <2>2, <3>1, NotStaleIsNewer, Zenon
    <3>3. Logged(m) /\ e.ver.node # m
      BY <1>2, Zenon DEF RInv
    <3>. QED
      BY <1>1, <1>2, <1>3, <1>10, <2>2, <3>2, <3>3, NodeApply, Zenon
  <2>. QED
    BY <1>1, <2>1, <2>2, Zenon
<1>. QED
  BY <1>9, <1>11, <1>12 DEF CInv

(* Versions start at 1.                                                    *)
LEMMA VersionsArePositive ==
  ASSUME TInv, RInv, CInv, NEW n \in Nodes, NEW i \in DOMAIN aof[n]
  PROVE  aof[n][i].ver.ts \in Nat /\ aof[n][i].ver.ts >= 1
<1>1. aof[n][i] \in heard[n]
  BY DEF RInv, Logged
<1>2. aof[n][i].ver.ts >= 1
  BY <1>1 DEF CInv, NodeOK, Covered
<1>3. aof[n][i].ver.ts \in Nat
  BY LogFacts DEF TInv
<1>. QED
  BY <1>2, <1>3

(* A step of a thread that touches neither a store nor a log.              *)
LEMMA CInvThread ==
  ASSUME TInv, TInv', CInv, NEW n \in Nodes, NEW m \in Nodes, n # m,
         Elsewhere(n, m), Shipped(n, m)', UNCHANGED <<nodeVars, logVars, heard>>
  PROVE  CInv'
<1>1. /\ UNCHANGED <<inode, known, watermark>> /\ UNCHANGED <<clock, heard, aof, frontier>>
      /\ UNCHANGED <<db, tomb>>
  BY DEF nodeVars, logVars
<1>2. \A p \in Nodes : clock[p] \in Nat
  BY DEF TInv, TypeOK
<1>3. \A p \in Nodes : Grows(p)
  BY <1>1, <1>2, GrowsQuietly
<1>4. \A p, q \in Nodes : p # q => Shipped(p, q)' /\ Announced(p, q)'
  <2>1. /\ \A p, q \in Nodes : p # q => Announced(p, q)'
        /\ \A p, q \in Nodes :
             p # q /\ peer'[p][q] = peer[p][q] /\ link'[p][q] = link[p][q] => Shipped(p, q)'
    BY <1>1, <1>3, OthersKept, Zenon
  <2>. QED
    BY <2>1, Zenon DEF Elsewhere
<1>5. \A p \in Nodes : NodeOK(p)'
  <2>1. \A p \in Nodes : NodeOK(p) /\ frontier[p] <= clock[p]
    BY Zenon DEF CInv, NodeOK, Covered
  <2>. QED
    BY <1>1, <1>2, <2>1, NodeKept, SMTT(20)
<1>. QED
  BY <1>4, <1>5 DEF CInv

(* Once nothing is pending, all of the batch has arrived.                  *)
LEMMA BatchArrived ==
  ASSUME TInv, NEW n \in Nodes, NEW m \in Nodes, Shipped(n, m), Pending(n, m) = {},
         link[n][m].pc = "sent"
  PROVE  /\ \A j \in DOMAIN link[n][m].buf : Got(n, m, peer[n][m].off + j)
         /\ \A i \in DOMAIN aof[n] : i <= peer[n][m].off + Len(link[n][m].buf) => Got(n, m, i)
<1>1. /\ DOMAIN link[n][m].buf = 1..Len(link[n][m].buf) /\ Len(link[n][m].buf) \in Nat
      /\ link[n][m].done \in Nat /\ peer[n][m].off \in Nat
      /\ Len(aof[n]) \in Nat /\ DOMAIN aof[n] = 1..Len(aof[n])
  BY BatchFacts DEF TInv
<1>2. ASSUME NEW j \in DOMAIN link[n][m].buf
      PROVE  Got(n, m, peer[n][m].off + j)
  <2>1. CASE j <= link[n][m].done
    BY <2>1 DEF Shipped
  <2>2. CASE ~(j <= link[n][m].done)
    <3>1. j > link[n][m].done
      BY <1>1, <2>2
    <3>2. link[n][m].buf[j].ver.node # n
      BY <3>1 DEF Pending, Ours
    <3>3. link[n][m].buf[j] = aof[n][peer[n][m].off + j]
      BY Zenon DEF Shipped
    <3>. QED
      BY <3>2, <3>3, Zenon DEF Got
  <2>. QED
    BY <2>1, <2>2
<1>3. ASSUME NEW i \in DOMAIN aof[n], i <= peer[n][m].off + Len(link[n][m].buf)
      PROVE  Got(n, m, i)
  <2>1. CASE i <= peer[n][m].off
    BY <2>1 DEF Shipped
  <2>2. CASE ~(i <= peer[n][m].off)
    <3>0. \A a, b, k \in Nat : ~(k <= a) /\ k <= a + b => k - a \in 1..b /\ a + (k - a) = k
      OBVIOUS
    <3>4. i \in Nat
      BY <1>1
    <3>1. i - peer[n][m].off \in 1..Len(link[n][m].buf) /\ peer[n][m].off + (i - peer[n][m].off) = i
      BY <1>1, <1>3, <2>2, <3>0, <3>4, Zenon
    <3>2. Got(n, m, peer[n][m].off + (i - peer[n][m].off))
      BY <1>1, <1>2, <3>1
    <3>. QED
      BY <3>1, <3>2
  <2>. QED
    BY <2>1, <2>2
<1>. QED
  BY <1>2, <1>3

(* A batch that ends: the offset may move past what has arrived.           *)
LEMMA ShippedReset ==
  ASSUME TInv, NEW n \in Nodes, NEW m \in Nodes, Shipped(n, m), Sending(n, m), NEW off \in Nat,
         peer[n][m].off <= off, off <= peer[n][m].off + Len(link[n][m].buf),
         \A j \in DOMAIN link[n][m].buf : peer[n][m].off + j <= off => Got(n, m, peer[n][m].off + j),
         link'[n][m] = NoBatch, peer'[n][m].ino = peer[n][m].ino, peer'[n][m].off = off,
         aof'[n] = aof[n], inode'[n] = inode[n], clock'[n] \in Nat, heard[m] \subseteq heard'[m]
  PROVE  Shipped(n, m)'
<1>1. /\ DOMAIN link[n][m].buf = 1..Len(link[n][m].buf) /\ Len(link[n][m].buf) \in Nat
      /\ peer[n][m].off \in Nat /\ Len(aof[n]) \in Nat /\ DOMAIN aof[n] = 1..Len(aof[n])
  BY BatchFacts, Zenon DEF TInv
<1>2. link[n][m].pc # "sent" => Len(link[n][m].buf) = 0
  BY DEF Sending
<1>3. peer[n][m].ino = 0 => off = 0
  <2>. SUFFICES ASSUME peer[n][m].ino = 0
                PROVE  off = 0
    OBVIOUS
  <2>1. peer[n][m].off = 0 /\ link[n][m].pc # "sent"
    BY DEF Shipped
  <2>. QED
    BY <1>2, <2>1
<1>4. ASSUME NEW i \in DOMAIN aof[n], i <= off
      PROVE  Got(n, m, i)'
  <2>1. CASE i <= peer[n][m].off
    BY <2>1, Zenon DEF Shipped, Got
  <2>2. CASE ~(i <= peer[n][m].off)
    <3>0. \A a, b, k \in Nat : ~(k <= a) /\ k <= a + b => k - a \in 1..b /\ a + (k - a) = k
      BY SMTT(20)
    <3>4. i \in Nat
      BY <1>1
    <3>5. \A a, b, c, k \in Nat : k <= c /\ c <= a + b => k <= a + b
      OBVIOUS
    <3>6. i <= peer[n][m].off + Len(link[n][m].buf)
      BY <1>1, <1>4, <3>4, <3>5, Zenon
    <3>1. i - peer[n][m].off \in 1..Len(link[n][m].buf) /\ peer[n][m].off + (i - peer[n][m].off) = i
      BY <1>1, <2>2, <3>0, <3>4, <3>6, Zenon
    <3>2. Got(n, m, peer[n][m].off + (i - peer[n][m].off))
      BY <1>1, <1>4, <3>1
    <3>. QED
      BY <3>1, <3>2, Zenon DEF Got
  <2>. QED
    BY <2>1, <2>2, Zenon
<1>5. link'[n][m].pc = "idle" /\ link'[n][m].bad = 0 /\ link'[n][m].fr = 0
  BY DEF NoBatch
<1>6. link'[n][m].fr <= clock'[n]
  BY <1>5, SMTT(20)
<1>. QED
  BY <1>3, <1>4, <1>5, <1>6, Zenon DEF Shipped

(* The offset after a loss is past entries of other nodes only.            *)
LEMMA ShippedLoss ==
  ASSUME LeastNumber, TInv, NEW n \in Nodes, NEW m \in Nodes, Shipped(n, m), Sending(n, m),
         link'[n][m] = NoBatch, peer'[n][m].ino = peer[n][m].ino,
         peer'[n][m].off = OffsetAfterLoss(n, m),
         aof'[n] = aof[n], inode'[n] = inode[n], clock'[n] \in Nat, heard[m] \subseteq heard'[m]
  PROVE  Shipped(n, m)'
<1>1. /\ OffsetAfterLoss(n, m) \in Nat
      /\ peer[n][m].off <= OffsetAfterLoss(n, m)
      /\ OffsetAfterLoss(n, m) <= peer[n][m].off + Len(link[n][m].buf)
      /\ \A j \in 1..Len(link[n][m].buf) :
           peer[n][m].off + j <= OffsetAfterLoss(n, m) => link[n][m].buf[j].ver.node # n
      /\ DOMAIN link[n][m].buf = 1..Len(link[n][m].buf)
  BY OffsetAfterLossWithin, BatchFacts, Zenon DEF TInv
<1>2. ASSUME NEW j \in DOMAIN link[n][m].buf, peer[n][m].off + j <= OffsetAfterLoss(n, m)
      PROVE  Got(n, m, peer[n][m].off + j)
  <2>1. link[n][m].pc = "sent"
    BY <1>1, <1>2, SMTT(20) DEF Sending
  <2>2. link[n][m].buf[j] = aof[n][peer[n][m].off + j]
    BY <2>1, Zenon DEF Shipped
  <2>. QED
    BY <1>1, <1>2, <2>2, Zenon DEF Got
<1>. HIDE DEF OffsetAfterLoss
<1>. QED
  BY <1>1, <1>2, ShippedReset, Zenon

(* The steps of a thread that talk to nobody's store.                      *)
LEMMA CInvLink ==
  ASSUME LeastNumber, TInv, RInv, TInv', CInv, NEW n \in Nodes, NEW m \in Nodes, n # m,
         \/ ReadFrontier(n, m) \/ BuildBatch(n, m) \/ BatchDone(n, m)
         \/ ConnectionLost(n, m) \/ DeliverRoom(n, m)
  PROVE  CInv'
<1>0. /\ TypeOK /\ Shipped(n, m) /\ Sending(n, m) /\ clock[n] \in Nat
      /\ frontier[n] <= clock[n]
  BY Zenon DEF TInv, CInv, RInv, TypeOK, NodeOK, Covered
<1>1. UNCHANGED <<nodeVars, logVars, heard>>
  BY DEF ReadFrontier, BuildBatch, BatchDone, ConnectionLost, DeliverRoom
<1>2. clock' = clock /\ heard' = heard /\ aof' = aof /\ inode' = inode
  BY <1>1 DEF nodeVars, logVars
<1>3. ASSUME Elsewhere(n, m), Shipped(n, m)'
      PROVE  CInv'
  BY <1>1, <1>3, CInvThread
<1>4. CASE ReadFrontier(n, m)
  <2>1. /\ Elsewhere(n, m) /\ peer'[n][m] = peer[n][m]
        /\ link'[n][m].pc = "read" /\ link'[n][m].fr = frontier[n] /\ link'[n][m].bad = 0
    BY <1>0, <1>4, ReadFrontierEffect, Zenon
  <2>2. Shipped(n, m)'
    BY <1>0, <1>2, <2>1, Zenon DEF Shipped, Got
  <2>. QED
    BY <1>3, <2>1, <2>2, Zenon
<1>5. CASE BuildBatch(n, m)
  <2>1. /\ Elsewhere(n, m)
        /\ peer'[n][m].ino = inode[n] /\ peer'[n][m].off = Offset(n, m)
        /\ link'[n][m].pc = "sent" /\ link'[n][m].bad = 0 /\ link'[n][m].done = 0
        /\ \A j \in DOMAIN link'[n][m].buf : link'[n][m].buf[j] = aof[n][Offset(n, m) + j]
        /\ \/ link'[n][m].fr = 0
           \/ /\ link'[n][m].fr = link[n][m].fr
              /\ Offset(n, m) + Len(link'[n][m].buf) = Len(aof[n])
        /\ link' \in [Nodes -> [Nodes -> Batches]]
    BY <1>0, <1>5, BuildBatchEffect, Zenon
  <2>2. Offset(n, m) = peer[n][m].off
    BY <1>0, Zenon DEF Offset, Shipped
  <2>3. link'[n][m].fr <= clock[n]
    BY <1>0, <2>1, SMTT(20) DEF Shipped
  <2>4. \A j \in DOMAIN link'[n][m].buf : ~(j <= 0)
    <3>1. link'[n][m].buf \in Seq(Entries)
      BY <2>1, Zenon DEF Batches
    <3>2. DOMAIN link'[n][m].buf = 1..Len(link'[n][m].buf)
      BY <3>1
    <3>. QED
      BY <3>2
  <2>5. ASSUME NEW i \in DOMAIN aof[n], aof[n][i].ver.ts <= link'[n][m].fr
        PROVE  i <= peer[n][m].off + Len(link'[n][m].buf)
    <3>1. link'[n][m].fr # 0
      BY <2>5, VersionsArePositive, SMTT(20)
    <3>2. DOMAIN aof[n] = 1..Len(aof[n]) /\ Len(aof[n]) \in Nat
      BY <1>0, LogFacts, Zenon
    <3>3. i <= Len(aof[n])
      BY <3>2, SMTT(20)
    <3>. QED
      BY <2>1, <2>2, <3>1, <3>3, Zenon
  <2>6. Shipped(n, m)'
    BY <1>0, <1>2, <2>1, <2>2, <2>3, <2>4, <2>5, Zenon DEF Shipped, Got
  <2>. QED
    BY <1>3, <2>1, <2>6, Zenon
<1>6. CASE BatchDone(n, m)
  <2>1. /\ Elsewhere(n, m) /\ link'[n][m] = NoBatch
        /\ peer'[n][m].ino = peer[n][m].ino /\ peer'[n][m].off = OffsetAfter(n, m)
        /\ OffsetAfter(n, m) \in Nat
        /\ OffsetAfter(n, m) <= peer[n][m].off + Len(link[n][m].buf)
    BY <1>6, BatchDoneEffect, Zenon
  <2>2. link[n][m].pc = "sent" /\ Pending(n, m) = {}
    BY <1>6, Zenon DEF BatchDone
  <2>3. OffsetAfter(n, m) = peer[n][m].off + Len(link[n][m].buf)
    BY <1>0, Zenon DEF OffsetAfter, Shipped
  <2>4. peer[n][m].off \in Nat /\ Len(link[n][m].buf) \in Nat
    BY <1>0, BatchFacts, Zenon
  <2>5. peer[n][m].off <= OffsetAfter(n, m)
    BY <2>3, <2>4
  <2>6. \A j \in DOMAIN link[n][m].buf : Got(n, m, peer[n][m].off + j)
    BY <1>0, <2>2, BatchArrived
  <2>7. Shipped(n, m)'
    BY <1>0, <1>2, <2>1, <2>5, <2>6, ShippedReset, Zenon
  <2>. QED
    BY <1>3, <2>1, <2>7, Zenon
<1>7. CASE ConnectionLost(n, m)
  <2>1. /\ Elsewhere(n, m) /\ link'[n][m] = NoBatch
        /\ peer'[n][m].ino = peer[n][m].ino /\ peer'[n][m].off = OffsetAfterLoss(n, m)
    BY <1>0, <1>7, ConnectionLostEffect, Zenon
  <2>2. Shipped(n, m)'
    BY <1>0, <1>2, <2>1, ShippedLoss
  <2>. QED
    BY <1>3, <2>1, <2>2, Zenon
<1>8. CASE DeliverRoom(n, m)
  <2>1. link[n][m].bad \in Nat
    BY <1>0, BatchFacts, Zenon
  <2>2. Pending(n, m) # {} /\ RoomReply(n, m, link[n][m].bad) /\ UNCHANGED peer
    BY <1>8 DEF DeliverRoom
  <2>3. /\ Elsewhere(n, m)
        /\ link'[n][m].pc = link[n][m].pc /\ link'[n][m].fr = link[n][m].fr
        /\ link'[n][m].buf = link[n][m].buf /\ link'[n][m].bad = link[n][m].bad
        /\ link'[n][m].done = link[n][m].done
    BY <1>0, <2>1, <2>2, RoomReplyEffect, Zenon
  <2>4. Shipped(n, m)'
    BY <1>0, <1>2, <2>2, <2>3, Zenon DEF Shipped, Got
  <2>. QED
    BY <1>3, <2>3, <2>4, Zenon
<1>. QED
  BY <1>4, <1>5, <1>6, <1>7, <1>8

(* Forgetting tombstones below the watermark loses nothing that decides.   *)
LEMMA NodeForgets ==
  ASSUME TInv, TInv', NEW n \in Nodes, NodeOK(n), aof'[n] = aof[n], heard'[n] = heard[n],
         db'[n] = db[n], watermark[n] <= watermark'[n],
         clock[n] <= clock'[n], frontier'[n] <= clock'[n],
         \A r \in Rooms : tomb'[n][r] =
           IF tomb[n][r] # None /\ tomb[n][r].ts <= watermark'[n] THEN None ELSE tomb[n][r]
  PROVE  NodeOK(n)'
<1>1. clock[n] \in Nat /\ clock'[n] \in Nat /\ \A e \in heard[n] : e.ver.ts \in Nat
  BY CoveredTypes, Zenon
<1>2. Covered(n)'
  BY <1>1 DEF NodeOK, Covered
<1>3. Written(n)' /\ Sorted(n)'
  <2>1. Written(n) /\ Sorted(n)
    BY Zenon DEF NodeOK
  <2>2. Written(n)'
    BY <2>1 DEF Written
  <2>3. Sorted(n)'
    BY <2>1 DEF Sorted
  <2>. QED
    BY <2>2, <2>3, Zenon
<1>4. \A r : EntriesOf(n, r)' = EntriesOf(n, r)
  BY Zenon DEF EntriesOf
<1>5. Superseded(n)'
  BY <1>4, Zenon DEF NodeOK, Superseded
<1>6. ASSUME NEW r \in Rooms
      PROVE  Decides(n, r)'
  <2>1. Decides(n, r)
    BY Zenon DEF NodeOK
  <2>2. \A i : IsLast(n, r, i)' = IsLast(n, r, i)
    BY <1>4 DEF IsLast
  <2>3. /\ watermark[n] \in Nat /\ watermark'[n] \in Nat
        /\ tomb[n][r] # None => tomb[n][r] \in Version
    BY DEF TInv, TypeOK
  <2>4. tomb[n][r] # None => tomb[n][r].ts \in Nat
    BY <2>3, Zenon DEF Version
  <2>5. \A i \in EntriesOf(n, r) : aof[n][i].ver.ts \in Nat
    BY LogFacts, Zenon DEF TInv, EntriesOf
  <2>6. ASSUME NEW i \in EntriesOf(n, r), IsLast(n, r, i), aof[n][i].op = "del"
        PROVE  tomb'[n][r] = aof[n][i].ver \/ (tomb'[n][r] = None /\ aof[n][i].ver.ts <= watermark'[n])
    <3>1. CASE tomb[n][r] = aof[n][i].ver
      BY <2>3, <2>5, <3>1, Zenon
    <3>2. CASE tomb[n][r] = None /\ aof[n][i].ver.ts <= watermark[n]
      <4>1. \A a, b, c \in Nat : a <= b /\ b <= c => a <= c
        OBVIOUS
      <4>2. aof[n][i].ver.ts <= watermark'[n]
        BY <2>3, <2>5, <3>2, <4>1, Zenon
      <4>. QED
        BY <3>2, <4>2, Zenon
    <3>. QED
      BY <2>1, <2>6, <3>1, <3>2, Zenon DEF Decides
  <2>7. tomb'[n][r] # None => tomb'[n][r] = tomb[n][r] /\ tomb[n][r].ts > watermark'[n]
    BY <2>3, <2>4
  <2>. QED
    BY <1>4, <2>1, <2>2, <2>6, <2>7, Zenon DEF Decides
<1>. QED
  BY <1>2, <1>3, <1>5, <1>6, Zenon DEF NodeOK

(* A frontier arrives.                                                     *)
LEMMA CInvDeliverFrontier ==
  ASSUME LeastNumber, TInv, RInv, TInv', CInv, NEW n \in Nodes, NEW m \in Peers(n), DeliverFrontier(n, m)
  PROVE  CInv'
<1>0. /\ TypeOK /\ n # m /\ m \in Nodes /\ Shipped(n, m) /\ Announced(n, m)
      /\ link[n][m].pc = "sent" /\ Pending(n, m) = {}
  BY DEF TInv, CInv, Peers, DeliverFrontier
<1>1. UNCHANGED <<db, aof, inode, peer, heard>>
  BY DEF DeliverFrontier, logVars
<1>2. /\ known'[m][n] = Bigger(known[m][n], link[n][m].fr)
      /\ \A p, q \in Nodes : p # m \/ q # n => known'[p][q] = known[p][q]
      /\ \A p \in Nodes \ {m} : watermark'[p] = watermark[p] /\ tomb'[p] = tomb[p]
      /\ watermark[m] <= watermark'[m]
      /\ watermark'[m] = watermark[m] \/ \A p \in Peers(m) : watermark'[m] <= known'[m][p]
      /\ \A r \in Rooms : tomb'[m][r] =
           IF tomb[m][r] # None /\ tomb[m][r].ts <= watermark'[m] THEN None ELSE tomb[m][r]
      /\ \A p \in Nodes : clock[p] <= clock'[p]
      /\ \A p \in Nodes : frontier'[p] = frontier[p] \/ frontier'[p] = clock'[p]
  <2>1. TypeOK
    BY <1>0
  <2>. QED
    BY <2>1, DeliverFrontierEffect
<1>3. /\ Elsewhere(n, m) /\ link'[n][m].pc = link[n][m].pc /\ link'[n][m].fr = 0
      /\ link'[n][m].buf = link[n][m].buf /\ link'[n][m].bad = link[n][m].bad
      /\ link'[n][m].done = link[n][m].done
  BY <1>0, FrontierReplyEffect, Zenon
<1>4. /\ \A p \in Nodes : clock[p] \in Nat /\ clock'[p] \in Nat /\ frontier[p] \in Nat
      /\ \A p, q \in Nodes : known[p][q] \in Nat /\ watermark[p] \in Nat
      /\ link[n][m].fr \in Nat
  <2>1. \A p \in Nodes : clock[p] \in Nat /\ frontier[p] \in Nat
    BY <1>0 DEF TypeOK
  <2>2. \A p \in Nodes : clock'[p] \in Nat
    BY DEF TInv, TypeOK
  <2>3. \A p, q \in Nodes : known[p][q] \in Nat /\ watermark[p] \in Nat
    BY <1>0 DEF TypeOK
  <2>. QED
    BY <1>0, <2>1, <2>2, <2>3, BatchFacts, Zenon
<1>5. \A p \in Nodes : Grows(p)
  BY <1>1, <1>2, GrowsQuietly, Zenon
<1>6. \A p \in Nodes : NodeOK(p) /\ frontier'[p] <= clock'[p]
  <2>1. ASSUME NEW p \in Nodes
        PROVE  NodeOK(p) /\ frontier'[p] <= clock'[p]
    <3>1. NodeOK(p) /\ frontier[p] <= clock[p]
      BY Zenon DEF CInv, NodeOK, Covered
    <3>. QED
      BY <1>2, <1>4, <3>1, SMTT(20)
  <2>. QED
    BY <2>1
<1>7. \A p \in Nodes \ {m} : NodeOK(p)'
  BY <1>1, <1>2, <1>6, NodeKept, Zenon
<1>8. NodeOK(m)'
  BY <1>0, <1>1, <1>2, <1>6, NodeForgets, Zenon
<1>9. ASSUME NEW p \in Nodes, NEW q \in Nodes, p # q
      PROVE  Shipped(p, q)'
  <2>1. CASE p = n /\ q = m
    <3>1. \A i \in DOMAIN aof[n] : ~(aof[n][i].ver.ts <= 0)
      BY VersionsArePositive
    <3>2. link'[n][m].fr <= clock'[n]
      BY <1>3, <1>4, SMTT(20)
    <3>3. Shipped(n, m)'
      BY <1>0, <1>1, <1>3, <3>1, <3>2, Zenon DEF Shipped, Got
    <3>. QED
      BY <2>1, <3>3
  <2>2. CASE p # n \/ q # m
    <3>1. Shipped(p, q) /\ inode'[p] = inode[p] /\ peer'[p][q] = peer[p][q] /\ link'[p][q] = link[p][q]
      BY <1>1, <1>3, <1>9, <2>2, Zenon DEF CInv, Elsewhere
    <3>. QED
      BY <1>5, <3>1, ShippedKept, Zenon
  <2>. QED
    BY <2>1, <2>2
<1>10. ASSUME NEW p \in Nodes, NEW q \in Nodes, p # q
       PROVE  watermark'[q] <= known'[q][p]
  <2>1. watermark[q] <= known[q][p]
    BY <1>10, Zenon DEF CInv, Announced
  <2>2. CASE q # m
    BY <1>2, <2>1, <2>2, Zenon
  <2>3. CASE q = m /\ watermark'[m] = watermark[m] /\ p # n
    BY <1>2, <2>1, <2>3, Zenon
  <2>4. CASE q = m /\ watermark'[m] = watermark[m] /\ p = n
    <3>1. \A a, b, c \in Nat : a <= b => a <= Bigger(b, c)
      BY DEF Bigger
    <3>. QED
      BY <1>0, <1>2, <1>4, <2>1, <2>4, <3>1
  <2>5. CASE q = m /\ \A s \in Peers(m) : watermark'[m] <= known'[m][s]
    BY <1>10, <2>5, Zenon DEF Peers
  <2>. QED
    BY <1>2, <2>2, <2>3, <2>4, <2>5, Zenon
<1>11. ASSUME NEW p \in Nodes, NEW q \in Nodes, p # q
       PROVE  Announced(p, q)'
  <2>1. CASE p # n \/ q # m
    <3>1. Announced(p, q) /\ known'[q][p] = known[q][p] /\ watermark'[q] <= known[q][p]
      BY <1>2, <1>10, <1>11, <2>1, Zenon DEF CInv
    <3>. QED
      BY <1>5, <3>1, AnnouncedKept, Zenon
  <2>2. CASE p = n /\ q = m
    <3>1. known'[m][n] \in {known[m][n], link[n][m].fr}
      BY <1>2, Zenon DEF Bigger
    <3>2. known'[m][n] <= clock'[n]
      <4>1. known[m][n] <= clock[n] /\ link[n][m].fr <= clock[n]
        BY <1>0, Zenon DEF Shipped, Announced
      <4>. QED
        BY <1>0, <1>2, <1>4, <3>1, <4>1, SMTT(20)
    <3>3. ASSUME NEW i \in DOMAIN aof[n], aof[n][i].ver.ts <= known'[m][n]
          PROVE  Got(n, m, i)
      <4>1. CASE known'[m][n] = known[m][n]
        BY <1>0, <3>3, <4>1, Zenon DEF Announced
      <4>2. CASE known'[m][n] = link[n][m].fr /\ aof[n][i].ver.node = n
        <5>1. i <= peer[n][m].off + Len(link[n][m].buf)
          BY <1>0, <3>3, <4>2, Zenon DEF Shipped
        <5>. QED
          BY <1>0, <5>1, BatchArrived, Zenon
      <4>3. CASE aof[n][i].ver.node # n
        BY <4>3 DEF Got
      <4>. QED
        BY <3>1, <4>1, <4>2, <4>3, Zenon
    <3>4. Announced(n, m)'
      BY <1>0, <1>1, <1>10, <3>2, <3>3, Zenon DEF Announced, Got
    <3>. QED
      BY <2>2, <3>4
  <2>. QED
    BY <2>1, <2>2
<1>. QED
  BY <1>7, <1>8, <1>9, <1>11 DEF CInv

(* What a restarting node rebuilds from its log is decided by the same     *)
(* entries; the tombstones that were forgotten are back.                   *)
LEMMA NodeRestarts ==
  ASSUME LeastNumber, TInv, RInv, CInv, TInv', NEW n \in Nodes, aof'[n] = aof[n], heard'[n] = heard[n],
         clock[n] <= clock'[n], frontier'[n] <= clock'[n], watermark'[n] = 0,
         \A r \in Rooms : db'[n][r] = ReplayedRecord(n, r) /\ tomb'[n][r] = ReplayedTomb(n, r)
  PROVE  NodeOK(n)'
<1>0. TypeOK /\ Stamped /\ NodeOK(n) /\ Sorted(n)
  BY Zenon DEF TInv, CInv, NodeOK
<1>1. clock[n] \in Nat /\ clock'[n] \in Nat /\ \A e \in heard[n] : e.ver.ts \in Nat
  BY CoveredTypes, Zenon
<1>2. Covered(n)'
  BY <1>0, <1>1 DEF NodeOK, Covered
<1>3. Written(n)' /\ Sorted(n)'
  BY <1>0, Zenon DEF NodeOK, Written, Sorted
<1>4. \A r : EntriesOf(n, r)' = EntriesOf(n, r)
  BY Zenon DEF EntriesOf
<1>5. Superseded(n)'
  BY <1>0, <1>4, Zenon DEF NodeOK, Superseded
<1>6. ASSUME NEW r \in Rooms
      PROVE  Decides(n, r)'
  <2>1. \A i : IsLast(n, r, i)' = IsLast(n, r, i)
    BY <1>4 DEF IsLast
  <2>2. /\ EntriesOf(n, r) = {} => db'[n][r] = None /\ tomb'[n][r] = None
        /\ tomb'[n][r] # None =>
              \E i \in EntriesOf(n, r) : /\ aof[n][i].op = "del" /\ tomb'[n][r] = aof[n][i].ver
                                         /\ \A j \in EntriesOf(n, r) : aof[n][j].op = "del" =>
                                              ~Newer(aof[n][j].ver, aof[n][i].ver)
        /\ tomb'[n][r] = None => \A i \in EntriesOf(n, r) : aof[n][i].op # "del"
    BY <1>0, ReplayEffect, Zenon
  <2>3. ASSUME NEW i \in EntriesOf(n, r), IsLast(n, r, i)
        PROVE  db'[n][r] = IF aof[n][i].op = "put" THEN aof[n][i].ver ELSE None
    <3>1. PICK k \in EntriesOf(n, r) :
            /\ \A j \in EntriesOf(n, r) : j <= k
            /\ db'[n][r] = IF aof[n][k].op = "put" THEN aof[n][k].ver ELSE None
      BY <1>0, ReplayEffect, Zenon
    <3>2. i \in Nat /\ k \in Nat
      BY <1>0, LogFacts
    <3>3. i = k
      BY <2>3, <3>1, <3>2 DEF IsLast
    <3>. QED
      BY <3>1, <3>3, Zenon
  <2>4. ASSUME NEW i \in EntriesOf(n, r), IsLast(n, r, i), aof[n][i].op = "del"
        PROVE  tomb'[n][r] = aof[n][i].ver
    <3>1. PICK k \in EntriesOf(n, r) :
            tomb'[n][r] = aof[n][k].ver /\ ~Newer(aof[n][i].ver, aof[n][k].ver)
      BY <2>2, <2>4, Zenon
    <3>2. k # i => Newer(aof[n][i].ver, aof[n][k].ver)
      BY <1>0, <2>4, LastIsNewest, Zenon
    <3>. QED
      BY <3>1, <3>2, Zenon
  <2>5. tomb'[n][r] # None =>
          tomb'[n][r].ts > 0 /\ \E i \in EntriesOf(n, r) : tomb'[n][r] = aof[n][i].ver
    <3>1. \A i \in EntriesOf(n, r) : aof[n][i].ver.ts > 0
      <4>1. \A i \in EntriesOf(n, r) : i \in DOMAIN aof[n]
        BY Zenon DEF EntriesOf
      <4>2. \A i \in EntriesOf(n, r) : aof[n][i].ver.ts \in Nat /\ aof[n][i].ver.ts >= 1
        BY <4>1, VersionsArePositive, Zenon
      <4>. QED
        BY <4>2
    <3>. QED
      BY <2>2, <3>1, Zenon
  <2>. QED
    BY <1>4, <2>1, <2>2, <2>3, <2>4, <2>5, Zenon DEF Decides
<1>. QED
  BY <1>2, <1>3, <1>5, <1>6, Zenon DEF NodeOK

(* A node restarts, its wall clock not behind.                             *)
LEMMA CInvRestart ==
  ASSUME LeastNumber, TInv, RInv, TInv', CInv, "skew" \notin Faults, NEW n \in Nodes, Restart(n)
  PROVE  CInv'
<1>0. TypeOK /\ Stamped /\ \A p, q \in Nodes : p # q => Shipped(p, q) /\ Announced(p, q) /\ Sending(p, q)
  BY DEF TInv, CInv, RInv
<1>1. UNCHANGED <<aof, inode, heard>> /\ known' = [known EXCEPT ![n] = [m \in Nodes |-> 0]]
      /\ watermark' = [watermark EXCEPT ![n] = 0]
  BY Zenon DEF Restart, logVars
<1>2. PICK ts : /\ ts \in Nat \ {0} /\ ts > clock[n]
                /\ clock' = [clock EXCEPT ![n] = ts] /\ frontier' = [frontier EXCEPT ![n] = ts]
  BY <1>0, RestartStore, Zenon
<1>3. /\ \A r \in Rooms : db'[n][r] = ReplayedRecord(n, r) /\ tomb'[n][r] = ReplayedTomb(n, r)
      /\ \A p \in Nodes \ {n} : db'[p] = db[p] /\ tomb'[p] = tomb[p]
  BY <1>0, RestartStore, Zenon
<1>4. \A p, q \in Nodes :
        /\ peer'[p][q].ino = peer[p][q].ino
        /\ n \in {p, q} => link'[p][q] = NoBatch
        /\ n \notin {p, q} => link'[p][q] = link[p][q] /\ peer'[p][q] = peer[p][q]
        /\ p = n => peer'[p][q].off = peer[p][q].off
        /\ p # n /\ q = n => peer'[p][q].off = OffsetAfterLoss(p, q)
  BY <1>0, RestartEffect, SMTT(20)
<1>5. \A p \in Nodes : clock[p] \in Nat /\ clock'[p] \in Nat
  <2>1. \A p \in Nodes : clock[p] \in Nat
    BY <1>0 DEF TypeOK
  <2>2. \A p \in Nodes : clock'[p] \in Nat
    BY DEF TInv, TypeOK
  <2>. QED
    BY <2>1, <2>2
<1>6. /\ clock'[n] = ts /\ frontier'[n] = ts /\ watermark'[n] = 0
      /\ \A p \in Nodes \ {n} : /\ clock'[p] = clock[p] /\ frontier'[p] = frontier[p]
                                /\ watermark'[p] = watermark[p]
      /\ \A q \in Nodes : known'[n][q] = 0
      /\ \A p \in Nodes \ {n} : known'[p] = known[p]
  BY <1>0, <1>1, <1>2 DEF TypeOK
<1>7. \A p \in Nodes : clock[p] <= clock'[p]
  <2>1. clock[n] <= clock'[n]
    BY <1>2, <1>5, <1>6
  <2>2. \A p \in Nodes \ {n} : clock[p] <= clock'[p]
    BY <1>5, <1>6
  <2>. QED
    BY <2>1, <2>2
<1>8. \A p \in Nodes : Grows(p)
  BY <1>1, <1>7, GrowsQuietly
<1>9. \A p \in Nodes \ {n} : NodeOK(p)'
  <2>1. \A p \in Nodes \ {n} : NodeOK(p) /\ frontier'[p] <= clock'[p]
    BY <1>6, Zenon DEF CInv, NodeOK, Covered
  <2>. QED
    BY <1>1, <1>3, <1>6, <1>7, <2>1, NodeKept, Zenon
<1>10. NodeOK(n)'
  <2>1. frontier'[n] <= clock'[n]
    BY <1>2, <1>6
  <2>. QED
    BY <1>1, <1>3, <1>6, <1>7, <2>1, NodeRestarts, Zenon
<1>11. ASSUME NEW p \in Nodes, NEW q \in Nodes, p # q
       PROVE  Shipped(p, q)'
  <2>0. Shipped(p, q) /\ Sending(p, q) /\ aof'[p] = aof[p] /\ inode'[p] = inode[p] /\ heard'[q] = heard[q]
    BY <1>0, <1>1, <1>11, Zenon
  <2>1. CASE n \notin {p, q}
    BY <1>4, <1>8, <2>0, <2>1, ShippedKept, Zenon
  <2>2. CASE p = n
    <3>1. peer[p][q].off \in Nat /\ Len(link[p][q].buf) \in Nat /\ DOMAIN link[p][q].buf = 1..Len(link[p][q].buf)
      BY <1>0, BatchFacts, Zenon
    <3>2. /\ peer[p][q].off <= peer[p][q].off
          /\ peer[p][q].off <= peer[p][q].off + Len(link[p][q].buf)
          /\ \A j \in DOMAIN link[p][q].buf : ~(peer[p][q].off + j <= peer[p][q].off)
      BY <3>1
    <3>3. /\ link'[p][q] = NoBatch /\ peer'[p][q].ino = peer[p][q].ino
          /\ peer'[p][q].off = peer[p][q].off
      BY <1>4, <2>2
    <3>. QED
      BY <1>5, <2>0, <3>1, <3>2, <3>3, ShippedReset, Zenon
  <2>3. CASE p # n /\ q = n
    <3>1. /\ link'[p][q] = NoBatch /\ peer'[p][q].ino = peer[p][q].ino
          /\ peer'[p][q].off = OffsetAfterLoss(p, q)
      BY <1>4, <2>3, Zenon
    <3>. QED
      BY <1>5, <2>0, <3>1, ShippedLoss, Zenon
  <2>. QED
    BY <2>1, <2>2, <2>3
<1>12. ASSUME NEW p \in Nodes, NEW q \in Nodes, p # q
       PROVE  Announced(p, q)'
  <2>1. CASE q # n
    <3>1. Announced(p, q) /\ known'[q][p] = known[q][p] /\ watermark'[q] <= known[q][p]
      BY <1>0, <1>6, <1>12, <2>1, Zenon DEF Announced
    <3>. QED
      BY <1>8, <3>1, AnnouncedKept
  <2>2. CASE q = n
    <3>1. known'[q][p] = 0 /\ watermark'[q] = 0
      BY <1>6, <2>2, Zenon
    <3>2. \A i \in DOMAIN aof[p] : ~(aof[p][i].ver.ts <= 0)
      BY VersionsArePositive
    <3>3. 0 <= clock'[p]
      BY <1>5
    <3>. QED
      BY <1>1, <3>1, <3>2, <3>3 DEF Announced
  <2>. QED
    BY <2>1, <2>2
<1>. QED
  BY <1>9, <1>10, <1>11, <1>12 DEF CInv

(* The invariant holds at first.                                          *)
LEMMA CInvInit == Init => CInv
<1>. SUFFICES ASSUME Init PROVE CInv
  OBVIOUS
<1>1. ASSUME NEW n \in Nodes
      PROVE  NodeOK(n)
  <2>1. /\ heard[n] = {} /\ aof[n] = <<>> /\ clock[n] = 1 /\ frontier[n] = 1
        /\ \A r \in Rooms : db[n][r] = None /\ tomb[n][r] = None
    BY DEF Init
  <2>2. DOMAIN aof[n] = {}
    BY <2>1
  <2>3. \A r : EntriesOf(n, r) = {}
    BY <2>2 DEF EntriesOf
  <2>. QED
    BY <2>1, <2>2, <2>3, SMTT(20) DEF NodeOK, Covered, Written, Sorted, Superseded, Decides
<1>2. ASSUME NEW n \in Nodes, NEW m \in Nodes
      PROVE  Shipped(n, m) /\ Announced(n, m)
  <2>1. /\ aof[n] = <<>> /\ clock[n] = 1 /\ inode[n] = 1 /\ known[m][n] = 0 /\ watermark[m] = 0
        /\ link[n][m] = NoBatch /\ peer[n][m].ino = 0 /\ peer[n][m].off = 0
    BY DEF Init
  <2>2. DOMAIN aof[n] = {}
    BY <2>1
  <2>3. link[n][m].pc = "idle" /\ link[n][m].bad = 0 /\ link[n][m].fr = 0
    BY <2>1 DEF NoBatch
  <2>. QED
    BY <2>1, <2>2, <2>3 DEF Shipped, Announced
<1>. QED
  BY <1>1, <1>2 DEF CInv

(* Logs are not rewritten.                                                 *)
LEMMA NoRewrites ==
  ASSUME OnlyLossAndRestart
  PROVE  \A n \in Nodes : ~Rewrite(n)
BY DEF OnlyLossAndRestart, Rewrite, Disturb

(* The invariant is inductive.                                             *)
LEMMA CInvStep ==
  ASSUME LeastNumber, OnlyLossAndRestart, TInv, RInv, CInv, TInv', [Next]_vars
  PROVE  CInv'
<1>1. "skew" \notin Faults /\ "rewrite" \notin Faults /\ "refusal" \notin Faults
  BY DEF OnlyLossAndRestart
<1>2. CASE UNCHANGED vars
  <2>1. /\ UNCHANGED <<db, tomb, clock, frontier, known, watermark>>
        /\ UNCHANGED <<aof, inode, peer, link, heard>>
    BY <1>2 DEF vars, nodeVars, logVars, linkVars
  <2>2. \A p \in Nodes : NodeOK(p)'
    <3>1. \A p \in Nodes : NodeOK(p) /\ frontier[p] <= clock[p] /\ clock[p] \in Nat
      BY Zenon DEF TInv, TypeOK, CInv, NodeOK, Covered
    <3>. QED
      BY <2>1, <3>1, NodeKept
  <2>3. \A p \in Nodes : Grows(p)
    <3>1. \A p \in Nodes : clock[p] \in Nat
      BY DEF TInv, TypeOK
    <3>. QED
      BY <2>1, <3>1, GrowsQuietly
  <2>4. \A p, q \in Nodes : p # q => Shipped(p, q)' /\ Announced(p, q)'
    BY <2>1, <2>3, OthersKept
  <2>. QED
    BY <2>2, <2>4 DEF CInv
<1>3. ASSUME NEW n \in Nodes, NEW r \in Rooms, NEW op \in {"put", "del"}, Write(n, r, op)
      PROVE  CInv'
  BY <1>3, CInvWrite
<1>4. ASSUME NEW n \in Nodes, NEW m \in Peers(n),
             Ship(n, m) \/ DeliverRefused(n, m) \/ ConnectionLost(n, m)
      PROVE  CInv'
  <2>1. m \in Nodes /\ n # m
    BY DEF Peers
  <2>2. ~DeliverRefused(n, m)
    BY <1>1 DEF DeliverRefused, Disturb
  <2>3. CASE \/ ReadFrontier(n, m) \/ BuildBatch(n, m) \/ BatchDone(n, m)
             \/ ConnectionLost(n, m) \/ DeliverRoom(n, m)
    BY <2>1, <2>3, CInvLink
  <2>4. CASE DeliverWrite(n, m)
    BY <2>1, <2>4, CInvDeliverWrite
  <2>5. CASE DeliverFrontier(n, m)
    BY <2>5, CInvDeliverFrontier
  <2>. QED
    BY <1>4, <2>2, <2>3, <2>4, <2>5 DEF Ship
<1>5. ASSUME NEW n \in Nodes, Rewrite(n) \/ Restart(n)
      PROVE  CInv'
  BY <1>1, <1>5, NoRewrites, CInvRestart
<1>. QED
  BY <1>2, <1>3, <1>4, <1>5 DEF Next
=============================================================================
