--------------------------- MODULE KeySpaceProofs ---------------------------
(***************************************************************************)
(* Proofs about KeySpace, for every set of rooms, keys and values and      *)
(* every value of the limits: the shapes of its steps, the type invariant, *)
(* the clock, that a key is in RAM, in cold storage or deleted, never in   *)
(* two of these, that KeySpace implements KvStore, and its limits.         *)
(***************************************************************************)
EXTENDS KeySpace, FiniteSetTheorems, TLAPS

(* Clock::next returns a version above the clock and the overwritten one.  *)
LEMMA NextVersionIsAbove ==
  ASSUME now \in Nat, clock \in Nat, NEW over \in Nat
  PROVE  /\ NextVersion(over) \in Nat
         /\ NextVersion(over) > clock
         /\ NextVersion(over) > over
<1> DEFINE S == {now * Tick, clock + 1, over + 1}
<1>1. now * Tick \in Nat
  BY LimitsAssumption
<1>2. \E x \in S : \A y \in S : x >= y
  BY <1>1
<1>3. /\ Max(S) \in S
      /\ \A y \in S : Max(S) >= y
  BY <1>2 DEF Max
<1> QED
  BY <1>1, <1>3 DEF NextVersion

(* Clock::observe never moves the clock back.                              *)
LEMMA ObservedIsAbove ==
  ASSUME clock \in Nat, NEW ts \in Nat
  PROVE  Observed(ts) \in Nat /\ Observed(ts) >= clock /\ Observed(ts) >= ts
<1>1. \E x \in {clock, ts} : \A y \in {clock, ts} : x >= y
  OBVIOUS
<1>2. /\ Max({clock, ts}) \in {clock, ts}
      /\ \A y \in {clock, ts} : Max({clock, ts}) >= y
  BY <1>1 DEF Max
<1> QED
  BY <1>2 DEF Observed

(* What a command leaves of one key: the handler's result, or that result  *)
(* moved from RAM to cold storage; the other rooms are untouched.          *)
LEMMA SettleKey ==
  ASSUME TypeOK, NEW r \in Rooms, NEW d \in Dict, NEW c \in Dict,
         Settle(r, d, c)
  PROVE  /\ state'[r] = "Active"
         /\ snap' = snap
         /\ \A k \in Keys :
              \/ ram'[r][k] = d[k] /\ cold'[r][k] = c[k]
              \/ ram'[r][k] = NoRec /\ cold'[r][k] = d[k] /\ d[k] # NoRec
         /\ \A q \in Rooms \ {r} : /\ state'[q] = state[q]
                                   /\ ram'[q] = ram[q]
                                   /\ cold'[q] = cold[q]
         /\ state' \in [Rooms -> {"Sleeping", "Active"}]
         /\ ram' \in [Rooms -> Dict]
         /\ cold' \in [Rooms -> Dict]
<1>1. PICK V \in Victims(r, d) :
        /\ ram' = [ram EXCEPT ![r] = [k \in Keys |-> IF k \in V THEN NoRec ELSE d[k]]]
        /\ cold' = [cold EXCEPT ![r] = [k \in Keys |-> IF k \in V THEN d[k] ELSE c[k]]]
  BY DEF Settle
<1>2. \A k \in V : k \in Keys /\ d[k] # NoRec
  BY <1>1 DEF Victims, Held
<1> DEFINE m == [k \in Keys |-> IF k \in V THEN NoRec ELSE d[k]]
           e == [k \in Keys |-> IF k \in V THEN d[k] ELSE c[k]]
<1>3. m \in Dict /\ e \in Dict
  BY DEF Dict
<1>4. \A k \in Keys : \/ m[k] = d[k] /\ e[k] = c[k]
                      \/ m[k] = NoRec /\ e[k] = d[k] /\ d[k] # NoRec
  BY <1>2
<1>5. state' = [state EXCEPT ![r] = "Active"] /\ snap' = snap
  BY DEF Settle
<1> HIDE DEF m, e
<1>6. ram' = [ram EXCEPT ![r] = m] /\ cold' = [cold EXCEPT ![r] = e]
  BY <1>1 DEF m, e
<1> QED
  BY <1>3, <1>4, <1>5, <1>6 DEF TypeOK

(* The results of lookup() are dictionaries.                               *)
LEMMA LookupTypes ==
  ASSUME TypeOK, NEW r \in Rooms, NEW K, NEW bad
  PROVE  /\ Content(r) \in Dict
         /\ \A k \in Keys : Found(r, k, bad) \in Record \cup {NoRec}
         /\ RamAfterLookup(r, K, bad) \in Dict
         /\ ColdAfterLookup(r, K, bad) \in Dict
<1>1. Content(r) \in Dict
  BY DEF TypeOK, Content
<1>2. cold[r] \in Dict
  BY DEF TypeOK
<1>3. \A k \in Keys : Found(r, k, bad) \in Record \cup {NoRec}
  BY <1>1, <1>2 DEF Dict, Found, Live
<1>4. RamAfterLookup(r, K, bad) \in Dict
  BY <1>1, <1>3 DEF RamAfterLookup, Dict
<1>5. ColdAfterLookup(r, K, bad) \in Dict
  BY <1>2 DEF ColdAfterLookup, Dict
<1> QED
  BY <1>1, <1>3, <1>4, <1>5

-----------------------------------------------------------------------------
(* The commands have three kinds of effect on the keys of their room.      *)

ReadEffect(r) ==
  \E K \in SUBSET Keys : \E bad \in BadReads(r, K) :
    /\ Settle(r, RamAfterLookup(r, K, bad), ColdAfterLookup(r, K, bad))
    /\ tomb' = tomb

WriteEffect(r) ==
  \E K \in SUBSET Keys : \E bad \in BadReads(r, K), w \in [K -> Record] :
    /\ Install(r, w, bad)
    /\ \A k \in K : w[k].ts <= clock'
    /\ \A k \in K : Found(r, k, bad) # NoRec => Newer(w[k], Found(r, k, bad))
    /\ \A j, k \in K : w[j].ts = w[k].ts /\ w[j].node = w[k].node
    /\ \A j, k \in K : j # k => w[j].exp = 0

DeleteEffect(r) ==
  \E k \in Keys : \E bad \in BadReads(r, {k}), v \in Version :
    /\ Erase(r, k, v, bad)
    /\ v.ts <= clock'

CommandEffect(r) ==
  /\ ReadEffect(r) \/ WriteEffect(r) \/ DeleteEffect(r)
  /\ clock' \in Nat /\ clock' >= clock
  /\ watermark' = watermark /\ now' = now

(* A local write of several keys is a write effect.                        *)
LEMMA WriteLocalEffect ==
  ASSUME TypeOK, NEW r \in Rooms, NEW K \in SUBSET Keys, NEW v \in Values,
         NEW exp \in Nat, WriteLocal(r, K, v, exp),
         exp = 0 \/ \A j, k \in K : j = k
  PROVE  /\ CommandEffect(r)
         /\ \E bad \in BadReads(r, K), w \in [K -> Record] :
              Install(r, w, bad) /\ \A k \in K : w[k].exp = exp
<1>0. PICK bad \in BadReads(r, K) :
        \E over \in {Overwritten(r, k, bad) : k \in K} :
          /\ \A k \in K : Overwritten(r, k, bad) <= over
          /\ clock' = NextVersion(over)
          /\ Install(r, [k \in K |-> [val |-> v, exp |-> exp,
                                      ts |-> NextVersion(over),
                                      node |-> LocalNode]], bad)
  BY Zenon DEF WriteLocal
<1>1. PICK over \in {Overwritten(r, k, bad) : k \in K} :
        /\ \A k \in K : Overwritten(r, k, bad) <= over
        /\ clock' = NextVersion(over)
        /\ Install(r, [k \in K |-> [val |-> v, exp |-> exp,
                                    ts |-> NextVersion(over),
                                    node |-> LocalNode]], bad)
  BY <1>0, Zenon
<1>2. \A k \in Keys : Overwritten(r, k, bad) \in Nat
  <2>1. \A k \in Keys : Found(r, k, bad) \in Record \cup {NoRec}
    BY LookupTypes
  <2>2. \A k \in Keys : tomb[r][k] \in Version \cup {NoRec}
    BY DEF TypeOK
  <2> QED
    BY <2>1, <2>2 DEF Overwritten, Record, Version
<1>3. over \in Nat
  BY <1>1, <1>2
<1>4. NextVersion(over) \in Nat /\ NextVersion(over) > clock /\ NextVersion(over) > over
  BY <1>3, NextVersionIsAbove DEF TypeOK
<1> DEFINE ver == NextVersion(over)
           w == [k \in K |-> [val |-> v, exp |-> exp, ts |-> ver, node |-> LocalNode]]
<1> HIDE DEF ver
<1>5. w \in [K -> Record]
  BY <1>4, NodesAssumption DEF Record, ver
<1>6. \A k \in K : Found(r, k, bad) # NoRec => Newer(w[k], Found(r, k, bad))
  <2> SUFFICES ASSUME NEW k \in K, Found(r, k, bad) # NoRec
               PROVE  Newer(w[k], Found(r, k, bad))
    OBVIOUS
  <2>1. Overwritten(r, k, bad) = Found(r, k, bad).ts
    BY DEF Overwritten
  <2>2. w[k].ts = ver
    OBVIOUS
  <2> HIDE DEF w
  <2> QED
    BY <1>1, <1>2, <1>3, <1>4, <2>1, <2>2 DEF Newer, ver
<1>7. \A k \in K : w[k].ts = ver /\ w[k].node = LocalNode /\ w[k].exp = exp
  OBVIOUS
<1>8. Install(r, w, bad) /\ clock' = ver
  BY <1>1 DEF ver
<1> HIDE DEF w
<1>9. WriteEffect(r)
  <2>1. \A k \in K : w[k].ts <= clock'
    BY <1>4, <1>7, <1>8 DEF ver
  <2>2. \A j, k \in K : j # k => w[j].exp = 0
    BY <1>7
  <2> QED
    BY <1>5, <1>6, <1>7, <1>8, <2>1, <2>2 DEF WriteEffect
<1>10. CommandEffect(r)
  BY <1>4, <1>8, <1>9 DEF CommandEffect, WriteLocal, ver, TypeOK
<1> QED
  BY <1>5, <1>7, <1>8, <1>10

(* MSET installs records without a deadline.                               *)
LEMMA MSetEffect ==
  ASSUME TypeOK, NEW r \in Rooms, NEW K \in SUBSET Keys, NEW v \in Values, MSet(r, K, v)
  PROVE  \E bad \in BadReads(r, K), w \in [K -> Record] :
           Install(r, w, bad) /\ \A k \in K : w[k].exp = 0
<1>1. WriteLocal(r, K, v, 0) /\ 0 \in Nat
  BY DEF MSet
<1> QED
  BY <1>1, WriteLocalEffect

(* EXPIRE and PERSIST are write effects.                                   *)
LEMMA ExpireEffect ==
  ASSUME TypeOK, NEW r \in Rooms, NEW k \in Keys, NEW exp \in Nat, Expire(r, k, exp)
  PROVE  /\ CommandEffect(r)
         /\ \E bad \in BadReads(r, {k}), w \in [{k} -> Record] :
              Install(r, w, bad) /\ w[k].exp = exp
<1>1. PICK bad \in BadReads(r, {k}) :
        /\ Found(r, k, bad) # NoRec
        /\ clock' = NextVersion(Found(r, k, bad).ts)
        /\ Install(r, [j \in {k} |-> [val |-> Found(r, k, bad).val, exp |-> exp,
                                      ts |-> NextVersion(Found(r, k, bad).ts),
                                      node |-> LocalNode]], bad)
  BY Zenon DEF Expire
<1> DEFINE x == Found(r, k, bad)
           ver == NextVersion(x.ts)
           w == [j \in {k} |-> [val |-> x.val, exp |-> exp, ts |-> ver, node |-> LocalNode]]
<1>2. x \in Record
  BY <1>1, LookupTypes
<1>3. ver \in Nat /\ ver > clock /\ ver > x.ts
  BY <1>2, NextVersionIsAbove DEF TypeOK, Record
<1>4. Install(r, w, bad) /\ clock' = ver
  BY <1>1
<1> HIDE DEF x, ver
<1>5. w \in [{k} -> Record]
  BY <1>2, <1>3, NodesAssumption DEF Record
<1>6. w[k].ts = ver /\ w[k].exp = exp
  OBVIOUS
<1> HIDE DEF w
<1>7. Newer(w[k], x)
  BY <1>2, <1>3, <1>6 DEF Newer, Record
<1>8. WriteEffect(r)
  <2> SUFFICES \E b \in BadReads(r, {k}), u \in [{k} -> Record] :
                 /\ Install(r, u, b)
                 /\ u[k].ts <= clock'
                 /\ Newer(u[k], Found(r, k, b))
    BY DEF WriteEffect
  <2>1. Newer(w[k], Found(r, k, bad))
    BY <1>7 DEF x
  <2>2. w[k].ts <= clock'
    BY <1>3, <1>4, <1>6
  <2> QED
    BY <1>4, <1>5, <2>1, <2>2, Zenon
<1>9. CommandEffect(r)
  BY <1>3, <1>4, <1>8 DEF CommandEffect, Expire, TypeOK
<1> QED
  BY <1>4, <1>5, <1>6, <1>9

(* DEL is a delete effect.                                                 *)
LEMMA DelEffect ==
  ASSUME TypeOK, NEW r \in Rooms, NEW k \in Keys, Del(r, k)
  PROVE  /\ CommandEffect(r)
         /\ \E bad \in BadReads(r, {k}), v \in Version : Erase(r, k, v, bad)
<1>1. PICK bad \in BadReads(r, {k}) :
        /\ Found(r, k, bad) # NoRec
        /\ clock' = NextVersion(Found(r, k, bad).ts)
        /\ Erase(r, k, [ts |-> NextVersion(Found(r, k, bad).ts),
                         node |-> LocalNode], bad)
  BY DEF Del
<1> DEFINE ver == NextVersion(Found(r, k, bad).ts)
<1>2. Found(r, k, bad) \in Record
  BY <1>1, LookupTypes, Zenon
<1>3. ver \in Nat /\ ver > clock
  BY <1>2, NextVersionIsAbove DEF TypeOK, Record
<1>4. Erase(r, k, [ts |-> ver, node |-> LocalNode], bad) /\ clock' = ver
  BY <1>1
<1> HIDE DEF ver
<1>5. [ts |-> ver, node |-> LocalNode] \in Version
  BY <1>3, NodesAssumption DEF Version
<1>6. DeleteEffect(r)
  BY <1>3, <1>4, <1>5 DEF DeleteEffect
<1>7. CommandEffect(r)
  BY <1>3, <1>4, <1>6 DEF CommandEffect, Del, TypeOK
<1> QED
  BY <1>4, <1>5, <1>7

(* An accepted CRDTMERGE is a write effect.                                *)
LEMMA MergeEffect ==
  ASSUME TypeOK, NEW r \in Rooms, NEW k \in Keys, NEW val \in Values,
         NEW v \in Version, NEW exp \in Nat \cup {KeepDeadline},
         CrdtMerge(r, k, val, v, exp)
  PROVE  /\ CommandEffect(r)
         /\ \E bad \in BadReads(r, {k}), w \in [{k} -> Record] : Install(r, w, bad)
<1>1. PICK bad \in BadReads(r, {k}) :
        /\ ~Stale(r, k, bad, v)
        /\ Install(r, [j \in {k} |->
                         [val |-> val, ts |-> v.ts, node |-> v.node,
                          exp |-> MergedDeadline(Found(r, k, bad), exp)]], bad)
  BY Zenon DEF CrdtMerge
<1>2. clock' = Observed(v.ts)
  BY DEF CrdtMerge, Incoming
<1>3. v.ts \in Nat /\ v.node \in Nodes
  BY DEF Version
<1>4. clock' \in Nat /\ clock' >= clock /\ v.ts <= clock'
  BY <1>2, <1>3, ObservedIsAbove DEF TypeOK
<1> DEFINE x == Found(r, k, bad)
           d == MergedDeadline(x, exp)
           w == [j \in {k} |-> [val |-> val, ts |-> v.ts, node |-> v.node, exp |-> d]]
<1>5. x \in Record \cup {NoRec}
  BY LookupTypes
<1>6. d \in Nat
  BY <1>5 DEF MergedDeadline, KeepDeadline, Record
<1>7. Install(r, w, bad)
  BY <1>1
<1>8. x # NoRec => v.ts > x.ts \/ (v.ts = x.ts /\ v.node > x.node)
  BY <1>1 DEF Stale, Newer, Ver
<1> HIDE DEF x, d
<1>9. w \in [{k} -> Record] /\ w[k].ts = v.ts /\ w[k].node = v.node
  BY <1>3, <1>6 DEF Record
<1> HIDE DEF w
<1>10. WriteEffect(r)
  <2> SUFFICES \E b \in BadReads(r, {k}), u \in [{k} -> Record] :
                 /\ Install(r, u, b)
                 /\ u[k].ts <= clock'
                 /\ Found(r, k, b) # NoRec => Newer(u[k], Found(r, k, b))
    BY DEF WriteEffect
  <2> QED
    BY <1>4, <1>7, <1>8, <1>9, Zenon DEF x, Newer
<1>11. CommandEffect(r)
  BY <1>4, <1>10 DEF CommandEffect, CrdtMerge
<1> QED
  BY <1>7, <1>9, <1>11

(* An accepted CRDTDEL is a delete effect, an ignored write a read effect. *)
LEMMA CrdtDelEffect ==
  ASSUME TypeOK, NEW r \in Rooms, NEW k \in Keys, NEW v \in Version,
         CrdtDel(r, k, v) \/ CrdtIgnored(r, k, v)
  PROVE  CommandEffect(r)
<1>1. clock' = Observed(v.ts)
  BY DEF CrdtDel, CrdtIgnored, Incoming
<1>2. clock' \in Nat /\ clock' >= clock /\ v.ts <= clock'
  BY <1>1, ObservedIsAbove DEF TypeOK, Version
<1>3. CASE CrdtDel(r, k, v)
  BY <1>2, <1>3, Zenon DEF CommandEffect, DeleteEffect, CrdtDel
<1>4. CASE CrdtIgnored(r, k, v)
  <2>1. ReadEffect(r)
    BY <1>4 DEF ReadEffect, CrdtIgnored
  <2> QED
    BY <1>2, <1>4, <2>1 DEF CommandEffect, CrdtIgnored
<1> QED
  BY <1>3, <1>4

(* A step of a room is a command or one of the moves of a whole room.      *)
LEMMA RoomStepKinds ==
  ASSUME TypeOK, NEW r \in Rooms, RoomStep(r)
  PROVE  CommandEffect(r) \/ Wake(r) \/ WakeUnreadable(r) \/ Hibernate(r)
         \/ CleanExpired(r)
<1>1. \A exp \in Deadlines : exp \in Nat
  BY LimitsAssumption DEF Deadlines
<1>2. \A v \in Versions : v \in Version
  BY DEF Versions, Version
<1>3. ASSUME NEW K \in SUBSET Keys, Read(r, K) PROVE CommandEffect(r)
  BY <1>3 DEF Read, CommandEffect, ReadEffect, TypeOK
<1>4. ASSUME NEW k \in Keys, NEW v \in Values, NEW exp \in Deadlines, Set(r, k, v, exp)
      PROVE  CommandEffect(r)
  BY <1>1, <1>4, WriteLocalEffect DEF Set
<1>5. ASSUME NEW K \in SUBSET Keys, NEW v \in Values, MSet(r, K, v)
      PROVE  CommandEffect(r)
  BY <1>5, WriteLocalEffect DEF MSet
<1>6. ASSUME NEW k \in Keys, NEW exp \in Deadlines, Expire(r, k, exp)
      PROVE  CommandEffect(r)
  BY <1>1, <1>6, ExpireEffect, Zenon
<1>7. ASSUME NEW k \in Keys, NEW val \in Values, NEW v \in Versions,
             NEW exp \in Deadlines \cup {KeepDeadline}, CrdtMerge(r, k, val, v, exp)
      PROVE  CommandEffect(r)
  BY <1>1, <1>2, <1>7, MergeEffect, Zenon
<1> QED
  BY <1>2, <1>3, <1>4, <1>5, <1>6, <1>7, DelEffect, CrdtDelEffect, Zenon DEF RoomStep

-----------------------------------------------------------------------------
(* The three effects, key by key: d and c are what the handler leaves in   *)
(* RAM and in cold storage before eviction.                                *)

TombDict == [Keys -> Version \cup {NoRec}]

(* A read leaves each key it looks up where lookup() puts it.              *)
LEMMA ReadResult ==
  ASSUME TypeOK, NEW r \in Rooms, ReadEffect(r)
  PROVE  \E K \in SUBSET Keys : \E bad \in BadReads(r, K), d \in Dict, c \in Dict :
           /\ Settle(r, d, c)
           /\ d = RamAfterLookup(r, K, bad)
           /\ c = ColdAfterLookup(r, K, bad)
           /\ tomb' = tomb
BY LookupTypes DEF ReadEffect

(* A write replaces what its lookups found.                                *)
LEMMA WriteResult ==
  ASSUME TypeOK, NEW r \in Rooms, NEW K \in SUBSET Keys,
         NEW bad, NEW w \in [K -> Record], Install(r, w, bad)
  PROVE  \E d \in Dict, c \in Dict :
           /\ Settle(r, d, c)
           /\ \A k \in K : d[k] = w[k]
           /\ \A k \in Keys \ K : d[k] = Content(r)[k]
           /\ c = ColdAfterLookup(r, K, bad)
<1> DEFINE f == RamAfterLookup(r, K, bad)
           d == [k \in Keys |-> IF k \in K THEN w[k] ELSE f[k]]
           c == ColdAfterLookup(r, K, bad)
<1>1. DOMAIN w = K
  OBVIOUS
<1>2. Settle(r, d, c)
  BY <1>1 DEF Install
<1>3. f \in Dict /\ c \in Dict
  BY LookupTypes
<1>4. \A k \in Keys \ K : f[k] = Content(r)[k]
  BY DEF RamAfterLookup
<1> HIDE DEF f, c
<1>5. d \in Dict
  BY <1>3 DEF Dict
<1>6. /\ \A k \in K : d[k] = w[k]
      /\ \A k \in Keys \ K : d[k] = Content(r)[k]
  BY <1>4
<1> HIDE DEF d
<1> QED
  BY <1>2, <1>3, <1>5, <1>6 DEF c

(* A write clears the tombstones of the keys it inserts.                   *)
LEMMA WriteTombs ==
  ASSUME TypeOK, NEW r \in Rooms, NEW K \in SUBSET Keys,
         NEW bad, NEW w \in [K -> Record], Install(r, w, bad)
  PROVE  /\ tomb' \in [Rooms -> TombDict]
         /\ \A q \in Rooms \ {r} : tomb'[q] = tomb[q]
         /\ \A k \in Keys : tomb'[r][k] = IF k \in K /\ Found(r, k, bad) = NoRec
                                            THEN NoRec ELSE tomb[r][k]
<1> DEFINE t == [k \in Keys |-> IF k \in K /\ Found(r, k, bad) = NoRec
                                  THEN NoRec ELSE tomb[r][k]]
<1>1. DOMAIN w = K
  OBVIOUS
<1>2. tomb' = [tomb EXCEPT ![r] = t]
  BY <1>1 DEF Install, TombsAfterWrite
<1>3. t \in TombDict /\ tomb \in [Rooms -> TombDict]
  BY DEF TypeOK, TombDict
<1>4. \A k \in Keys : t[k] = IF k \in K /\ Found(r, k, bad) = NoRec
                               THEN NoRec ELSE tomb[r][k]
  OBVIOUS
<1> HIDE DEF t
<1>5. /\ tomb' \in [Rooms -> TombDict]
      /\ \A q \in Rooms \ {r} : tomb'[q] = tomb[q]
      /\ tomb'[r] = t
  BY <1>2, <1>3
<1> QED
  BY <1>4, <1>5

(* A delete leaves no record of its key.                                   *)
LEMMA DeleteResult ==
  ASSUME TypeOK, NEW r \in Rooms, NEW k \in Keys, NEW bad, NEW v \in Version,
         Erase(r, k, v, bad)
  PROVE  \E d \in Dict, c \in Dict :
           /\ Settle(r, d, c)
           /\ d[k] = NoRec
           /\ \A j \in Keys \ {k} : d[j] = Content(r)[j]
           /\ c = ColdAfterLookup(r, {k}, bad)
<1> DEFINE f == RamAfterLookup(r, {k}, bad)
           d == [f EXCEPT ![k] = NoRec]
           c == ColdAfterLookup(r, {k}, bad)
<1>1. f \in Dict /\ c \in Dict
  BY LookupTypes
<1>2. \A j \in Keys \ {k} : f[j] = Content(r)[j]
  BY DEF RamAfterLookup
<1>3. Settle(r, d, c)
  BY DEF Erase
<1> HIDE DEF f, c
<1>4. d \in Dict /\ d[k] = NoRec /\ \A j \in Keys \ {k} : d[j] = Content(r)[j]
  BY <1>1, <1>2 DEF Dict
<1> HIDE DEF d
<1> QED
  BY <1>1, <1>3, <1>4 DEF c

(* A delete leaves at most a tombstone that is the old one or the new      *)
(* version.                                                                *)
LEMMA DeleteTombs ==
  ASSUME TypeOK, NEW r \in Rooms, NEW k \in Keys, NEW bad, NEW v \in Version,
         Erase(r, k, v, bad)
  PROVE  /\ tomb' \in [Rooms -> TombDict]
         /\ \A q \in Rooms \ {r} : tomb'[q] = tomb[q]
         /\ tomb'[r][k] = tomb[r][k] \/ tomb'[r][k] = v
         /\ \A j \in Keys \ {k} : tomb'[r][j] = tomb[r][j]
<1>1. tomb' = TombsAfterDelete(r, k, v)
  BY DEF Erase
<1>2. tomb \in [Rooms -> TombDict]
  BY DEF TypeOK, TombDict
<1>3. tomb' = tomb \/ tomb' = [tomb EXCEPT ![r][k] = v]
  BY <1>1, <1>2, Zenon DEF TombsAfterDelete, TombDict
<1> QED
  BY <1>2, <1>3 DEF TombDict

-----------------------------------------------------------------------------
(* The type invariant.                                                     *)

(* A command settles dictionaries and keeps the tombstones well typed.     *)
LEMMA CommandTypes ==
  ASSUME TypeOK, NEW r \in Rooms, CommandEffect(r)
  PROVE  /\ \E d \in Dict, c \in Dict : Settle(r, d, c)
         /\ tomb' \in [Rooms -> TombDict]
<1>0. tomb \in [Rooms -> TombDict]
  BY DEF TypeOK, TombDict
<1>1. CASE ReadEffect(r)
  BY <1>0, <1>1, ReadResult
<1>2. CASE WriteEffect(r)
  <2>1. PICK K \in SUBSET Keys :
          \E bad \in BadReads(r, K), w \in [K -> Record] : Install(r, w, bad)
    BY <1>2 DEF WriteEffect
  <2>2. PICK bad \in BadReads(r, K), w \in [K -> Record] : Install(r, w, bad)
    BY <2>1
  <2>3. \E d \in Dict, c \in Dict : Settle(r, d, c)
    BY <2>2, WriteResult, Zenon
  <2>4. tomb' \in [Rooms -> TombDict]
    BY <2>2, WriteTombs, Zenon
  <2> QED
    BY <2>3, <2>4
<1>3. CASE DeleteEffect(r)
  <2>1. PICK k \in Keys :
          \E bad \in BadReads(r, {k}), v \in Version : Erase(r, k, v, bad)
    BY <1>3 DEF DeleteEffect
  <2>2. PICK bad \in BadReads(r, {k}), v \in Version : Erase(r, k, v, bad)
    BY <2>1
  <2> QED
    BY <2>2, DeleteResult, DeleteTombs, Zenon
<1> QED
  BY <1>1, <1>2, <1>3 DEF CommandEffect

(* The initial state is well typed.                                        *)
LEMMA TypeInit == Init => TypeOK
BY DEF Init, TypeOK, Dict, Empty

(* Every step keeps the state well typed.                                  *)
LEMMA TypeStep == TypeOK /\ [Next]_vars => TypeOK'
<1> SUFFICES ASSUME TypeOK, [Next]_vars PROVE TypeOK'
  OBVIOUS
<1>1. ASSUME NEW r \in Rooms, CommandEffect(r) PROVE TypeOK'
  <2>1. PICK d \in Dict, c \in Dict : Settle(r, d, c)
    BY <1>1, CommandTypes
  <2>2. /\ state'[r] = "Active"
        /\ snap' = snap
        /\ \A q \in Rooms \ {r} : state'[q] = state[q] /\ ram'[q] = ram[q]
        /\ state' \in [Rooms -> {"Sleeping", "Active"}]
        /\ ram' \in [Rooms -> Dict]
        /\ cold' \in [Rooms -> Dict]
    BY <2>1, SettleKey
  <2>3. tomb' \in [Rooms -> [Keys -> Version \cup {NoRec}]]
    BY <1>1, CommandTypes DEF TombDict
  <2>4. clock' \in Nat /\ watermark' = watermark /\ now' = now
    BY <1>1 DEF CommandEffect
  <2> QED
    BY <2>2, <2>3, <2>4, Zenon DEF TypeOK, Empty
<1>2. ASSUME NEW r \in Rooms, Wake(r) PROVE TypeOK'
  BY <1>2 DEF Wake, TypeOK
<1>3. ASSUME NEW r \in Rooms, WakeUnreadable(r) PROVE TypeOK'
  BY <1>3 DEF WakeUnreadable, TypeOK
<1>4. ASSUME NEW r \in Rooms, Hibernate(r) PROVE TypeOK'
  <2>1. Empty \in Dict
    BY DEF Empty, Dict
  <2> QED
    BY <1>4, <2>1 DEF Hibernate, TypeOK
<1>5. ASSUME NEW r \in Rooms, CleanExpired(r) PROVE TypeOK'
  <2> DEFINE d == [k \in Keys |-> Live(ram[r][k])]
  <2>1. d \in Dict
    BY DEF TypeOK, Dict, Live
  <2>2. ram[r] = Empty => d = Empty
    BY DEF Empty, Live
  <2> HIDE DEF d
  <2>3. ram' = [ram EXCEPT ![r] = d]
    BY <1>5 DEF CleanExpired, d
  <2> QED
    BY <1>5, <2>1, <2>2, <2>3 DEF CleanExpired, TypeOK
<1>6. ASSUME NEW w \in 1..MaxTs, ReplFrontier(w) PROVE TypeOK'
  <2>1. tomb' \in [Rooms -> [Keys -> Version \cup {NoRec}]]
    BY <1>6 DEF ReplFrontier, TypeOK
  <2>2. clock' \in Nat
    BY <1>6, NextVersionIsAbove DEF ReplFrontier, TypeOK
  <2>3. watermark' \in Nat /\ now' = now /\ UNCHANGED places
    BY <1>6, LimitsAssumption DEF ReplFrontier
  <2> QED
    BY <2>1, <2>2, <2>3 DEF TypeOK, places, Empty
<1>7. CASE Compact
  <2>1. cold' \in [Rooms -> Dict]
    BY <1>7 DEF Compact, TypeOK, Dict, Live
  <2> QED
    BY <1>7, <2>1 DEF Compact, TypeOK, Empty
<1>8. CASE TimePasses
  BY <1>8 DEF TimePasses, TypeOK, places, Empty
<1>9. CASE UNCHANGED vars
  BY <1>9 DEF vars, TypeOK, Empty
<1> QED
  BY <1>1, <1>2, <1>3, <1>4, <1>5, <1>6, <1>7, <1>8, <1>9, RoomStepKinds DEF Next

(* The state is well typed in every behaviour, whatever faults occur; in   *)
(* particular a sleeping room holds no records in RAM.                     *)
THEOREM TypeCorrect == Spec => []TypeOK
BY TypeInit, TypeStep, PTL DEF Spec

-----------------------------------------------------------------------------
(* The clock.                                                              *)

Covered(x, n) == x # NoRec => x.ts <= n

(* A version that one clock covers every later clock covers.               *)
LEMMA CoveredLater ==
  ASSUME NEW x \in Record \cup Version \cup {NoRec}, NEW m \in Nat, NEW n \in Nat,
         m <= n, Covered(x, m)
  PROVE  Covered(x, n)
<1>1. CASE x = NoRec
  BY <1>1 DEF Covered
<1>2. CASE x # NoRec
  <2>1. x.ts \in Nat
    BY <1>2 DEF Record, Version
  <2> QED
    BY <1>2, <2>1 DEF Covered
<1> QED
  BY <1>1, <1>2

(* If the handler leaves only covered versions, eviction does not change   *)
(* that.                                                                   *)
LEMMA SettleCovers ==
  ASSUME TypeOK, ClockCovers, clock' \in Nat, clock' >= clock,
         NEW r \in Rooms, NEW d \in Dict, NEW c \in Dict, Settle(r, d, c),
         \A k \in Keys : /\ Covered(d[k], clock')
                         /\ Covered(c[k], clock')
                         /\ Covered(tomb'[r][k], clock'),
         \A q \in Rooms \ {r} : tomb'[q] = tomb[q]
  PROVE  ClockCovers'
<1> SUFFICES ASSUME NEW q \in Rooms, NEW k \in Keys
             PROVE  /\ Covered(Content(q)[k]', clock')
                    /\ Covered(cold'[q][k], clock')
                    /\ Covered(tomb'[q][k], clock')
  BY DEF ClockCovers, Covered
<1>1. CASE q = r
  BY <1>1, SettleKey DEF Content, Covered
<1>2. CASE q # r
  <2>1. /\ Content(q)[k]' = Content(q)[k]
        /\ cold'[q][k] = cold[q][k]
        /\ tomb'[q][k] = tomb[q][k]
    <3>1. /\ state'[q] = state[q] /\ ram'[q] = ram[q] /\ cold'[q] = cold[q]
          /\ snap' = snap
      BY <1>2, SettleKey
    <3> QED
      BY <1>2, <3>1 DEF Content
  <2>2. /\ Covered(Content(q)[k], clock)
        /\ Covered(cold[q][k], clock)
        /\ Covered(tomb[q][k], clock)
    BY DEF ClockCovers, Covered
  <2>3. /\ Content(q)[k] \in Record \cup {NoRec}
        /\ cold[q][k] \in Record \cup {NoRec}
        /\ tomb[q][k] \in Version \cup {NoRec}
    BY LookupTypes, Zenon DEF TypeOK, Dict
  <2>4. clock \in Nat
    BY DEF TypeOK
  <2>5. /\ Covered(Content(q)[k], clock')
        /\ Covered(cold[q][k], clock')
        /\ Covered(tomb[q][k], clock')
    BY <2>2, <2>3, <2>4, CoveredLater, Zenon
  <2> QED
    BY <2>1, <2>5
<1> QED
  BY <1>1, <1>2

(* What a lookup finds, and what it leaves behind, is covered.             *)
LEMMA LookupCovers ==
  ASSUME TypeOK, ClockCovers, NEW n \in Nat, n >= clock, NEW r \in Rooms,
         NEW K, NEW bad, NEW k \in Keys
  PROVE  /\ Covered(Content(r)[k], n)
         /\ Covered(tomb[r][k], n)
         /\ Covered(RamAfterLookup(r, K, bad)[k], n)
         /\ Covered(ColdAfterLookup(r, K, bad)[k], n)
<1>1. /\ Content(r)[k] \in Record \cup {NoRec}
      /\ cold[r][k] \in Record \cup {NoRec}
      /\ tomb[r][k] \in Version \cup {NoRec}
  BY LookupTypes, Zenon DEF TypeOK, Dict
<1>2. /\ Covered(Content(r)[k], clock)
      /\ Covered(cold[r][k], clock)
      /\ Covered(tomb[r][k], clock)
  BY DEF ClockCovers, Covered
<1>3. /\ Covered(Content(r)[k], n)
      /\ Covered(cold[r][k], n)
      /\ Covered(tomb[r][k], n)
  <2>1. clock \in Nat
    BY DEF TypeOK
  <2> QED
    BY <1>1, <1>2, <2>1, CoveredLater
<1>4. RamAfterLookup(r, K, bad)[k] \in {Content(r)[k], cold[r][k], NoRec}
  BY DEF RamAfterLookup, Found, Live
<1>5. ColdAfterLookup(r, K, bad)[k] \in {cold[r][k], NoRec}
  BY DEF ColdAfterLookup
<1> QED
  BY <1>3, <1>4, <1>5 DEF Covered

(* No command leaves a version above the clock.                            *)
LEMMA CommandCovers ==
  ASSUME TypeOK, ClockCovers, NEW r \in Rooms, CommandEffect(r)
  PROVE  ClockCovers'
<1>0. clock' \in Nat /\ clock' >= clock
  BY DEF CommandEffect
<1>1. CASE ReadEffect(r)
  <2>1. PICK K \in SUBSET Keys :
          \E bad \in BadReads(r, K), d \in Dict, c \in Dict :
            /\ Settle(r, d, c)
            /\ d = RamAfterLookup(r, K, bad)
            /\ c = ColdAfterLookup(r, K, bad)
            /\ tomb' = tomb
    BY <1>1, ReadResult
  <2>2. PICK bad \in BadReads(r, K), d \in Dict, c \in Dict :
            /\ Settle(r, d, c)
            /\ d = RamAfterLookup(r, K, bad)
            /\ c = ColdAfterLookup(r, K, bad)
            /\ tomb' = tomb
    BY <2>1
  <2>3. \A k \in Keys : /\ Covered(d[k], clock')
                        /\ Covered(c[k], clock')
                        /\ Covered(tomb'[r][k], clock')
    BY <1>0, <2>2, LookupCovers
  <2> QED
    BY <1>0, <2>2, <2>3, SettleCovers
<1>2. CASE WriteEffect(r)
  <2>1. PICK K \in SUBSET Keys :
          \E bad \in BadReads(r, K), w \in [K -> Record] :
            Install(r, w, bad) /\ \A k \in K : w[k].ts <= clock'
    BY <1>2 DEF WriteEffect
  <2>2. PICK bad \in BadReads(r, K), w \in [K -> Record] :
            Install(r, w, bad) /\ \A k \in K : w[k].ts <= clock'
    BY <2>1
  <2>6. Install(r, w, bad)
    BY <2>2
  <2>3. PICK d \in Dict, c \in Dict :
          /\ Settle(r, d, c)
          /\ \A k \in K : d[k] = w[k]
          /\ \A k \in Keys \ K : d[k] = Content(r)[k]
          /\ c = ColdAfterLookup(r, K, bad)
    BY <2>6, WriteResult, Zenon
  <2>4. /\ \A q \in Rooms \ {r} : tomb'[q] = tomb[q]
        /\ \A k \in Keys : tomb'[r][k] = NoRec \/ tomb'[r][k] = tomb[r][k]
    BY <2>6, WriteTombs, Zenon
  <2>5. \A k \in Keys : /\ Covered(d[k], clock')
                        /\ Covered(c[k], clock')
                        /\ Covered(tomb'[r][k], clock')
    <3> SUFFICES ASSUME NEW k \in Keys
                 PROVE  /\ Covered(d[k], clock')
                        /\ Covered(c[k], clock')
                        /\ Covered(tomb'[r][k], clock')
      OBVIOUS
    <3>1. /\ Covered(Content(r)[k], clock')
          /\ Covered(tomb[r][k], clock')
          /\ Covered(c[k], clock')
      BY <1>0, <2>3, LookupCovers
    <3> QED
      BY <2>2, <2>3, <2>4, <3>1 DEF Covered
  <2> QED
    BY <1>0, <2>3, <2>4, <2>5, SettleCovers
<1>3. CASE DeleteEffect(r)
  <2>1. PICK k \in Keys :
          \E bad \in BadReads(r, {k}), v \in Version :
            Erase(r, k, v, bad) /\ v.ts <= clock'
    BY <1>3, Zenon DEF DeleteEffect
  <2>2. PICK bad \in BadReads(r, {k}), v \in Version :
            Erase(r, k, v, bad) /\ v.ts <= clock'
    BY <2>1
  <2>3. PICK d \in Dict, c \in Dict :
          /\ Settle(r, d, c)
          /\ d[k] = NoRec
          /\ \A j \in Keys \ {k} : d[j] = Content(r)[j]
          /\ c = ColdAfterLookup(r, {k}, bad)
    BY <2>2, DeleteResult
  <2>4. /\ \A q \in Rooms \ {r} : tomb'[q] = tomb[q]
        /\ tomb'[r][k] = tomb[r][k] \/ tomb'[r][k] = v
        /\ \A j \in Keys \ {k} : tomb'[r][j] = tomb[r][j]
    BY <2>2, DeleteTombs, Zenon
  <2>5. \A j \in Keys : /\ Covered(d[j], clock')
                        /\ Covered(c[j], clock')
                        /\ Covered(tomb'[r][j], clock')
    <3> SUFFICES ASSUME NEW j \in Keys
                 PROVE  /\ Covered(d[j], clock')
                        /\ Covered(c[j], clock')
                        /\ Covered(tomb'[r][j], clock')
      OBVIOUS
    <3>1. /\ Covered(Content(r)[j], clock')
          /\ Covered(tomb[r][j], clock')
          /\ Covered(c[j], clock')
      BY <1>0, <2>3, LookupCovers
    <3> QED
      BY <2>2, <2>3, <2>4, <3>1 DEF Covered
  <2> QED
    BY <1>0, <2>3, <2>4, <2>5, SettleCovers, Zenon
<1> QED
  BY <1>1, <1>2, <1>3 DEF CommandEffect

(* No step leaves a version above the clock.                               *)
LEMMA ClockStep == TypeOK /\ ClockCovers /\ [Next]_vars => ClockCovers'
<1> SUFFICES ASSUME TypeOK, ClockCovers, [Next]_vars PROVE ClockCovers'
  OBVIOUS
<1>1. ASSUME NEW r \in Rooms, Wake(r) PROVE ClockCovers'
  <2>1. \A q \in Rooms : Content(q)' = Content(q)
    BY <1>1 DEF Wake, Content, TypeOK
  <2> QED
    BY <1>1, <2>1 DEF Wake, ClockCovers
<1>2. ASSUME NEW r \in Rooms, WakeUnreadable(r) PROVE ClockCovers'
  <2>1. \A q \in Rooms : Content(q)' = Content(q) \/ Content(q)' = Empty
    BY <1>2 DEF WakeUnreadable, Content, TypeOK
  <2>2. UNCHANGED <<cold, tomb, clock>>
    BY <1>2 DEF WakeUnreadable
  <2> QED
    BY <2>1, <2>2 DEF ClockCovers, Empty
<1>3. ASSUME NEW r \in Rooms, Hibernate(r) PROVE ClockCovers'
  <2>1. \A q \in Rooms : Content(q)' = Content(q)
    BY <1>3 DEF Hibernate, Content, TypeOK
  <2> QED
    BY <1>3, <2>1 DEF Hibernate, ClockCovers
<1>4. ASSUME NEW r \in Rooms, CleanExpired(r) PROVE ClockCovers'
  <2>1. \A q \in Rooms, k \in Keys :
          Content(q)[k]' = Content(q)[k] \/ Content(q)[k]' = NoRec
    BY <1>4 DEF CleanExpired, Content, Live, TypeOK
  <2>2. UNCHANGED <<cold, tomb, clock>>
    BY <1>4 DEF CleanExpired
  <2> QED
    BY <2>1, <2>2 DEF ClockCovers
<1>5. ASSUME NEW w \in 1..MaxTs, ReplFrontier(w) PROVE ClockCovers'
  <2>1. \A q \in Rooms : Content(q)' = Content(q)
    BY <1>5 DEF ReplFrontier, places, Content
  <2>2. cold' = cold
    BY <1>5 DEF ReplFrontier, places
  <2>3. \A q \in Rooms, k \in Keys : tomb'[q][k] = tomb[q][k] \/ tomb'[q][k] = NoRec
    BY <1>5 DEF ReplFrontier
  <2>4. clock' \in Nat /\ clock' > clock
    BY <1>5, NextVersionIsAbove DEF ReplFrontier, TypeOK
  <2>5. \A q \in Rooms, k \in Keys : /\ Covered(Content(q)[k], clock')
                                     /\ Covered(cold[q][k], clock')
                                     /\ Covered(tomb[q][k], clock')
    <3>1. \A q \in Rooms, k \in Keys :
            /\ Content(q)[k] \in Record \cup {NoRec}
            /\ cold[q][k] \in Record \cup {NoRec}
            /\ tomb[q][k] \in Version \cup {NoRec}
      BY LookupTypes, Zenon DEF TypeOK, Dict
    <3>2. \A q \in Rooms, k \in Keys : /\ Covered(Content(q)[k], clock)
                                       /\ Covered(cold[q][k], clock)
                                       /\ Covered(tomb[q][k], clock)
      BY DEF ClockCovers, Covered
    <3>3. clock \in Nat /\ clock <= clock'
      BY <2>4 DEF TypeOK
    <3> QED
      BY <2>4, <3>1, <3>2, <3>3, CoveredLater
  <2> QED
    BY <2>1, <2>2, <2>3, <2>5 DEF ClockCovers, Covered
<1>6. CASE Compact
  <2>1. \A q \in Rooms : Content(q)' = Content(q)
    BY <1>6 DEF Compact, Content
  <2>2. \A q \in Rooms, k \in Keys : cold'[q][k] = cold[q][k] \/ cold'[q][k] = NoRec
    BY <1>6 DEF Compact, Live
  <2> QED
    BY <1>6, <2>1, <2>2 DEF Compact, ClockCovers
<1>7. CASE TimePasses \/ UNCHANGED vars
  <2>1. UNCHANGED <<state, ram, snap, cold, tomb, clock>>
    BY <1>7 DEF TimePasses, vars, places
  <2> QED
    BY <2>1 DEF ClockCovers, Content
<1> QED
  BY <1>1, <1>2, <1>3, <1>4, <1>5, <1>6, <1>7, RoomStepKinds, CommandCovers DEF Next

(* In every behaviour, whatever faults occur, no record and no tombstone   *)
(* carries a version above the clock: Clock::next and observe() are called *)
(* wherever a version enters the node.                                     *)
THEOREM ClockCoversHolds == Spec => []ClockCovers
<1>1. Init => ClockCovers
  BY DEF Init, ClockCovers, Content, Empty
<1> QED
  BY <1>1, TypeInit, TypeStep, ClockStep, PTL DEF Spec

-----------------------------------------------------------------------------
(* One place per key.                                                      *)

Placed == RamXorCold /\ TombXorRecord

(* If the handler leaves each key in one place, so does eviction.          *)
LEMMA SettlePlaces ==
  ASSUME TypeOK, Placed,
         NEW r \in Rooms, NEW d \in Dict, NEW c \in Dict, Settle(r, d, c),
         \A k \in Keys : d[k] = NoRec \/ c[k] = NoRec,
         \A k \in Keys : tomb'[r][k] # NoRec => d[k] = NoRec /\ c[k] = NoRec,
         \A q \in Rooms \ {r} : tomb'[q] = tomb[q]
  PROVE  Placed'
<1> SUFFICES ASSUME NEW q \in Rooms, NEW k \in Keys
             PROVE  /\ Content(q)[k]' = NoRec \/ cold'[q][k] = NoRec
                    /\ tomb'[q][k] # NoRec => /\ Content(q)[k]' = NoRec
                                              /\ cold'[q][k] = NoRec
  BY DEF Placed, RamXorCold, TombXorRecord
<1>1. CASE q = r
  <2>1. Content(r)' = ram'[r]
    BY SettleKey DEF Content
  <2>2. \/ ram'[r][k] = d[k] /\ cold'[r][k] = c[k]
        \/ ram'[r][k] = NoRec /\ cold'[r][k] = d[k] /\ d[k] # NoRec
    BY SettleKey, Zenon
  <2> QED
    BY <1>1, <2>1, <2>2, Zenon
<1>2. CASE q # r
  <2>1. /\ Content(q)[k]' = Content(q)[k]
        /\ cold'[q][k] = cold[q][k]
        /\ tomb'[q][k] = tomb[q][k]
    BY <1>2, SettleKey DEF Content
  <2> QED
    BY <2>1 DEF Placed, RamXorCold, TombXorRecord
<1> QED
  BY <1>1, <1>2

(* Without read errors lookup() leaves a key it looks up in RAM or nowhere.*)
LEMMA LookupPlaces ==
  ASSUME TypeOK, Placed, "cold_read" \notin Faults,
         NEW r \in Rooms, NEW K \in SUBSET Keys, NEW bad \in BadReads(r, K),
         NEW k \in Keys
  PROVE  /\ k \in K => ColdAfterLookup(r, K, bad)[k] = NoRec
         /\ k \notin K => ColdAfterLookup(r, K, bad)[k] = cold[r][k]
         /\ k \notin K => RamAfterLookup(r, K, bad)[k] = Content(r)[k]
         /\ k \in K => RamAfterLookup(r, K, bad)[k] = Found(r, k, bad)
         /\ tomb[r][k] # NoRec => Found(r, k, bad) = NoRec
<1>1. bad = {}
  BY DEF BadReads
<1>2. k \in K => ColdAfterLookup(r, K, bad)[k] = NoRec
  BY <1>1 DEF ColdAfterLookup, Placed, RamXorCold
<1>3. k \notin K => ColdAfterLookup(r, K, bad)[k] = cold[r][k]
  BY DEF ColdAfterLookup
<1>4. /\ k \notin K => RamAfterLookup(r, K, bad)[k] = Content(r)[k]
      /\ k \in K => RamAfterLookup(r, K, bad)[k] = Found(r, k, bad)
  BY DEF RamAfterLookup
<1>5. tomb[r][k] # NoRec => Found(r, k, bad) = NoRec
  BY DEF Placed, TombXorRecord, Found, Live
<1> QED
  BY <1>2, <1>3, <1>4, <1>5

(* No command leaves a key in two places.                                  *)
LEMMA CommandPlaces ==
  ASSUME TypeOK, Placed, "cold_read" \notin Faults,
         NEW r \in Rooms, CommandEffect(r)
  PROVE  Placed'
<1>0. \A k \in Keys : /\ Content(r)[k] = NoRec \/ cold[r][k] = NoRec
                      /\ tomb[r][k] # NoRec => /\ Content(r)[k] = NoRec
                                               /\ cold[r][k] = NoRec
  BY DEF Placed, RamXorCold, TombXorRecord
<1>1. CASE ReadEffect(r)
  <2>1. PICK K \in SUBSET Keys :
          \E bad \in BadReads(r, K), d \in Dict, c \in Dict :
            /\ Settle(r, d, c)
            /\ d = RamAfterLookup(r, K, bad)
            /\ c = ColdAfterLookup(r, K, bad)
            /\ tomb' = tomb
    BY <1>1, ReadResult
  <2>2. PICK bad \in BadReads(r, K), d \in Dict, c \in Dict :
            /\ Settle(r, d, c)
            /\ d = RamAfterLookup(r, K, bad)
            /\ c = ColdAfterLookup(r, K, bad)
            /\ tomb' = tomb
    BY <2>1
  <2>3. \A k \in Keys : /\ d[k] = NoRec \/ c[k] = NoRec
                        /\ tomb'[r][k] # NoRec => d[k] = NoRec /\ c[k] = NoRec
    BY <1>0, <2>2, LookupPlaces
  <2> QED
    BY <2>2, <2>3, SettlePlaces
<1>2. CASE WriteEffect(r)
  <2>1. PICK K \in SUBSET Keys :
          \E bad \in BadReads(r, K), w \in [K -> Record] : Install(r, w, bad)
    BY <1>2 DEF WriteEffect
  <2>2. PICK bad \in BadReads(r, K), w \in [K -> Record] : Install(r, w, bad)
    BY <2>1, Zenon
  <2>3. PICK d \in Dict, c \in Dict :
          /\ Settle(r, d, c)
          /\ \A k \in K : d[k] = w[k]
          /\ \A k \in Keys \ K : d[k] = Content(r)[k]
          /\ c = ColdAfterLookup(r, K, bad)
    BY <2>2, WriteResult, Zenon
  <2>4. /\ \A q \in Rooms \ {r} : tomb'[q] = tomb[q]
        /\ \A k \in Keys : tomb'[r][k] = IF k \in K /\ Found(r, k, bad) = NoRec
                                           THEN NoRec ELSE tomb[r][k]
    BY <2>2, WriteTombs
  <2>5. \A k \in Keys : /\ d[k] = NoRec \/ c[k] = NoRec
                        /\ tomb'[r][k] # NoRec => d[k] = NoRec /\ c[k] = NoRec
    <3> SUFFICES ASSUME NEW k \in Keys
                 PROVE  /\ d[k] = NoRec \/ c[k] = NoRec
                        /\ tomb'[r][k] # NoRec => d[k] = NoRec /\ c[k] = NoRec
      OBVIOUS
    <3>1. /\ k \in K => c[k] = NoRec
          /\ k \notin K => c[k] = cold[r][k]
          /\ tomb[r][k] # NoRec => Found(r, k, bad) = NoRec
      <4>1. k \in K => ColdAfterLookup(r, K, bad)[k] = NoRec
        BY LookupPlaces, Zenon
      <4>2. k \notin K => ColdAfterLookup(r, K, bad)[k] = cold[r][k]
        BY Zenon DEF ColdAfterLookup
      <4>3. tomb[r][k] # NoRec => Found(r, k, bad) = NoRec
        BY LookupPlaces, Zenon
      <4> QED
        BY <2>3, <4>1, <4>2, <4>3, Zenon
    <3> QED
      BY <1>0, <2>3, <2>4, <3>1, Zenon
  <2> QED
    BY <2>3, <2>4, <2>5, SettlePlaces
<1>3. CASE DeleteEffect(r)
  <2>1. PICK k \in Keys :
          \E bad \in BadReads(r, {k}), v \in Version : Erase(r, k, v, bad)
    BY <1>3 DEF DeleteEffect
  <2>2. PICK bad \in BadReads(r, {k}), v \in Version : Erase(r, k, v, bad)
    BY <2>1, Zenon
  <2>3. PICK d \in Dict, c \in Dict :
          /\ Settle(r, d, c)
          /\ d[k] = NoRec
          /\ \A j \in Keys \ {k} : d[j] = Content(r)[j]
          /\ c = ColdAfterLookup(r, {k}, bad)
    BY <2>2, DeleteResult, Zenon
  <2>4. /\ \A q \in Rooms \ {r} : tomb'[q] = tomb[q]
        /\ \A j \in Keys \ {k} : tomb'[r][j] = tomb[r][j]
    BY <2>2, DeleteTombs, Zenon
  <2>5. \A j \in Keys : /\ j = k => c[j] = NoRec
                        /\ j # k => c[j] = cold[r][j]
    <3>1. {k} \in SUBSET Keys /\ \A j \in Keys : j \in {k} <=> j = k
      BY Zenon
    <3>2. ASSUME NEW j \in Keys
          PROVE  /\ j \in {k} => ColdAfterLookup(r, {k}, bad)[j] = NoRec
                 /\ j \notin {k} => ColdAfterLookup(r, {k}, bad)[j] = cold[r][j]
      BY <2>2, <3>1, LookupPlaces, Zenon
    <3> QED
      BY <2>3, <3>1, <3>2, Zenon
  <2>6. \A j \in Keys : /\ d[j] = NoRec \/ c[j] = NoRec
                        /\ tomb'[r][j] # NoRec => d[j] = NoRec /\ c[j] = NoRec
    <3> SUFFICES ASSUME NEW j \in Keys
                 PROVE  /\ d[j] = NoRec \/ c[j] = NoRec
                        /\ tomb'[r][j] # NoRec => d[j] = NoRec /\ c[j] = NoRec
      OBVIOUS
    <3>1. CASE j = k
      BY <2>3, <2>5, <3>1
    <3>2. CASE j # k
      <4>1. d[j] = Content(r)[j] /\ c[j] = cold[r][j] /\ tomb'[r][j] = tomb[r][j]
        BY <2>3, <2>4, <2>5, <3>2, Zenon
      <4> QED
        BY <1>0, <4>1
    <3> QED
      BY <3>1, <3>2
  <2> QED
    BY <2>3, <2>4, <2>6, SettlePlaces, Zenon
<1> QED
  BY <1>1, <1>2, <1>3 DEF CommandEffect

(* No step leaves a key in two places.                                     *)
LEMMA PlacedStep ==
  ASSUME "cold_read" \notin Faults
  PROVE  TypeOK /\ Placed /\ [Next]_vars => Placed'
<1> SUFFICES ASSUME TypeOK, Placed, [Next]_vars PROVE Placed'
  OBVIOUS
<1>1. ASSUME NEW r \in Rooms, Wake(r) \/ Hibernate(r) PROVE Placed'
  <2>1. \A q \in Rooms : Content(q)' = Content(q)
    BY <1>1 DEF Wake, Hibernate, Content, TypeOK
  <2>2. UNCHANGED <<cold, tomb>>
    BY <1>1 DEF Wake, Hibernate
  <2> QED
    BY <2>1, <2>2 DEF Placed, RamXorCold, TombXorRecord
<1>2. ASSUME NEW r \in Rooms, WakeUnreadable(r) PROVE Placed'
  <2>1. \A q \in Rooms : Content(q)' = Content(q) \/ Content(q)' = Empty
    BY <1>2 DEF WakeUnreadable, Content, TypeOK
  <2>2. UNCHANGED <<cold, tomb>>
    BY <1>2 DEF WakeUnreadable
  <2> QED
    BY <2>1, <2>2 DEF Placed, RamXorCold, TombXorRecord, Empty
<1>3. ASSUME NEW r \in Rooms, CleanExpired(r) PROVE Placed'
  <2>1. \A q \in Rooms, k \in Keys :
          Content(q)[k]' = Content(q)[k] \/ Content(q)[k]' = NoRec
    BY <1>3 DEF CleanExpired, Content, Live, TypeOK
  <2>2. UNCHANGED <<cold, tomb>>
    BY <1>3 DEF CleanExpired
  <2> QED
    BY <2>1, <2>2 DEF Placed, RamXorCold, TombXorRecord
<1>4. ASSUME NEW w \in 1..MaxTs, ReplFrontier(w) PROVE Placed'
  <2>1. \A q \in Rooms : Content(q)' = Content(q)
    BY <1>4 DEF ReplFrontier, places, Content
  <2>2. cold' = cold
    BY <1>4 DEF ReplFrontier, places
  <2>3. \A q \in Rooms, k \in Keys : tomb'[q][k] = tomb[q][k] \/ tomb'[q][k] = NoRec
    BY <1>4 DEF ReplFrontier
  <2> QED
    BY <2>1, <2>2, <2>3 DEF Placed, RamXorCold, TombXorRecord
<1>5. CASE Compact
  <2>1. \A q \in Rooms : Content(q)' = Content(q)
    BY <1>5 DEF Compact, Content
  <2>2. \A q \in Rooms, k \in Keys : cold'[q][k] = cold[q][k] \/ cold'[q][k] = NoRec
    BY <1>5 DEF Compact, Live
  <2> QED
    BY <1>5, <2>1, <2>2 DEF Compact, Placed, RamXorCold, TombXorRecord
<1>6. CASE TimePasses \/ UNCHANGED vars
  <2>1. UNCHANGED <<state, ram, snap, cold, tomb>>
    BY <1>6 DEF TimePasses, vars, places
  <2> QED
    BY <2>1 DEF Placed, RamXorCold, TombXorRecord, Content
<1> QED
  BY <1>1, <1>2, <1>3, <1>4, <1>5, <1>6, RoomStepKinds, CommandPlaces DEF Next

(* The initial state has no keys.                                          *)
LEMMA PlacedInit == Init => Placed
BY DEF Init, Placed, RamXorCold, TombXorRecord, Content, Empty

(* Unless cold storage cannot be read, a key is never both in RAM (or in   *)
(* the snapshot its room will load) and in the index of cold storage.      *)
THEOREM RamXorColdHolds ==
  ASSUME "cold_read" \notin Faults
  PROVE  Spec => []RamXorCold
<1>1. Placed => RamXorCold
  BY DEF Placed
<1> QED
  BY <1>1, TypeInit, TypeStep, PlacedInit, PlacedStep, PTL DEF Spec

(* Unless cold storage cannot be read, a key with a tombstone has no       *)
(* record in any of the three places.                                      *)
THEOREM TombXorRecordHolds ==
  ASSUME "cold_read" \notin Faults
  PROVE  Spec => []TombXorRecord
<1>1. Placed => TombXorRecord
  BY DEF Placed
<1> QED
  BY <1>1, TypeInit, TypeStep, PlacedInit, PlacedStep, PTL DEF Spec

-----------------------------------------------------------------------------
(* KeySpace implements KvStore.                                            *)

(* What a client sees of a room after a command that leaves d and c.       *)
LEMMA SettleVisible ==
  ASSUME TypeOK, now' = now,
         NEW r \in Rooms, NEW d \in Dict, NEW c \in Dict, Settle(r, d, c),
         \A k \in Keys : d[k] = NoRec \/ c[k] = NoRec
  PROVE  /\ \A k \in Keys : Visible'[r][k] = IF d[k] # NoRec THEN Live(d[k])
                                             ELSE Live(c[k])
         /\ \A q \in Rooms \ {r} : Visible'[q] = Visible[q]
<1>1. \A k \in Keys : Visible'[r][k] = IF d[k] # NoRec THEN Live(d[k])
                                       ELSE Live(c[k])
  <2> SUFFICES ASSUME NEW k \in Keys
               PROVE  Found(r, k, {})' = IF d[k] # NoRec THEN Live(d[k])
                                         ELSE Live(c[k])
    BY DEF Visible
  <2>1. Content(r)' = ram'[r]
    BY SettleKey DEF Content
  <2>2. \/ ram'[r][k] = d[k] /\ cold'[r][k] = c[k]
        \/ ram'[r][k] = NoRec /\ cold'[r][k] = d[k] /\ d[k] # NoRec
    BY SettleKey
  <2>3. Live(NoRec) = NoRec
    BY DEF Live
  <2> QED
    BY <2>1, <2>2, <2>3 DEF Found, Live, Expired
<1>2. \A q \in Rooms \ {r} : Visible'[q] = Visible[q]
  <2> SUFFICES ASSUME NEW q \in Rooms \ {r}, NEW k \in Keys
               PROVE  Found(q, k, {})' = Found(q, k, {})
    BY DEF Visible
  <2>1. Content(q)' = Content(q) /\ cold'[q] = cold[q]
    BY SettleKey, Zenon DEF Content
  <2> QED
    BY <2>1 DEF Found, Live, Expired
<1> QED
  BY <1>1, <1>2

(* What a client sees of a key no command touches, or that a lookup moves. *)
LEMMA VisibleNow ==
  ASSUME TypeOK, NEW r \in Rooms, NEW k \in Keys
  PROVE  /\ Visible[r][k] = IF Content(r)[k] # NoRec THEN Live(Content(r)[k])
                            ELSE Live(cold[r][k])
         /\ Visible[r][k] = Found(r, k, {})
         /\ Live(Visible[r][k]) = Visible[r][k]
         /\ Visible[r][k] \in Record \cup {NoRec}
<1>1. Visible[r][k] = Found(r, k, {})
  BY DEF Visible
<1>2. Found(r, k, {}) \in Record \cup {NoRec}
  BY LookupTypes
<1> QED
  BY <1>1, <1>2 DEF Found, Live

(* A read changes nothing a client can see.                                *)
LEMMA ReadRefines ==
  ASSUME TypeOK, Placed, "cold_read" \notin Faults, now' = now,
         NEW r \in Rooms, ReadEffect(r)
  PROVE  Visible' = Visible
<1>1. PICK K \in SUBSET Keys :
        \E bad \in BadReads(r, K), d \in Dict, c \in Dict :
          /\ Settle(r, d, c)
          /\ d = RamAfterLookup(r, K, bad)
          /\ c = ColdAfterLookup(r, K, bad)
          /\ tomb' = tomb
  BY ReadResult
<1>2. PICK bad \in BadReads(r, K), d \in Dict, c \in Dict :
          /\ Settle(r, d, c)
          /\ d = RamAfterLookup(r, K, bad)
          /\ c = ColdAfterLookup(r, K, bad)
  BY <1>1
<1>3. bad = {}
  BY Zenon DEF BadReads
<1>4. \A k \in Keys : /\ k \in K => c[k] = NoRec /\ d[k] = Found(r, k, {})
                      /\ k \notin K => c[k] = cold[r][k] /\ d[k] = Content(r)[k]
  <2>1. ASSUME NEW k \in Keys
        PROVE  /\ k \in K => c[k] = NoRec /\ d[k] = Found(r, k, {})
               /\ k \notin K => c[k] = cold[r][k] /\ d[k] = Content(r)[k]
    <3>1. /\ k \in K => ColdAfterLookup(r, K, bad)[k] = NoRec
          /\ k \notin K => ColdAfterLookup(r, K, bad)[k] = cold[r][k]
          /\ k \notin K => RamAfterLookup(r, K, bad)[k] = Content(r)[k]
          /\ k \in K => RamAfterLookup(r, K, bad)[k] = Found(r, k, bad)
      BY <1>2, LookupPlaces, Zenon
    <3> QED
      BY <1>2, <1>3, <3>1, Zenon
  <2> QED
    BY <2>1, Zenon
<1>5. \A k \in Keys : d[k] = NoRec \/ c[k] = NoRec
  BY <1>4, Zenon DEF Placed, RamXorCold
<1>6. /\ \A k \in Keys : Visible'[r][k] = IF d[k] # NoRec THEN Live(d[k])
                                          ELSE Live(c[k])
      /\ \A q \in Rooms \ {r} : Visible'[q] = Visible[q]
  BY <1>2, <1>5, SettleVisible, Zenon
<1>7. \A k \in Keys : Visible'[r][k] = Visible[r][k]
  <2> SUFFICES ASSUME NEW k \in Keys PROVE Visible'[r][k] = Visible[r][k]
    BY Zenon
  <2>0. /\ Visible'[r][k] = IF d[k] # NoRec THEN Live(d[k]) ELSE Live(c[k])
        /\ Visible[r][k] = IF Content(r)[k] # NoRec THEN Live(Content(r)[k])
                           ELSE Live(cold[r][k])
        /\ Visible[r][k] = Found(r, k, {})
        /\ Live(Visible[r][k]) = Visible[r][k]
    BY <1>6, VisibleNow, Zenon
  <2>1. CASE k \in K
    <3>1. Live(NoRec) = NoRec
      BY Zenon DEF Live
    <3> QED
      BY <1>4, <2>1, <2>0, <3>1, Zenon
  <2>2. CASE k \notin K
    BY <1>4, <2>0, <2>2, Zenon
  <2> QED
    BY <2>1, <2>2, Zenon
<1> QED
  BY <1>6, <1>7 DEF Visible

(* What a command does to a client's view of its room: the keys of K get   *)
(* the records of d, or disappear if d has none; the others stay.          *)
LEMMA ChangeVisible ==
  ASSUME TypeOK, Placed, "cold_read" \notin Faults, now' = now,
         NEW r \in Rooms, NEW K \in SUBSET Keys, NEW bad \in BadReads(r, K),
         NEW d \in Dict, NEW c \in Dict,
         Settle(r, d, c),
         \A k \in Keys \ K : d[k] = Content(r)[k],
         c = ColdAfterLookup(r, K, bad)
  PROVE  /\ \A k \in K : Visible'[r][k] = Live(d[k])
         /\ \A k \in Keys \ K : Visible'[r][k] = Visible[r][k]
         /\ \A q \in Rooms \ {r} : Visible'[q] = Visible[q]
<1>2. \A k \in Keys : /\ k \in K => c[k] = NoRec
                      /\ k \notin K => c[k] = cold[r][k]
  BY LookupPlaces, Zenon
<1>3. \A k \in Keys : d[k] = NoRec \/ c[k] = NoRec
  BY <1>2 DEF Placed, RamXorCold
<1>4. /\ \A k \in Keys : Visible'[r][k] = IF d[k] # NoRec THEN Live(d[k])
                                          ELSE Live(c[k])
      /\ \A q \in Rooms \ {r} : Visible'[q] = Visible[q]
  BY <1>3, SettleVisible
<1>5. Live(NoRec) = NoRec
  BY DEF Live
<1>6. \A k \in K : Visible'[r][k] = Live(d[k])
  BY <1>2, <1>4, <1>5, Zenon
<1>7. \A k \in Keys \ K : Visible'[r][k] = Visible[r][k]
  <2>1. ASSUME NEW k \in Keys \ K PROVE Visible'[r][k] = Visible[r][k]
    <3>1. d[k] = Content(r)[k] /\ c[k] = cold[r][k]
      BY <1>2, Zenon
    <3>2. Visible[r][k] = IF Content(r)[k] # NoRec THEN Live(Content(r)[k]) ELSE Live(cold[r][k])
      BY VisibleNow, Zenon
    <3> QED
      BY <1>4, <3>1, <3>2, Zenon
  <2> QED
    BY <2>1, Zenon
<1> QED
  BY <1>4, <1>6, <1>7

(* What a client sees after a write of the records w.                      *)
LEMMA InstallVisible ==
  ASSUME TypeOK, Placed, "cold_read" \notin Faults, now' = now,
         NEW r \in Rooms, NEW K \in SUBSET Keys, NEW bad \in BadReads(r, K),
         NEW w \in [K -> Record], Install(r, w, bad)
  PROVE  /\ \A k \in K : Visible'[r][k] = Live(w[k])
         /\ \A k \in Keys \ K : Visible'[r][k] = Visible[r][k]
         /\ \A q \in Rooms \ {r} : Visible'[q] = Visible[q]
<1>1. PICK d \in Dict, c \in Dict :
        /\ Settle(r, d, c)
        /\ \A k \in K : d[k] = w[k]
        /\ \A k \in Keys \ K : d[k] = Content(r)[k]
        /\ c = ColdAfterLookup(r, K, bad)
  BY WriteResult, Zenon
<1>2. /\ \A k \in K : Visible'[r][k] = Live(d[k])
      /\ \A k \in Keys \ K : Visible'[r][k] = Visible[r][k]
      /\ \A q \in Rooms \ {r} : Visible'[q] = Visible[q]
  BY <1>1, ChangeVisible, Zenon
<1> QED
  BY <1>1, <1>2, Zenon

(* What a client sees after a delete.                                      *)
LEMMA EraseVisible ==
  ASSUME TypeOK, Placed, "cold_read" \notin Faults, now' = now,
         NEW r \in Rooms, NEW k \in Keys, NEW bad \in BadReads(r, {k}),
         NEW v \in Version, Erase(r, k, v, bad)
  PROVE  /\ Visible'[r][k] = NoRec
         /\ \A j \in Keys \ {k} : Visible'[r][j] = Visible[r][j]
         /\ \A q \in Rooms \ {r} : Visible'[q] = Visible[q]
<1>1. PICK d \in Dict, c \in Dict :
        /\ Settle(r, d, c)
        /\ d[k] = NoRec
        /\ \A j \in Keys \ {k} : d[j] = Content(r)[j]
        /\ c = ColdAfterLookup(r, {k}, bad)
  BY DeleteResult, Zenon
<1> DEFINE K == {k}
<1>2. /\ K \in SUBSET Keys /\ bad \in BadReads(r, K) /\ Settle(r, d, c)
      /\ c = ColdAfterLookup(r, K, bad)
      /\ \A j \in Keys \ K : d[j] = Content(r)[j]
  BY <1>1, Zenon
<1> HIDE DEF K
<1>3. /\ \A j \in K : Visible'[r][j] = Live(d[j])
      /\ \A j \in Keys \ K : Visible'[r][j] = Visible[r][j]
      /\ \A q \in Rooms \ {r} : Visible'[q] = Visible[q]
  BY <1>2, ChangeVisible, Zenon
<1>4. /\ \A j \in {k} : Visible'[r][j] = Live(d[j])
      /\ \A j \in Keys \ {k} : Visible'[r][j] = Visible[r][j]
      /\ \A q \in Rooms \ {r} : Visible'[q] = Visible[q]
  BY <1>3, Zenon DEF K
<1>5. Visible'[r][k] = NoRec
  BY <1>1, <1>4, Zenon DEF Live
<1> QED
  BY <1>4, <1>5

(* Functions of two arguments are equal when they agree everywhere.        *)
LEMMA PointwiseEqual ==
  ASSUME NEW S, NEW T, NEW U, NEW f \in [S -> [T -> U]], NEW g \in [S -> [T -> U]],
         \A s \in S, t \in T : f[s][t] = g[s][t]
  PROVE  f = g
<1>1. \A s \in S : f[s] = g[s]
  OBVIOUS
<1> QED
  BY <1>1

(* A step that removes one key from a client's view, or changes nothing,   *)
(* is a step of the store.                                                 *)
LEMMA RemovalRefines ==
  ASSUME TypeOK, now' = now, NEW r \in Rooms, NEW k \in Keys,
         Visible'[r][k] = NoRec,
         \A j \in Keys \ {k} : Visible'[r][j] = Visible[r][j],
         \A q \in Rooms \ {r} : Visible'[q] = Visible[q]
  PROVE  [KV!Next]_(KV!vars)
<1>1. CASE Visible[r][k] = NoRec
  <2>1. Visible' = Visible
    <3>1. \A q \in Rooms, j \in Keys : Visible'[q][j] = Visible[q][j]
      BY <1>1
    <3> QED
      BY <3>1 DEF Visible
  <2> QED
    BY <2>1 DEF KV!vars
<1>2. CASE Visible[r][k] # NoRec
  <2>1. Visible' = [Visible EXCEPT ![r][k] = NoRec]
    <3>1. \A q \in Rooms, j \in Keys :
            Visible'[q][j] = IF q = r /\ j = k THEN NoRec ELSE Visible[q][j]
      OBVIOUS
    <3>2. Visible \in [Rooms -> [Keys -> Record \cup {NoRec}]]
      BY LookupTypes DEF Visible
    <3>3. \A q \in Rooms : Visible'[q] = [j \in Keys |-> Visible'[q][j]]
      BY DEF Visible
    <3>4. Visible' = [q \in Rooms |-> Visible'[q]]
      BY DEF Visible
    <3>5. \A q \in Rooms : Visible'[q] \in [Keys -> Record \cup {NoRec}]
      <4>1. \A q \in Rooms, j \in Keys : Visible[q][j] \in Record \cup {NoRec}
        BY <3>2
      <4>2. \A q \in Rooms, j \in Keys : Visible'[q][j] \in Record \cup {NoRec}
        BY <3>1, <4>1
      <4> QED
        BY <3>3, <4>2, Zenon
    <3>6. Visible' \in [Rooms -> [Keys -> Record \cup {NoRec}]]
      BY <3>4, <3>5
    <3> DEFINE g == [Visible EXCEPT ![r][k] = NoRec]
    <3>7. g \in [Rooms -> [Keys -> Record \cup {NoRec}]]
      BY <3>2
    <3>8. \A q \in Rooms, j \in Keys : Visible'[q][j] = g[q][j]
      BY <3>1, <3>2
    <3> HIDE DEF g
    <3>9. Visible' = g
      BY <3>6, <3>7, <3>8, PointwiseEqual
    <3> QED
      BY <3>9 DEF g
  <2>2. KV!Delete(r, k)
    BY <1>2, <2>1 DEF KV!Delete
  <2> QED
    BY <2>2 DEF KV!Next
<1> QED
  BY <1>1, <1>2

(* A local write or an accepted merge installs newer versions in a         *)
(* client's view; a merge whose deadline has passed removes the key.       *)
LEMMA WriteRefines ==
  ASSUME TypeOK, Placed, "cold_read" \notin Faults, now' = now,
         NEW r \in Rooms, WriteEffect(r)
  PROVE  [KV!Next]_(KV!vars)
<1>1. PICK K \in SUBSET Keys :
        \E bad \in BadReads(r, K), w \in [K -> Record] :
          /\ Install(r, w, bad)
          /\ \A k \in K : Found(r, k, bad) # NoRec => Newer(w[k], Found(r, k, bad))
          /\ \A j, k \in K : w[j].ts = w[k].ts /\ w[j].node = w[k].node
          /\ \A j, k \in K : j # k => w[j].exp = 0
  BY DEF WriteEffect
<1>2. PICK bad \in BadReads(r, K), w \in [K -> Record] :
          /\ Install(r, w, bad)
          /\ \A k \in K : Found(r, k, bad) # NoRec => Newer(w[k], Found(r, k, bad))
          /\ \A j, k \in K : w[j].ts = w[k].ts /\ w[j].node = w[k].node
          /\ \A j, k \in K : j # k => w[j].exp = 0
  BY <1>1, Zenon
<1>3. bad = {}
  BY Zenon DEF BadReads
<1>4. /\ \A k \in K : Visible'[r][k] = Live(w[k])
      /\ \A k \in Keys \ K : Visible'[r][k] = Visible[r][k]
      /\ \A q \in Rooms \ {r} : Visible'[q] = Visible[q]
  <2>1. Install(r, w, bad)
    BY <1>2, Zenon
  <2> QED
    BY <2>1, InstallVisible, Zenon
<1>5. CASE \E k \in K : Expired(w[k], now)
  <2>1. PICK k \in K : Expired(w[k], now)
    BY <1>5
  <2>2. w[k].exp # 0
    BY <2>1 DEF Expired
  <2>3. K = {k}
    BY <1>2, <2>2, Zenon
  <2>4. Visible'[r][k] = NoRec
    BY <1>4, <2>1 DEF Live
  <2> QED
    BY <1>4, <2>3, <2>4, RemovalRefines
<1>6. CASE \A k \in K : ~Expired(w[k], now)
  <2>1. \A k \in K : w[k] \in Record /\ w[k] # NoRec
    BY NoRecAssumption, Zenon
  <2>2. \A k \in K : Visible'[r][k] = w[k]
    BY <1>4, <1>6, <2>1, Zenon DEF Live
  <2>3. \A k \in K : Visible[r][k] # NoRec => KV!Newer(Visible'[r][k], Visible[r][k])
    <3> SUFFICES ASSUME NEW k \in K, Visible[r][k] # NoRec
                 PROVE  KV!Newer(Visible'[r][k], Visible[r][k])
      BY Zenon
    <3>1. Found(r, k, bad) = Visible[r][k]
      BY <1>3, VisibleNow, Zenon
    <3>2. Newer(w[k], Visible[r][k])
      BY <1>2, <3>1, Zenon
    <3>3. Visible'[r][k] = w[k]
      BY <2>2
    <3> QED
      BY <3>2, <3>3 DEF Newer, KV!Newer
  <2>4. \A j, k \in K : /\ Visible'[r][j].ts = Visible'[r][k].ts
                        /\ Visible'[r][j].node = Visible'[r][k].node
    BY <1>2, <2>2, Zenon
  <2>5. Visible' \in [Rooms -> [Keys -> KV!Record \cup {NoRec}]]
    <3>1. \A q \in Rooms, j \in Keys : Visible[q][j] \in Record \cup {NoRec}
      BY VisibleNow
    <3>2. \A q \in Rooms, j \in Keys : Visible'[q][j] \in Record \cup {NoRec}
      BY <1>4, <2>1, <2>2, <3>1
    <3>3. \A q \in Rooms : Visible'[q] = [j \in Keys |-> Visible'[q][j]]
      BY DEF Visible
    <3>4. Visible' = [q \in Rooms |-> Visible'[q]]
      BY DEF Visible
    <3>5. KV!Record = Record
      BY DEF Record, KV!Record
    <3>6. \A q \in Rooms : Visible'[q] \in [Keys -> Record \cup {NoRec}]
      BY <3>2, <3>3, Zenon
    <3> QED
      BY <3>4, <3>5, <3>6
  <2>6. KV!Write(r, K)
    BY <1>4, <2>1, <2>2, <2>3, <2>4, <2>5, Zenon DEF KV!Write
  <2> QED
    BY <2>6 DEF KV!Next
<1> QED
  BY <1>5, <1>6

(* A delete removes its key from a client's view.                          *)
LEMMA DeleteRefines ==
  ASSUME TypeOK, Placed, "cold_read" \notin Faults, now' = now,
         NEW r \in Rooms, DeleteEffect(r)
  PROVE  [KV!Next]_(KV!vars)
<1>1. PICK k \in Keys :
        \E bad \in BadReads(r, {k}), v \in Version : Erase(r, k, v, bad)
  BY DEF DeleteEffect
<1>2. PICK bad \in BadReads(r, {k}), v \in Version : Erase(r, k, v, bad)
  BY <1>1
<1> QED
  BY <1>2, EraseVisible, RemovalRefines

(* The steps that move records and rooms.                                  *)
Quiet ==
  \/ \E r \in Rooms : Wake(r) \/ Hibernate(r) \/ CleanExpired(r)
  \/ \E w \in 1..MaxTs : ReplFrontier(w)
  \/ Compact
  \/ UNCHANGED vars

(* They change nothing a client can see.                                   *)
LEMMA QuietVisible ==
  ASSUME TypeOK, Placed, Quiet
  PROVE  Visible' = Visible /\ now' = now
<1>1. ASSUME NEW r \in Rooms, Wake(r) \/ Hibernate(r) PROVE Visible' = Visible /\ now' = now
  <2>1. \A q \in Rooms : Content(q)' = Content(q)
    BY <1>1 DEF Wake, Hibernate, Content, TypeOK
  <2>2. UNCHANGED <<cold, now>>
    BY <1>1 DEF Wake, Hibernate
  <2>3. \A q \in Rooms, k \in Keys : Found(q, k, {})' = Found(q, k, {})
    BY <2>1, <2>2 DEF Found, Live
  <2> QED
    BY <2>2, <2>3 DEF Visible
<1>2. ASSUME NEW r \in Rooms, CleanExpired(r) PROVE Visible' = Visible /\ now' = now
  <2>1. \A q \in Rooms, k \in Keys :
          Content(q)[k]' = Content(q)[k] \/ Content(q)[k]' = Live(Content(q)[k])
    BY <1>2 DEF CleanExpired, Content, TypeOK
  <2>2. UNCHANGED <<cold, now>>
    BY <1>2 DEF CleanExpired
  <2>3. \A q \in Rooms, k \in Keys : Found(q, k, {})' = Found(q, k, {})
    BY <2>1, <2>2, Zenon DEF Found, Live, Placed, RamXorCold
  <2> QED
    BY <2>2, <2>3 DEF Visible
<1>3. ASSUME NEW w \in 1..MaxTs, ReplFrontier(w) PROVE Visible' = Visible /\ now' = now
  <2>1. UNCHANGED <<state, ram, snap, cold, now>>
    BY <1>3 DEF ReplFrontier, places
  <2>2. \A q \in Rooms, k \in Keys : Found(q, k, {})' = Found(q, k, {})
    BY <2>1, Zenon DEF Found, Live, Content
  <2> QED
    BY <2>1, <2>2 DEF Visible
<1>4. ASSUME Compact PROVE Visible' = Visible /\ now' = now
  <2>1. UNCHANGED <<state, ram, snap, now>>
    BY <1>4 DEF Compact
  <2>2. \A q \in Rooms : Content(q)' = Content(q)
    BY <2>1 DEF Content
  <2>3. \A q \in Rooms, k \in Keys : cold'[q][k] = Live(cold[q][k])
    BY <1>4 DEF Compact
  <2>4. \A q \in Rooms, k \in Keys : Found(q, k, {})' = Found(q, k, {})
    BY <2>1, <2>2, <2>3 DEF Found, Live
  <2> QED
    BY <2>1, <2>4 DEF Visible
<1>5. ASSUME UNCHANGED vars PROVE Visible' = Visible /\ now' = now
  <2>1. \A q \in Rooms, k \in Keys : Found(q, k, {})' = Found(q, k, {})
    BY <1>5 DEF vars, Found, Live, Content
  <2> QED
    BY <1>5, <2>1, Zenon DEF Visible, vars
<1> QED
  BY <1>1, <1>2, <1>3, <1>4, <1>5 DEF Quiet

(* Without read errors every step is a step of the store or changes        *)
(* nothing a client can see.                                               *)
LEMMA StepRefines ==
  ASSUME Faults \subseteq {"cold_write"}
  PROVE  TypeOK /\ Placed /\ [Next]_vars => [KV!Next]_(KV!vars)
<1> SUFFICES ASSUME TypeOK, Placed, [Next]_vars PROVE [KV!Next]_(KV!vars)
  OBVIOUS
<1>0. "cold_read" \notin Faults /\ "snapshot_read" \notin Faults
  OBVIOUS
<1>1. ASSUME NEW r \in Rooms, CommandEffect(r) PROVE [KV!Next]_(KV!vars)
  <2>1. now' = now
    BY <1>1 DEF CommandEffect
  <2>2. CASE ReadEffect(r)
    BY <1>0, <2>1, <2>2, ReadRefines DEF KV!vars
  <2>3. CASE WriteEffect(r)
    BY <1>0, <2>1, <2>3, WriteRefines
  <2>4. CASE DeleteEffect(r)
    BY <1>0, <2>1, <2>4, DeleteRefines
  <2> QED
    BY <1>1, <2>2, <2>3, <2>4 DEF CommandEffect
<1>2. ASSUME Quiet PROVE [KV!Next]_(KV!vars)
  BY <1>2, QuietVisible DEF KV!vars
<1>3. CASE TimePasses
  <2>1. UNCHANGED <<state, ram, snap, cold>>
    BY <1>3 DEF TimePasses, places
  <2>2. now' \in Nat /\ now' > now /\ now \in Nat
    BY <1>3 DEF TimePasses, TypeOK
  <2>3. \A q \in Rooms, k \in Keys :
          Visible'[q][k] = IF Visible[q][k] # NoRec /\ KV!Expired(Visible[q][k], now')
                             THEN NoRec ELSE Visible[q][k]
    <3> SUFFICES ASSUME NEW q \in Rooms, NEW k \in Keys
                 PROVE  Found(q, k, {})' =
                          IF Found(q, k, {}) # NoRec /\ Expired(Found(q, k, {}), now')
                            THEN NoRec ELSE Found(q, k, {})
      BY DEF Visible, Expired, KV!Expired
    <3> DEFINE x == IF Content(q)[k] # NoRec THEN Content(q)[k] ELSE cold[q][k]
    <3>1. x \in Record \cup {NoRec}
      BY LookupTypes, Zenon DEF TypeOK, Dict
    <3>2. /\ Found(q, k, {}) = IF x # NoRec /\ ~Expired(x, now) THEN x ELSE NoRec
          /\ Found(q, k, {})' = IF x # NoRec /\ ~Expired(x, now') THEN x ELSE NoRec
      BY <2>1, Zenon DEF Found, Live, Content, Expired
    <3> HIDE DEF x
    <3>3. x # NoRec /\ Expired(x, now) => Expired(x, now')
      BY <2>2, <3>1 DEF Expired, Record
    <3> QED
      BY <3>2, <3>3
  <2>4. Visible' = [q \in Rooms |-> [k \in Keys |->
                      IF Visible[q][k] # NoRec /\ KV!Expired(Visible[q][k], now')
                        THEN NoRec ELSE Visible[q][k]]]
    <3>1. Visible' = [q \in Rooms |-> [k \in Keys |-> Visible'[q][k]]]
      BY DEF Visible
    <3> QED
      BY <2>3, <3>1
  <2>5. KV!Advance
    BY <2>2, <2>4, Zenon DEF KV!Advance
  <2> QED
    BY <2>5 DEF KV!Next
<1> QED
  <2>1. \A r \in Rooms : ~WakeUnreadable(r)
    BY <1>0 DEF WakeUnreadable
  <2> QED
    BY <1>1, <1>2, <1>3, <2>1, RoomStepKinds, Zenon DEF Next, Quiet

(* The server starts as an empty store.                                    *)
LEMMA InitRefines == Init => KV!Init
BY DEF Init, KV!Init, Visible, Found, Live, Content, Empty

(* As long as snapshots and cold storage can be read, the server with its  *)
(* three places for a record implements the store of KvStore, whatever the *)
(* limits and even if evictions fail to write.                             *)
THEOREM ImplementsStoreHolds ==
  ASSUME Faults \subseteq {"cold_write"}
  PROVE  Spec => ImplementsStore
<1>1. "cold_read" \notin Faults
  OBVIOUS
<1> QED
  BY <1>1, TypeInit, TypeStep, PlacedInit, PlacedStep, InitRefines, StepRefines, PTL
     DEF Spec, ImplementsStore, KV!Spec

-----------------------------------------------------------------------------
(* What KvStore cannot express: which command made a key change.           *)

(* A record without a deadline, or before it, can be seen.                 *)
LEMMA FreshIsLive ==
  ASSUME TypeOK, NEW x \in Record, x.exp = 0 \/ x.exp > now
  PROVE  Live(x) # NoRec
<1>1. ~Expired(x, now)
  BY DEF Expired, TypeOK, Record
<1> QED
  BY <1>1, NoRecAssumption, Zenon DEF Live

(* A step of a room changes what a client sees of a key only as a command  *)
(* that names the key.                                                     *)
LEMMA RoomStepKeeps ==
  ASSUME Faults \subseteq {"cold_write"}, TypeOK, Placed,
         NEW q \in Rooms, RoomStep(q), NEW r \in Rooms, NEW k \in Keys,
         Visible'[r][k] # Visible[r][k]
  PROVE  \/ Visible'[r][k] # NoRec /\ Writes(r, k)
         \/ Visible'[r][k] = NoRec /\ Removes(r, k)
<1>0. "cold_read" \notin Faults /\ "snapshot_read" \notin Faults
  OBVIOUS
<1>1. /\ \A exp \in Deadlines : exp \in Nat
      /\ \A v \in Versions : v \in Version
  BY LimitsAssumption DEF Deadlines, Versions, Version
<1>2. ASSUME NEW K \in SUBSET Keys, Read(q, K) PROVE FALSE
  <2>1. ReadEffect(q) /\ now' = now
    BY <1>2, Zenon DEF Read, ReadEffect
  <2> QED
    BY <1>0, <2>1, ReadRefines, Zenon
<1>3. ASSUME NEW j \in Keys, NEW v \in Values, NEW exp \in Deadlines, Set(q, j, v, exp)
      PROVE  Visible'[r][k] # NoRec /\ Writes(r, k)
  <2>1. now' = now /\ exp \in Nat /\ (exp = 0 \/ exp > now)
    BY <1>1, <1>3, Zenon DEF Set, WriteLocal
  <2>2. PICK bad \in BadReads(q, {j}), w \in [{j} -> Record] :
          Install(q, w, bad) /\ \A i \in {j} : w[i].exp = exp
    <3> DEFINE K == {j}
    <3>1. K \in SUBSET Keys /\ WriteLocal(q, K, v, exp) /\ \A i, h \in K : i = h
      BY <1>3, Zenon DEF Set
    <3> HIDE DEF K
    <3>2. \E bad \in BadReads(q, K), w \in [K -> Record] :
            Install(q, w, bad) /\ \A i \in K : w[i].exp = exp
      BY <2>1, <3>1, WriteLocalEffect
    <3> QED
      BY <3>2 DEF K
  <2>3. /\ Visible'[q][j] = Live(w[j])
        /\ \A i \in Keys \ {j} : Visible'[q][i] = Visible[q][i]
        /\ \A p \in Rooms \ {q} : Visible'[p] = Visible[p]
    <3>1. {j} \in SUBSET Keys /\ j \in {j}
      BY Zenon
    <3>2. now' = now
      BY <2>1, Zenon
    <3> QED
      BY <1>0, <2>2, <3>1, <3>2, InstallVisible, Zenon
  <2>4. r = q /\ k = j
    BY <2>3, Zenon
  <2>5. Visible'[r][k] # NoRec
    <3>1. w[j] \in Record /\ w[j].exp = exp
      BY <2>2, Zenon
    <3> QED
      BY <2>1, <2>3, <2>4, <3>1, FreshIsLive, Zenon
  <2> QED
    BY <1>3, <2>4, <2>5, Zenon DEF Writes
<1>4. ASSUME NEW K \in SUBSET Keys, NEW v \in Values, MSet(q, K, v)
      PROVE  Visible'[r][k] # NoRec /\ Writes(r, k)
  <2>1. now' = now
    BY <1>4, Zenon DEF MSet, WriteLocal
  <2>2. PICK bad \in BadReads(q, K), w \in [K -> Record] :
          Install(q, w, bad) /\ \A i \in K : w[i].exp = 0
    BY <1>4, MSetEffect, Zenon
  <2>3. /\ \A i \in K : Visible'[q][i] = Live(w[i])
        /\ \A i \in Keys \ K : Visible'[q][i] = Visible[q][i]
        /\ \A p \in Rooms \ {q} : Visible'[p] = Visible[p]
    <3>1. now' = now
      BY <2>1, Zenon
    <3> QED
      BY <1>0, <2>2, <3>1, InstallVisible, Zenon
  <2>4. r = q /\ k \in K
    BY <2>3, Zenon
  <2>5. Visible'[r][k] # NoRec
    <3>1. w[k] \in Record /\ w[k].exp = 0
      BY <2>2, <2>4
    <3> QED
      BY <2>3, <2>4, <3>1, FreshIsLive, Zenon
  <2> QED
    BY <1>4, <2>4, <2>5, Zenon DEF Writes
<1>5. ASSUME NEW j \in Keys, NEW exp \in Deadlines, Expire(q, j, exp)
      PROVE  Visible'[r][k] # NoRec /\ Writes(r, k)
  <2>1. now' = now /\ exp \in Nat /\ (exp = 0 \/ exp > now)
    BY <1>1, <1>5, Zenon DEF Expire
  <2>2. PICK bad \in BadReads(q, {j}), w \in [{j} -> Record] :
          Install(q, w, bad) /\ w[j].exp = exp
    BY <1>5, <2>1, ExpireEffect, Zenon
  <2>3. /\ Visible'[q][j] = Live(w[j])
        /\ \A i \in Keys \ {j} : Visible'[q][i] = Visible[q][i]
        /\ \A p \in Rooms \ {q} : Visible'[p] = Visible[p]
    <3>1. {j} \in SUBSET Keys /\ j \in {j}
      BY Zenon
    <3>2. now' = now
      BY <2>1, Zenon
    <3> QED
      BY <1>0, <2>2, <3>1, <3>2, InstallVisible, Zenon
  <2>4. r = q /\ k = j
    BY <2>3
  <2>5. Visible'[r][k] # NoRec
    <3>1. w[j] \in Record /\ w[j].exp = exp
      BY <2>2, Zenon
    <3> QED
      BY <2>1, <2>3, <2>4, <3>1, FreshIsLive, Zenon
  <2> QED
    BY <1>5, <2>4, <2>5 DEF Writes
<1>6. ASSUME NEW j \in Keys, NEW val \in Values, NEW v \in Versions,
             NEW exp \in Deadlines \cup {KeepDeadline}, CrdtMerge(q, j, val, v, exp)
      PROVE  Merges(r, k)
  <2>1. now' = now /\ exp \in Nat \cup {KeepDeadline} /\ v \in Version
    BY <1>1, <1>6, Zenon DEF CrdtMerge
  <2>2. PICK bad \in BadReads(q, {j}), w \in [{j} -> Record] : Install(q, w, bad)
    BY <1>6, <2>1, MergeEffect, Zenon
  <2>3. /\ \A i \in Keys \ {j} : Visible'[q][i] = Visible[q][i]
        /\ \A p \in Rooms \ {q} : Visible'[p] = Visible[p]
    <3>1. now' = now
      BY <2>1, Zenon
    <3> QED
      BY <1>0, <2>2, <3>1, InstallVisible, Zenon
  <2>4. r = q /\ k = j
    BY <2>3
  <2> QED
    BY <1>6, <2>4, Zenon DEF Merges
<1>7. ASSUME NEW j \in Keys, NEW v \in Version, CrdtIgnored(q, j, v) PROVE FALSE
  <2>1. ReadEffect(q) /\ now' = now
    BY <1>7, Zenon DEF CrdtIgnored, ReadEffect
  <2> QED
    BY <1>0, <2>1, ReadRefines
<1>8. ASSUME NEW j \in Keys, now' = now,
             \E bad \in BadReads(q, {j}), v \in Version : Erase(q, j, v, bad)
      PROVE  r = q /\ k = j /\ Visible'[r][k] = NoRec
  BY <1>0, <1>8, EraseVisible, Zenon
<1>9. ASSUME NEW j \in Keys, Del(q, j) PROVE Visible'[r][k] = NoRec /\ Removes(r, k)
  <2>1. now' = now
    BY <1>9 DEF Del
  <2> QED
    BY <1>8, <1>9, <2>1, DelEffect, Zenon DEF Removes
<1>10. ASSUME NEW j \in Keys, NEW v \in Versions, CrdtDel(q, j, v)
       PROVE  Visible'[r][k] = NoRec /\ Removes(r, k)
  <2>1. now' = now /\ \E bad \in BadReads(q, {j}) : Erase(q, j, v, bad)
    BY <1>10, Zenon DEF CrdtDel
  <2> QED
    BY <1>1, <1>8, <1>10, <2>1, Zenon DEF Removes
<1>11. ASSUME Wake(q) \/ Hibernate(q) \/ CleanExpired(q) PROVE FALSE
  BY <1>11, QuietVisible DEF Quiet
<1>12. ~WakeUnreadable(q)
  BY <1>0, Zenon DEF WakeUnreadable
<1>13. Merges(r, k) => Writes(r, k) /\ Removes(r, k)
  BY DEF Writes, Removes
<1> QED
  BY <1>1, <1>2, <1>3, <1>4, <1>5, <1>6, <1>7, <1>9, <1>10, <1>11, <1>12, <1>13, Zenon
     DEF RoomStep

(* Moving records between RAM, cold storage and snapshots, waking and      *)
(* putting rooms to sleep, sweeping and compacting lose and change nothing *)
(* a client can see, as long as what was written can be read again.        *)
THEOREM NothingLostHolds ==
  ASSUME Faults \subseteq {"cold_write"}
  PROVE  Spec => NothingLost
<1>1. "cold_read" \notin Faults
  OBVIOUS
<1>2. TypeOK /\ Placed /\ [Next]_vars =>
        [\A r \in Rooms, k \in Keys :
           Visible'[r][k] # Visible[r][k] =>
             \/ TimePasses
             \/ Visible'[r][k] # NoRec /\ Writes(r, k)
             \/ Visible'[r][k] = NoRec /\ Removes(r, k)]_vars
  <2> SUFFICES ASSUME TypeOK, Placed, Next, NEW r \in Rooms, NEW k \in Keys,
                      Visible'[r][k] # Visible[r][k], ~TimePasses
               PROVE  \/ Visible'[r][k] # NoRec /\ Writes(r, k)
                      \/ Visible'[r][k] = NoRec /\ Removes(r, k)
    OBVIOUS
  <2>1. ~Quiet
    BY QuietVisible, Zenon
  <2>2. PICK q \in Rooms : RoomStep(q)
    BY <2>1 DEF Next, Quiet
  <2> QED
    BY <2>2, RoomStepKeeps
<1> QED
  BY <1>1, <1>2, TypeInit, TypeStep, PlacedInit, PlacedStep, PTL
     DEF Spec, NothingLost

-----------------------------------------------------------------------------
(* The limits of a server with finitely many rooms and keys.               *)

FiniteServer == IsFiniteSet(Rooms) /\ IsFiniteSet(Keys)

(* the cells of a memory m that hold a record, in all rooms and in all but *)
(* one                                                                     *)
Occupied(m) == {p \in Rooms \X Keys : m[p[1]][p[2]] # NoRec}
OccupiedBut(m, r) == {p \in (Rooms \ {r}) \X Keys : m[p[1]][p[2]] # NoRec}

(* The records of a room and those of the others make up the memory.       *)
LEMMA ResidentParts ==
  ASSUME FiniteServer, NEW r \in Rooms, NEW m
  PROVE  /\ Cardinality(Held(m[r])) \in Nat /\ Cardinality(OccupiedBut(m, r)) \in Nat
         /\ Cardinality(Occupied(m)) = Cardinality(Held(m[r])) + Cardinality(OccupiedBut(m, r))
<1> DEFINE A == {r} \X Held(m[r])
           B == OccupiedBut(m, r)
<1>1. IsFiniteSet(Held(m[r])) /\ Cardinality(Held(m[r])) \in Nat
  <2>1. Held(m[r]) \in SUBSET Keys
    BY Zenon DEF Held
  <2> QED
    BY <2>1, FS_Subset, FS_CardinalityType, Zenon DEF FiniteServer
<1>2. IsFiniteSet(B) /\ Cardinality(B) \in Nat
  <2>1. IsFiniteSet(Rooms \X Keys)
    BY FS_Product, Zenon DEF FiniteServer
  <2>2. B \in SUBSET (Rooms \X Keys)
    BY DEF OccupiedBut
  <2> QED
    BY <2>1, <2>2, FS_Subset, FS_CardinalityType, Zenon
<1>3. IsFiniteSet(A) /\ Cardinality(A) = Cardinality(Held(m[r]))
  <2>1. IsFiniteSet({r}) /\ Cardinality({r}) = 1
    BY FS_Singleton, Zenon
  <2>2. IsFiniteSet(A) /\ Cardinality(A) = Cardinality({r}) * Cardinality(Held(m[r]))
    BY <1>1, <2>1, FS_Product, Zenon
  <2>3. \A n \in Nat : 1 * n = n
    OBVIOUS
  <2> QED
    BY <1>1, <2>1, <2>2, <2>3, Zenon
<1>4. Occupied(m) = A \cup B
  BY DEF Occupied, OccupiedBut, Held
<1>5. A \cap B = {}
  BY DEF OccupiedBut
<1> HIDE DEF A, B
<1>6. Cardinality(A \cup B) = Cardinality(A) + Cardinality(B) - Cardinality(A \cap B)
  BY <1>2, <1>3, FS_Union, Zenon
<1>7. Cardinality({}) = 0
  BY FS_EmptySet, Zenon
<1>8. Cardinality(Occupied(m)) = Cardinality(Held(m[r])) + Cardinality(B) - 0
  BY <1>3, <1>4, <1>5, <1>6, <1>7, Zenon
<1>9. \A a, b \in Nat : a + b - 0 = a + b
  OBVIOUS
<1> QED
  BY <1>1, <1>2, <1>8, <1>9, Zenon DEF B

(* Memory that holds no more cells holds no more records.                  *)
LEMMA OccupiedShrinks ==
  ASSUME FiniteServer, NEW m, NEW w, \A r \in Rooms, k \in Keys : w[r][k] # NoRec => m[r][k] # NoRec
  PROVE  /\ Cardinality(Occupied(w)) <= Cardinality(Occupied(m))
         /\ Cardinality(Occupied(w)) \in Nat /\ Cardinality(Occupied(m)) \in Nat
         /\ \A r \in Rooms : Cardinality(Held(w[r])) <= Cardinality(Held(m[r]))
<1>1. IsFiniteSet(Rooms \X Keys)
  BY FS_Product, Zenon DEF FiniteServer
<1>2. Occupied(m) \in SUBSET (Rooms \X Keys) /\ Occupied(w) \in SUBSET (Rooms \X Keys)
  BY Zenon DEF Occupied
<1>3. IsFiniteSet(Occupied(m)) /\ IsFiniteSet(Occupied(w))
  BY <1>1, <1>2, FS_Subset, Zenon
<1>4. Occupied(w) \in SUBSET Occupied(m)
  BY DEF Occupied
<1>5. ASSUME NEW r \in Rooms PROVE Cardinality(Held(w[r])) <= Cardinality(Held(m[r]))
  <2>1. Held(m[r]) \in SUBSET Keys /\ Held(w[r]) \in SUBSET Held(m[r])
    BY Zenon DEF Held
  <2>2. IsFiniteSet(Held(m[r]))
    BY <2>1, FS_Subset, Zenon DEF FiniteServer
  <2> QED
    BY <2>1, <2>2, FS_Subset, Zenon
<1> QED
  BY <1>3, <1>4, <1>5, FS_Subset, FS_CardinalityType, Zenon

(* What evict_despised_keys() takes out of RAM is enough for both limits,  *)
(* unless the other rooms alone are over the budget.                       *)
LEMMA ExcessIsEnough ==
  ASSUME NEW h \in Nat, NEW o \in Nat, NEW x,
         x = Max({0, h - MaxKeys} \cup
                 (IF MaxMemory = 0 THEN {} ELSE {Min({h, (h + o) - MaxMemory})}))
  PROVE  /\ x \in Nat /\ h - x <= MaxKeys
         /\ MaxMemory # 0 => x >= h \/ h - x + o <= MaxMemory
<1> DEFINE a == Min({h, (h + o) - MaxMemory})
           S == {0, h - MaxKeys} \cup (IF MaxMemory = 0 THEN {} ELSE {a})
<1>1. MaxKeys \in Nat /\ MaxMemory \in Nat
  BY LimitsAssumption
<1>2. a \in {h, (h + o) - MaxMemory}
  <2>1. \E y \in {h, (h + o) - MaxMemory} : \A z \in {h, (h + o) - MaxMemory} : y <= z
    BY <1>1
  <2> QED
    BY <2>1 DEF Min
<1>3. a \in Int /\ (a = h \/ a = (h + o) - MaxMemory)
  BY <1>1, <1>2
<1> HIDE DEF a
<1>4. \E y \in S : \A z \in S : y >= z
  <2>1. CASE MaxMemory = 0
    BY <1>1, <2>1
  <2>2. CASE MaxMemory # 0
    BY <1>1, <1>3, <2>2
  <2> QED
    BY <2>1, <2>2
<1>5. x = Max(S)
  BY DEF a
<1>6. x \in S /\ \A z \in S : x >= z
  <2> HIDE DEF S
  <2> QED
    BY <1>4, <1>5, Zenon DEF Max
<1>7. x \in Int /\ x >= 0 /\ x >= h - MaxKeys /\ (MaxMemory # 0 => x >= a)
  <2>1. 0 \in S /\ h - MaxKeys \in S /\ (MaxMemory # 0 => a \in S)
    OBVIOUS
  <2>2. \A z \in S : z = 0 \/ z = h - MaxKeys \/ z = a
    OBVIOUS
  <2> HIDE DEF S
  <2>3. 0 \in Int /\ h - MaxKeys \in Int
    BY <1>1
  <2>4. x \in Int
    BY <1>3, <1>6, <2>2, <2>3, Zenon
  <2> QED
    BY <1>6, <2>1, <2>4, Zenon
<1> QED
  BY <1>1, <1>3, <1>7

(* The inductive invariant: the snapshot a room will load also keeps the   *)
(* limit on keys.                                                          *)
LInv ==
  /\ \A r \in Rooms : /\ Cardinality(Held(ram[r])) <= MaxKeys
                      /\ Cardinality(Held(snap[r])) <= MaxKeys
  /\ MaxMemory # 0 => Cardinality(Occupied(ram)) <= MaxMemory
  /\ Cardinality(ActiveRooms) <= MaxActive

(* Waking a room within its guard keeps the limit on active rooms.         *)
LEMMA ActiveGrows ==
  ASSUME FiniteServer, TypeOK, NEW r \in Rooms, Cardinality(ActiveRooms) <= MaxActive,
         state[r] = "Active" \/ Cardinality(ActiveRooms) < MaxActive,
         \A q \in Rooms \ {r} : state'[q] = state[q]
  PROVE  Cardinality(ActiveRooms') <= MaxActive
<1>1. ActiveRooms \in SUBSET Rooms /\ ActiveRooms' \in SUBSET (ActiveRooms \cup {r})
  BY DEF ActiveRooms
<1>2. IsFiniteSet(ActiveRooms) /\ Cardinality(ActiveRooms) \in Nat
  BY <1>1, FS_Subset, FS_CardinalityType, Zenon DEF FiniteServer
<1>3. /\ IsFiniteSet(ActiveRooms \cup {r})
      /\ Cardinality(ActiveRooms \cup {r}) =
           IF r \in ActiveRooms THEN Cardinality(ActiveRooms) ELSE Cardinality(ActiveRooms) + 1
  BY <1>2, FS_AddElement, Zenon
<1>4. /\ Cardinality(ActiveRooms') <= Cardinality(ActiveRooms \cup {r})
      /\ Cardinality(ActiveRooms') \in Nat /\ Cardinality(ActiveRooms \cup {r}) \in Nat
  <2>1. IsFiniteSet(ActiveRooms') /\ Cardinality(ActiveRooms') <= Cardinality(ActiveRooms \cup {r})
    BY <1>1, <1>3, FS_Subset, Zenon
  <2> QED
    BY <1>3, <2>1, FS_CardinalityType, Zenon
<1>5. r \in ActiveRooms <=> state[r] = "Active"
  BY DEF ActiveRooms
<1>6. \A a, b, c, d \in Nat : a <= b /\ (b = c \/ (b = c + 1 /\ c < d)) /\ c <= d => a <= d
  OBVIOUS
<1>7. MaxActive \in Nat
  BY LimitsAssumption
<1> QED
  BY <1>2, <1>3, <1>4, <1>5, <1>6, <1>7, Zenon

(* A command ends within the limits: eviction follows whatever it did.     *)
LEMMA SettleLimits ==
  ASSUME FiniteServer, "cold_write" \notin Faults, TypeOK, LInv, NEW r \in Rooms, CanActivate(r),
         NEW d \in Dict, NEW c \in Dict, Settle(r, d, c)
  PROVE  LInv'
<1>1. PICK V \in Victims(r, d) :
        ram' = [ram EXCEPT ![r] = [k \in Keys |-> IF k \in V THEN NoRec ELSE d[k]]]
  BY Zenon DEF Settle
<1>2. V \in SUBSET Held(d) /\ Cardinality(V) = Excess(r, d)
  BY <1>1, Zenon DEF Victims
<1>3. /\ state' = [state EXCEPT ![r] = "Active"] /\ snap' = snap
      /\ ram \in [Rooms -> Dict] /\ state \in [Rooms -> {"Sleeping", "Active"}]
  BY Zenon DEF Settle, TypeOK
<1>4. /\ \A q \in Rooms \ {r} : ram'[q] = ram[q] /\ state'[q] = state[q]
      /\ Held(ram'[r]) = Held(d) \ V
  BY <1>1, <1>3 DEF Held
<1> DEFINE h == Cardinality(Held(d))
           o == Cardinality(OccupiedBut(ram, r))
           x == Excess(r, d)
<1>5. h \in Nat /\ IsFiniteSet(Held(d))
  <2>1. Held(d) \in SUBSET Keys
    BY Zenon DEF Held
  <2> QED
    BY <2>1, FS_Subset, FS_CardinalityType, Zenon DEF FiniteServer
<1>6. /\ o \in Nat /\ Cardinality(Held(ram[r])) \in Nat
      /\ Cardinality(Occupied(ram)) = Cardinality(Held(ram[r])) + o
  BY ResidentParts, Zenon
<1>7. /\ Cardinality(Held(ram'[r])) \in Nat
      /\ Cardinality(Occupied(ram')) = Cardinality(Held(ram'[r])) + o
  <2>1. OccupiedBut(ram', r) = OccupiedBut(ram, r)
    BY <1>4 DEF OccupiedBut
  <2>2. /\ Cardinality(Held(ram'[r])) \in Nat
        /\ Cardinality(Occupied(ram')) = Cardinality(Held(ram'[r])) + Cardinality(OccupiedBut(ram', r))
    BY ResidentParts, Zenon
  <2> QED
    BY <2>1, <2>2, Zenon
<1>8. Cardinality(Held(ram'[r])) = h - x
  <2>1. Held(d) \cap V = V
    BY <1>2
  <2>2. Cardinality(Held(d) \ V) = Cardinality(Held(d)) - Cardinality(Held(d) \cap V)
    BY <1>5, FS_Difference, Zenon
  <2> QED
    BY <1>2, <1>4, <2>1, <2>2, Zenon
<1>9. x \in Nat /\ h - x <= MaxKeys /\ (MaxMemory # 0 => x >= h \/ h - x + o <= MaxMemory)
  <2>1. x = Max({0, h - MaxKeys} \cup (IF MaxMemory = 0 THEN {} ELSE {Min({h, (h + o) - MaxMemory})}))
    BY DEF Excess, ResidentWith, OccupiedBut
  <2> HIDE DEF h, o, x
  <2> QED
    BY <1>5, <1>6, <2>1, ExcessIsEnough, Zenon
<1> HIDE DEF h, o, x
<1>10. MaxMemory # 0 => Cardinality(Occupied(ram')) <= MaxMemory
  <2>1. \A a, b, e, f, M \in Nat : /\ a = b - e /\ f + o <= M /\ (e >= b \/ b - e + o <= M)
                                    => a + o <= M
    BY <1>6
  <2>2. MaxMemory # 0 => Cardinality(Held(ram[r])) + o <= MaxMemory
    BY <1>6, Zenon DEF LInv
  <2>3. MaxMemory \in Nat
    BY LimitsAssumption
  <2> QED
    BY <1>5, <1>6, <1>7, <1>8, <1>9, <2>1, <2>2, <2>3, Zenon
<1>11. \A q \in Rooms : /\ Cardinality(Held(ram'[q])) <= MaxKeys
                        /\ Cardinality(Held(snap'[q])) <= MaxKeys
  BY <1>3, <1>4, <1>8, <1>9, Zenon DEF LInv
<1>12. Cardinality(ActiveRooms') <= MaxActive
  <2>1. state[r] = "Active" \/ Cardinality(ActiveRooms) < MaxActive
    BY Zenon DEF CanActivate
  <2> QED
    BY <1>4, <2>1, ActiveGrows, Zenon DEF LInv
<1> QED
  BY <1>10, <1>11, <1>12, Zenon DEF LInv

(* Steps that free memory and put no other room to work keep the limits.   *)
LEMMA FreeingLimits ==
  ASSUME FiniteServer, TypeOK, LInv,
         \A r \in Rooms, k \in Keys : ram'[r][k] # NoRec => ram[r][k] # NoRec,
         \A r \in Rooms : snap'[r] = snap[r] \/ snap'[r] = ram[r],
         Cardinality(ActiveRooms') <= MaxActive
  PROVE  LInv'
<1>1. /\ Cardinality(Occupied(ram')) <= Cardinality(Occupied(ram))
      /\ Cardinality(Occupied(ram')) \in Nat /\ Cardinality(Occupied(ram)) \in Nat
      /\ \A r \in Rooms : Cardinality(Held(ram'[r])) <= Cardinality(Held(ram[r]))
  BY OccupiedShrinks, Zenon
<1>2. \A r \in Rooms : Cardinality(Held(ram'[r])) \in Nat /\ Cardinality(Held(ram[r])) \in Nat
  BY ResidentParts, Zenon
<1>3. \A a, b, c \in Nat : a <= b /\ b <= c => a <= c
  OBVIOUS
<1>4. MaxKeys \in Nat /\ MaxMemory \in Nat
  BY LimitsAssumption
<1>5. \A r \in Rooms : Cardinality(Held(ram'[r])) <= MaxKeys
  BY <1>1, <1>2, <1>3, <1>4, Zenon DEF LInv
<1>6. \A r \in Rooms : Cardinality(Held(snap'[r])) <= MaxKeys
  BY Zenon DEF LInv
<1>7. MaxMemory # 0 => Cardinality(Occupied(ram')) <= MaxMemory
  BY <1>1, <1>3, <1>4, Zenon DEF LInv
<1> QED
  BY <1>5, <1>6, <1>7, Zenon DEF LInv

(* activate() reads a snapshot only when its keys fit in memory.           *)
LEMMA WakeLimits ==
  ASSUME FiniteServer, TypeOK, LInv, NEW r \in Rooms, Wake(r)
  PROVE  LInv'
<1>1. /\ state[r] # "Active" /\ Cardinality(ActiveRooms) < MaxActive
      /\ Fits(ResidentWith(r, snap[r]))
  BY Zenon DEF Wake, CanActivate
<1>2. /\ ram'[r] = snap[r] /\ snap' = snap
      /\ \A q \in Rooms \ {r} : ram'[q] = ram[q] /\ state'[q] = state[q]
  BY Zenon DEF Wake, TypeOK
<1>3. OccupiedBut(ram', r) = OccupiedBut(ram, r)
  BY <1>2 DEF OccupiedBut
<1>4. Cardinality(Occupied(ram')) =
        Cardinality(Held(snap[r])) + Cardinality(OccupiedBut(ram, r))
  <2>1. Cardinality(Occupied(ram')) =
          Cardinality(Held(ram'[r])) + Cardinality(OccupiedBut(ram', r))
    BY ResidentParts, Zenon
  <2> QED
    BY <1>2, <1>3, <2>1, Zenon
<1>5. MaxMemory # 0 => Cardinality(Occupied(ram')) <= MaxMemory
  BY <1>1, <1>4, Zenon DEF Fits, ResidentWith, OccupiedBut
<1>6. Cardinality(ActiveRooms') <= MaxActive
  BY <1>1, <1>2, ActiveGrows, Zenon DEF LInv
<1>7. \A q \in Rooms : /\ Cardinality(Held(ram'[q])) <= MaxKeys
                       /\ Cardinality(Held(snap'[q])) <= MaxKeys
  BY <1>2, Zenon DEF LInv
<1> QED
  BY <1>5, <1>6, <1>7, Zenon DEF LInv

(* execute_in_room() activates the room before it runs the handler.        *)
LEMMA CommandsActivate ==
  ASSUME TypeOK, NEW r \in Rooms, RoomStep(r)
  PROVE  \/ CanActivate(r) /\ CommandEffect(r)
         \/ Wake(r) \/ WakeUnreadable(r) \/ Hibernate(r) \/ CleanExpired(r)
<1>1. CanActivate(r) \/ Wake(r) \/ WakeUnreadable(r) \/ Hibernate(r) \/ CleanExpired(r)
  BY Zenon DEF RoomStep, Read, Set, MSet, WriteLocal, Expire, Del, CrdtMerge, CrdtDel, CrdtIgnored
<1> QED
  BY <1>1, RoomStepKinds, Zenon

(* The limits hold at the start.                                           *)
LEMMA LInvInit == ASSUME FiniteServer, Init PROVE LInv
<1>1. \A r \in Rooms : Held(ram[r]) = {} /\ Held(snap[r]) = {}
  BY DEF Init, Held, Empty
<1>2. Occupied(ram) = {} /\ ActiveRooms = {}
  BY DEF Init, Occupied, Empty, ActiveRooms
<1>3. Cardinality({}) = 0
  BY FS_EmptySet, Zenon
<1>4. 0 <= MaxKeys /\ 0 <= MaxMemory /\ 0 <= MaxActive
  BY LimitsAssumption
<1> QED
  BY <1>1, <1>2, <1>3, <1>4, Zenon DEF LInv

(* Every step keeps the limits while evicted records can be written.       *)
LEMMA LInvStep ==
  ASSUME FiniteServer, "cold_write" \notin Faults, TypeOK, LInv, [Next]_vars
  PROVE  LInv'
<1>1. ASSUME NEW r \in Rooms, CanActivate(r), CommandEffect(r) PROVE LInv'
  <2>1. PICK d \in Dict, c \in Dict : Settle(r, d, c)
    BY <1>1, CommandTypes, Zenon
  <2> QED
    BY <1>1, <2>1, SettleLimits, Zenon
<1>2. ASSUME NEW r \in Rooms, WakeUnreadable(r) PROVE LInv'
  <2>1. /\ ram' = ram /\ snap' = snap
        /\ \A q \in Rooms \ {r} : state'[q] = state[q]
    BY <1>2, Zenon DEF WakeUnreadable, TypeOK
  <2>2. Cardinality(ActiveRooms') <= MaxActive
    BY <1>2, <2>1, ActiveGrows, Zenon DEF LInv, WakeUnreadable
  <2> QED
    BY <2>1, <2>2, FreeingLimits, Zenon
<1>3. ASSUME NEW r \in Rooms, Hibernate(r) PROVE LInv'
  <2>1. /\ \A q \in Rooms, k \in Keys : ram'[q][k] # NoRec => ram[q][k] # NoRec
        /\ \A q \in Rooms : snap'[q] = snap[q] \/ snap'[q] = ram[q]
    BY <1>3 DEF Hibernate, TypeOK, Empty
  <2>2. /\ state[r] = "Active"
        /\ \A q \in Rooms \ {r} : state'[q] = state[q]
    BY <1>3, Zenon DEF Hibernate, TypeOK
  <2>3. Cardinality(ActiveRooms') <= MaxActive
    BY <2>2, ActiveGrows, Zenon DEF LInv
  <2> QED
    BY <2>1, <2>3, FreeingLimits, Zenon
<1>4. ASSUME ram' = ram, snap' = snap, state' = state PROVE LInv'
  <2>1. ActiveRooms' = ActiveRooms
    BY <1>4, Zenon DEF ActiveRooms
  <2> QED
    BY <1>4, <2>1, FreeingLimits, Zenon DEF LInv
<1>5. ASSUME NEW r \in Rooms, CleanExpired(r) PROVE LInv'
  <2>1. /\ \A q \in Rooms, k \in Keys : ram'[q][k] # NoRec => ram[q][k] # NoRec
        /\ snap' = snap /\ state' = state
    BY <1>5 DEF CleanExpired, TypeOK, Live
  <2>2. ActiveRooms' = ActiveRooms
    BY <2>1, Zenon DEF ActiveRooms
  <2> QED
    BY <2>1, <2>2, FreeingLimits, Zenon DEF LInv
<1>6. ASSUME NEW w \in 1..MaxTs, ReplFrontier(w) PROVE LInv'
  BY <1>4, <1>6, Zenon DEF ReplFrontier, places
<1>7. CASE Compact
  BY <1>4, <1>7, Zenon DEF Compact
<1>8. CASE TimePasses
  BY <1>4, <1>8, Zenon DEF TimePasses, places
<1>9. CASE UNCHANGED vars
  BY <1>4, <1>9, Zenon DEF vars, places
<1>10. ASSUME NEW r \in Rooms, RoomStep(r) PROVE LInv'
  BY <1>1, <1>2, <1>3, <1>5, <1>10, CommandsActivate, WakeLimits, Zenon
<1> QED
  BY <1>6, <1>7, <1>8, <1>9, <1>10, Zenon DEF Next

(* Between commands no room holds more keys than max_keys, resident memory *)
(* is within maxmemory and no more rooms are active than allowed, however  *)
(* many rooms, keys and limits there are, whatever wakes, merges and       *)
(* unreadable snapshots do, as long as evict_despised_keys() can write.    *)
THEOREM WithinLimitsHolds ==
  ASSUME FiniteServer, "cold_write" \notin Faults
  PROVE  Spec => []WithinLimits
<1>1. ASSUME TypeOK, LInv PROVE WithinLimits
  <2>1. Default \in Rooms
    BY RoomsAssumption
  <2>2. Cardinality(Occupied(ram)) =
          Cardinality(Held(ram[Default])) + Cardinality(OccupiedBut(ram, Default))
    BY <2>1, ResidentParts, Zenon
  <2>3. Fits(ResidentWith(Default, ram[Default]))
    BY <1>1, <2>2, Zenon DEF Fits, ResidentWith, OccupiedBut, LInv
  <2> QED
    BY <1>1, <2>3, Zenon DEF WithinLimits, LInv
<1>2. Init => TypeOK /\ LInv
  BY TypeInit, LInvInit, Zenon
<1>3. TypeOK /\ LInv /\ [Next]_vars => TypeOK' /\ LInv'
  BY TypeStep, LInvStep, Zenon
<1> QED
  BY <1>1, <1>2, <1>3, PTL DEF Spec
=============================================================================
