------------------------------ MODULE KvStore ------------------------------
(***************************************************************************)
(* What a client may rely on, whatever the server does with RAM, snapshots *)
(* and cold storage: a dictionary per room of versioned values, changed    *)
(* only by write commands, each of which installs or removes a version     *)
(* newer than the one it replaces, and by the passing of deadlines.        *)
(***************************************************************************)
EXTENDS Naturals

CONSTANTS
  Rooms, Keys, Values, Nodes,
  NoRec          \* the key is absent

Record == [val : Values, exp : Nat, ts : Nat, node : Nodes]

VARIABLES
  db,            \* db[r][k]: the record of key k in room r, or NoRec
  now            \* the wall clock

vars == <<db, now>>

Expired(x, t) == x.exp > 0 /\ t > x.exp

(* versions are ordered by time stamp, then by node                        *)
Newer(x, y) == x.ts > y.ts \/ (x.ts = y.ts /\ x.node > y.node)

Init ==
  /\ db = [r \in Rooms |-> [k \in Keys |-> NoRec]]
  /\ now \in Nat

(* a write of one or several keys of one room, all at once and under one   *)
(* version, newer than every version it replaces                           *)
Write(r, K) ==
  /\ db' \in [Rooms -> [Keys -> Record \cup {NoRec}]]
  /\ \A q \in Rooms, k \in Keys : q # r \/ k \notin K => db'[q][k] = db[q][k]
  /\ \A k \in K :
       /\ db'[r][k] # NoRec
       /\ db[r][k] # NoRec => Newer(db'[r][k], db[r][k])
       /\ \A j \in K : /\ db'[r][j].ts = db'[r][k].ts
                       /\ db'[r][j].node = db'[r][k].node
  /\ UNCHANGED now

(* a delete, or a replicated write whose deadline has already passed       *)
Delete(r, k) ==
  /\ db[r][k] # NoRec
  /\ db' = [db EXCEPT ![r][k] = NoRec]
  /\ UNCHANGED now

(* time passes and the keys whose deadline it passes are gone              *)
Advance ==
  /\ now' > now
  /\ now' \in Nat
  /\ db' = [r \in Rooms |-> [k \in Keys |->
              IF db[r][k] # NoRec /\ Expired(db[r][k], now')
                THEN NoRec ELSE db[r][k]]]

Next ==
  \/ \E r \in Rooms : \E K \in SUBSET Keys : Write(r, K)
  \/ \E r \in Rooms, k \in Keys : Delete(r, k)
  \/ Advance

Spec == Init /\ [][Next]_vars
=============================================================================
