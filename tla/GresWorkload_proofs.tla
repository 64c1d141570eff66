------------------------ MODULE GresWorkload_proofs ------------------------
(***************************************************************************)
(* Theorems about the SQL workload, for every interval, retention, prune   *)
(* period and restart delay.                                               *)
(***************************************************************************)
EXTENDS GresWorkload, FiniteSetTheorems, TLAPS

\* A container that has not started yet, and an empty table.
LEMMA InitTypeOK == Init => TypeOK
<1> SUFFICES ASSUME Init PROVE TypeOK
  OBVIOUS
<1>1. collided \in BOOLEAN /\ missed \in BOOLEAN
  BY Zenon DEF Init
<1> QED
  BY <1>1 DEF Init, TypeOK

\* The variables of the workload stay in their domains.
THEOREM WorkloadTypeCorrect == Spec => []TypeOK
<1> USE WorkloadAssumption
<1>1. Init => TypeOK
  BY InitTypeOK
<1>2. TypeOK /\ [Next]_vars => TypeOK'
  <2> SUFFICES ASSUME TypeOK, [Next]_vars PROVE TypeOK'
    OBVIOUS
  <2>1. CASE Tick
    BY <2>1 DEF Tick, TypeOK
  <2>5. CASE Start
    BY <2>5 DEF Start, Seed, TypeOK
  <2>6. CASE WakeUp \/ UNCHANGED vars
    BY <2>6 DEF WakeUp, vars, TypeOK
  <2>4. CASE Kill
    <3>1. wake' \in Nat
      BY <2>4 DEF Kill, TypeOK
    <3>2. missed' \in BOOLEAN
      BY <2>4, Zenon DEF Kill
    <3> QED
      BY <2>4, <3>1, <3>2 DEF Kill, TypeOK
  <2>2. CASE Insert
    <3>1. id' \in Nat /\ table' \subseteq Nat
      <4>1. id' = id + 1 /\ (table' = table \/ table' = table \cup {id'})
        BY <2>2, Zenon DEF Insert
      <4>2. id \in Nat /\ table \subseteq Nat
        BY Zenon DEF TypeOK
      <4>3. id' \in Nat
        BY <4>1, <4>2
      <4> QED
        BY <4>1, <4>2, <4>3
    <3>2. collided' \in BOOLEAN
      <4>1. collided' = collided \/ collided' = (collided \/ id' \in table)
        BY <2>2, Zenon DEF Insert
      <4> QED
        BY <4>1, Zenon DEF TypeOK
    <3> QED
      BY <2>2, <3>1, <3>2 DEF Insert, TypeOK
  <2>3. CASE Prune
    <3>1. table' \subseteq Nat
      BY <2>3 DEF Prune, Pruned, TypeOK
    <3>2. missed' \in BOOLEAN
      BY <2>3, Zenon DEF Prune, TypeOK
    <3> QED
      BY <2>3, <3>1, <3>2 DEF Prune, AfterSleep, TypeOK
  <2> QED
    BY <2>1, <2>2, <2>3, <2>4, <2>5, <2>6 DEF Next, Horizon
<1> QED
  BY <1>1, <1>2, PTL DEF Spec

-----------------------------------------------------------------------------
(* No key is used twice.                                                   *)

\* Keys never run ahead of the clock: in a pass the id is at most one above it,
\* and the sleep, or the restart, lasts until the clock has caught up.  Only the
\* last conjunct is the property; without the others an INSERT may meet a key
\* that an earlier life of the container left behind.
KeysFollowClock ==
  /\ TypeOK
  /\ phase # "down" => \A r \in table : r <= id
  /\ phase = "down" => \A r \in table : r <= wake
  /\ phase = "insert" => id <= clock
  /\ phase = "prune" => id <= clock + 1
  /\ phase = "sleep" => id <= wake
  /\ phase = "sleep" => id <= clock + 1
  /\ NoCollision

\* Every step keeps it, given a sleep and a restart of a second or more.
LEMMA NextKeysFollowClock ==
  ASSUME Interval > 0, RestartTakes > 0, KeysFollowClock, TypeOK', [Next]_vars
  PROVE  KeysFollowClock'
<1> USE WorkloadAssumption
<1>1. CASE Tick
  BY <1>1 DEF Tick, KeysFollowClock, TypeOK, NoCollision
<1>2. CASE Start
  BY <1>2 DEF Start, Seed, KeysFollowClock, TypeOK, NoCollision
<1>3. CASE Insert
  <2>1. id + 1 \notin table
    BY <1>3 DEF Insert, KeysFollowClock, TypeOK
  <2>2. ~collided'
    BY <1>3, <2>1 DEF Insert, KeysFollowClock, NoCollision
  <2>3. \A r \in table' : r <= id'
    BY <1>3 DEF Insert, KeysFollowClock, TypeOK
  <2> QED
    BY <1>3, <2>2, <2>3 DEF Insert, KeysFollowClock, TypeOK, NoCollision
<1>4. CASE Prune
  <2>1. table' \subseteq table
    BY <1>4 DEF Prune, Pruned
  <2>2. id <= wake'
    BY <1>4 DEF Prune, AfterSleep, KeysFollowClock, TypeOK
  <2> QED
    BY <1>4, <2>1, <2>2 DEF Prune, KeysFollowClock, TypeOK, NoCollision
<1>5. CASE WakeUp
  BY <1>5 DEF WakeUp, KeysFollowClock, TypeOK, NoCollision
<1>6. CASE Kill
  <2>1. \A r \in table : r <= clock + 1
    BY <1>6 DEF Kill, KeysFollowClock, TypeOK
  <2> QED
    BY <1>6, <2>1 DEF Kill, KeysFollowClock, TypeOK, NoCollision
<1>7. CASE UNCHANGED vars
  BY <1>7 DEF vars, KeysFollowClock, TypeOK, NoCollision
<1> QED
  BY <1>1, <1>2, <1>3, <1>4, <1>5, <1>6, <1>7 DEF Next, Horizon

\* A workload that sleeps between passes never meets a key of its own, however
\* often and wherever it is killed, provided a restart takes a second; with
\* Interval = 0 this is false.
THEOREM RestartsDoNotCollide ==
  ASSUME Interval > 0, RestartTakes > 0
  PROVE  Spec => []NoCollision
<1>1. Init => KeysFollowClock
  BY InitTypeOK DEF Init, KeysFollowClock, NoCollision
<1>2. TypeOK' /\ KeysFollowClock /\ [Next]_vars => KeysFollowClock'
  BY NextKeysFollowClock
<1>3. KeysFollowClock => NoCollision
  BY DEF KeysFollowClock
<1> QED
  BY <1>1, <1>2, <1>3, WorkloadTypeCorrect, PTL DEF Spec

-----------------------------------------------------------------------------
(* The table stays bounded.                                                *)

\* The last id at which a prune was due, up to i.
LastPrune(i) == i - (i % PruneEvery)

\* What the next id does to it.
LEMMA NextPrune ==
  ASSUME NEW i \in Nat
  PROVE  /\ i % PruneEvery \in 0 .. PruneEvery - 1
         /\ (i + 1) % PruneEvery = 0 => i % PruneEvery = PruneEvery - 1
         /\ (i + 1) % PruneEvery # 0 => (i + 1) % PruneEvery = (i % PruneEvery) + 1
<1> USE WorkloadAssumption
<1>1. i % PruneEvery \in 0 .. PruneEvery - 1
  OBVIOUS
<1>2. i = (i \div PruneEvery) * PruneEvery + (i % PruneEvery) /\ i \div PruneEvery \in Nat
  BY SMTT(60)
<1>3. /\ i + 1 = ((i + 1) \div PruneEvery) * PruneEvery + ((i + 1) % PruneEvery)
      /\ (i + 1) \div PruneEvery \in Nat /\ (i + 1) % PruneEvery \in 0 .. PruneEvery - 1
  BY SMTT(60)
<1> DEFINE q == i \div PruneEvery
           p == (i + 1) \div PruneEvery
           r == i % PruneEvery
           s == (i + 1) % PruneEvery
<1>4. /\ q \in Nat /\ p \in Nat /\ r \in 0 .. PruneEvery - 1 /\ s \in 0 .. PruneEvery - 1
      /\ p * PruneEvery + s = q * PruneEvery + r + 1
  BY <1>1, <1>2, <1>3
<1> HIDE DEF q, p, r, s
<1>5. p = q \/ p >= q + 1 \/ p + 1 <= q
  BY <1>4
<1>6. CASE p = q
  BY <1>4, <1>6 DEF r, s
<1>7. CASE p >= q + 1
  <2>1. p * PruneEvery >= q * PruneEvery + PruneEvery
    <3>1. (q + 1) * PruneEvery = q * PruneEvery + PruneEvery
      BY <1>4
    <3>2. p * PruneEvery >= (q + 1) * PruneEvery
      BY <1>4, <1>7
    <3> QED
      BY <1>4, <3>1, <3>2
  <2> QED
    BY <1>4, <2>1 DEF r, s
<1>8. CASE p + 1 <= q
  <2>1. q * PruneEvery >= p * PruneEvery + PruneEvery
    <3>1. (p + 1) * PruneEvery = p * PruneEvery + PruneEvery
      BY <1>4
    <3>2. q * PruneEvery >= (p + 1) * PruneEvery
      BY <1>4, <1>8
    <3> QED
      BY <1>4, <3>1, <3>2
  <2> QED
    BY <1>4, <2>1
<1> QED
  BY <1>5, <1>6, <1>7, <1>8

\* With no prune missed, nothing in the table is older than what the last prune
\* due retains; between an INSERT and its prune, the last one before it.
RowsInv ==
  /\ KeysFollowClock
  /\ ~missed => /\ phase = "down" => table = {}
                /\ phase \in {"insert", "sleep"} => \A r \in table : r >= LastPrune(id) - Retain
                /\ phase = "prune" => /\ id > 0
                                      /\ \A r \in table : r = id \/ r >= LastPrune(id - 1) - Retain

\* Every step keeps it.
LEMMA NextRowsInv ==
  ASSUME Interval > 0, RestartTakes > 0, RowsInv, TypeOK', [Next]_vars
  PROVE  RowsInv'
<1> USE WorkloadAssumption
<1>0. KeysFollowClock' /\ KeysFollowClock /\ TypeOK
  BY NextKeysFollowClock DEF RowsInv, KeysFollowClock
<1>1. CASE Tick \/ WakeUp \/ UNCHANGED vars
  BY <1>0, <1>1 DEF Tick, WakeUp, vars, RowsInv, LastPrune
<1>2. CASE Start
  <2>1. ~missed' => table' = {}
    BY <1>2 DEF Start, RowsInv
  <2> QED
    BY <1>0, <1>2, <2>1 DEF Start, RowsInv
<1>3. CASE Insert
  <2>1. id' = id + 1 /\ id' - 1 = id /\ id \in Nat /\ phase = "insert" /\ phase' = "prune"
        /\ missed' = missed /\ table' \subseteq table \cup {id'}
    BY <1>0, <1>3 DEF Insert, TypeOK
  <2> QED
    BY <1>0, <2>1 DEF RowsInv, LastPrune
<1>4. CASE Prune
  <2>1. id' = id /\ id \in Nat /\ phase = "prune" /\ phase' = "sleep" /\ table \subseteq Nat
    BY <1>0, <1>4 DEF Prune, TypeOK
  <2>2. CASE id % PruneEvery = 0
    <3>1. ~missed' => table' = Pruned
      BY <1>4, <2>2 DEF Prune
    <3>2. LastPrune(id) = id
      BY <2>1, <2>2 DEF LastPrune
    <3> QED
      BY <1>0, <2>1, <3>1, <3>2 DEF RowsInv, Pruned, LastPrune
  <2>3. CASE id % PruneEvery # 0
    <3>1. table' = table /\ missed' = missed
      BY <1>4, <2>3 DEF Prune
    <3>2. ASSUME ~missed PROVE \A r \in table : r >= LastPrune(id) - Retain
      <4>1. id - 1 \in Nat /\ (id - 1) + 1 = id
        BY <2>1, <3>2 DEF RowsInv
      <4>2. (id - 1) % PruneEvery \in 0 .. PruneEvery - 1
            /\ id % PruneEvery = ((id - 1) % PruneEvery) + 1
        BY <2>3, <4>1, NextPrune
      <4>3. LastPrune(id) = LastPrune(id - 1) /\ LastPrune(id) <= id /\ LastPrune(id) \in Int
        BY <2>1, <4>1, <4>2 DEF LastPrune
      <4> QED
        BY <2>1, <3>2, <4>3 DEF RowsInv
    <3> QED
      BY <1>0, <2>1, <3>1, <3>2 DEF RowsInv, LastPrune
  <2> QED
    BY <2>2, <2>3
<1>5. CASE Kill
  BY <1>0, <1>5 DEF Kill, RowsInv
<1> QED
  BY <1>1, <1>2, <1>3, <1>4, <1>5 DEF Next, Horizon

\* The rows lie between the ones retained at the last prune due and the id.
LEMMA RowsAreFew == ASSUME RowsInv PROVE TableBounded
<1> USE WorkloadAssumption
<1> SUFFICES ASSUME ~missed PROVE Cardinality(table) <= Retain + PruneEvery + 1
  BY DEF TableBounded
<1>1. TypeOK /\ id \in Nat /\ table \subseteq Nat
      /\ phase \in {"down", "insert", "prune", "sleep"}
  BY DEF RowsInv, KeysFollowClock, TypeOK
<1>2. CASE phase = "down"
  BY <1>2, FS_EmptySet DEF RowsInv
<1>3. CASE phase # "down"
  <2>1. \A r \in table : r <= id /\ r >= id - Retain - PruneEvery
    <3>1. \A r \in table : r <= id
      BY <1>3 DEF RowsInv, KeysFollowClock
    <3>2. CASE phase \in {"insert", "sleep"}
      <4>1. LastPrune(id) \in Int /\ LastPrune(id) >= id - PruneEvery
        BY <1>1, NextPrune DEF LastPrune
      <4> QED
        BY <1>1, <3>1, <3>2, <4>1 DEF RowsInv
    <3>3. CASE phase = "prune"
      <4>1. id - 1 \in Nat
        BY <1>1, <3>3 DEF RowsInv
      <4>2. LastPrune(id - 1) \in Int /\ LastPrune(id - 1) >= id - PruneEvery
        BY <1>1, <4>1, NextPrune DEF LastPrune
      <4> QED
        BY <1>1, <3>1, <3>3, <4>2 DEF RowsInv
    <3> QED
      BY <1>1, <1>3, <3>2, <3>3
  <2> DEFINE lo == id - Retain - PruneEvery
  <2>2. lo \in Int /\ id \in Int /\ lo <= id
    BY <1>1
  <2>3. IsFiniteSet(lo .. id) /\ Cardinality(lo .. id) = id - lo + 1
    BY <2>2, FS_Interval
  <2>4. table \subseteq lo .. id
    BY <1>1, <2>1
  <2>5. IsFiniteSet(table) /\ Cardinality(table) <= Cardinality(lo .. id)
    BY <2>3, <2>4, FS_Subset
  <2> QED
    BY <1>1, <2>3, <2>5
<1> QED
  BY <1>2, <1>3

\* While no prune fails and no kill comes in between, the table holds no more
\* than the rows retained, a prune period of new ones and the one just
\* inserted, whatever earlier lives of the container left in it.
THEOREM PrunesBoundTheTable ==
  ASSUME Interval > 0, RestartTakes > 0
  PROVE  Spec => []TableBounded
<1>1. Init => RowsInv
  BY InitTypeOK DEF Init, RowsInv, KeysFollowClock, NoCollision
<1>2. TypeOK' /\ RowsInv /\ [Next]_vars => RowsInv'
  BY NextRowsInv
<1> QED
  BY <1>1, <1>2, RowsAreFew, WorkloadTypeCorrect, PTL DEF Spec
=============================================================================
