------------------------- MODULE OrderPolicy_proofs -------------------------
(***************************************************************************)
(* Theorems about the generator and the simulated work, for every fraction *)
(* of slow orders, every work of the stages and every length of the walk.  *)
(***************************************************************************)
EXTENDS OrderPolicy, FiniteSetTheorems, FunctionTheorems, TLAPS

-----------------------------------------------------------------------------
(* The slow share.                                                         *)

\* The slow orders of a window, and those among the first n orders.
Run == Ceiling(SlowNum * 10000, SlowDen)
SlowOf(n) == (n \div 10000) * Run + IF n % 10000 < Run THEN n % 10000 ELSE Run

StageSum == Work["validate"] + Work["enrich"] + Work["fraud_check"] + Work["fulfill"]

\* A number rounded up, by what it is compared with.
LEMMA CeilingBounds ==
  ASSUME NEW a \in Nat, NEW b \in Nat \ {0}
  PROVE  /\ Ceiling(a, b) \in Nat
         /\ Ceiling(a, b) * b >= a
         /\ Ceiling(a, b) * b < a + b
<1> DEFINE n == a + b - 1
<1>1. n \in Nat /\ Ceiling(a, b) = n \div b
  BY DEF Ceiling
<1> HIDE DEF n
<1>2. n \div b \in Nat /\ n % b \in 0 .. b - 1
  BY <1>1
<1>3. n = b * (n \div b) + (n % b)
  BY <1>1, SMTT(60)
<1>4. b * (n \div b) = (n \div b) * b
  BY <1>2
<1>5. n = a + b - 1
  BY DEF n
<1> QED
  BY <1>1, <1>2, <1>3, <1>4, <1>5

\* A product grows with its first factor.
LEMMA ProductGrows ==
  ASSUME NEW x \in Nat, NEW y \in Nat, NEW b \in Nat \ {0}, x <= y
  PROVE  x * b <= y * b /\ (x + 1) * b = x * b + b
  OBVIOUS

\* The slots below the rounded-up fraction are those whose orders are slow, and
\* there are no more of them than slots.
LEMMA SlowSlots ==
  /\ Run \in 0 .. 10000
  /\ \A i \in Nat : inject_latency(i) <=> i % 10000 < Run
<1> USE PolicyAssumption
<1> DEFINE a == SlowNum * 10000
<1>1. a \in Nat /\ SlowDen \in Nat \ {0} /\ a <= 10000 * SlowDen
  BY ProductGrows
<1>2. /\ Run \in Nat
      /\ Run * SlowDen >= a
      /\ Run * SlowDen < a + SlowDen
  BY <1>1, CeilingBounds DEF Run
<1> HIDE DEF a
<1>3. ASSUME NEW x \in Nat PROVE x * SlowDen < a <=> x < Run
  <2>1. CASE x < Run
    <3>1. x + 1 <= Run /\ (x + 1) * SlowDen = x * SlowDen + SlowDen
      BY <1>2, <2>1, ProductGrows
    <3>2. (x + 1) * SlowDen <= Run * SlowDen
      BY <1>2, <3>1, ProductGrows
    <3> QED
      BY <1>1, <1>2, <2>1, <3>1, <3>2
  <2>2. CASE Run <= x
    <3>1. Run * SlowDen <= x * SlowDen
      BY <1>2, <2>2, ProductGrows
    <3> QED
      BY <1>1, <1>2, <2>2, <3>1
  <2> QED
    BY <1>2, <2>1, <2>2
<1>4. Run <= 10000
  BY <1>1, <1>2, <1>3
<1>5. ASSUME NEW i \in Nat PROVE inject_latency(i) <=> i % 10000 < Run
  <2>1. i % 10000 \in Nat /\ ((i % 10000) * SlowDen < a <=> i % 10000 < Run)
    BY <1>3
  <2>2. SlowNum = 0 => Run = 0
    <3>1. SlowNum = 0 => a = 0
      BY DEF a
    <3> QED
      BY <1>2, <1>3, <3>1
  <2> QED
    BY <2>1, <2>2, <1>2 DEF inject_latency, a
<1> QED
  BY <1>2, <1>4, <1>5

\* One more order is one more slow order, or not.
LEMMA NextSlow ==
  ASSUME NEW n \in Nat
  PROVE  /\ SlowOf(n) \in Nat
         /\ SlowOf(n + 1) = SlowOf(n) + IF inject_latency(n) THEN 1 ELSE 0
<1> DEFINE q == n \div 10000
           r == n % 10000
<1>1. q \in Nat /\ r \in 0 .. 9999 /\ Run \in 0 .. 10000 /\ (inject_latency(n) <=> r < Run)
  BY SlowSlots
<1>2. q * Run \in Nat /\ (q + 1) * Run = q * Run + Run
  BY <1>1
<1>3. \/ (n + 1) \div 10000 = q /\ (n + 1) % 10000 = r + 1 /\ r < 9999
      \/ (n + 1) \div 10000 = q + 1 /\ (n + 1) % 10000 = 0 /\ r = 9999
  OBVIOUS
<1>4. SlowOf(n) = q * Run + IF r < Run THEN r ELSE Run
  BY DEF SlowOf
<1>5. SlowOf(n + 1) = ((n + 1) \div 10000) * Run
                       + IF (n + 1) % 10000 < Run THEN (n + 1) % 10000 ELSE Run
  BY DEF SlowOf
<1> HIDE DEF q, r
<1> DEFINE p == q * Run
           one == IF r < Run THEN 1 ELSE 0
<1>6. one = IF inject_latency(n) THEN 1 ELSE 0
  BY <1>1
<1>7. p \in Nat /\ (q + 1) * Run = p + Run /\ SlowOf(n) = p + IF r < Run THEN r ELSE Run
  BY <1>2, <1>4
<1>8. CASE (n + 1) \div 10000 = q /\ (n + 1) % 10000 = r + 1 /\ r < 9999
  <2>1. SlowOf(n + 1) = p + IF r + 1 < Run THEN r + 1 ELSE Run
    BY <1>5, <1>8
  <2> HIDE DEF p
  <2> QED
    BY <1>1, <1>6, <1>7, <2>1
<1>9. CASE (n + 1) \div 10000 = q + 1 /\ (n + 1) % 10000 = 0 /\ r = 9999
  <2>1. SlowOf(n + 1) = p + Run + IF 0 < Run THEN 0 ELSE Run
    BY <1>5, <1>7, <1>9
  <2> HIDE DEF p
  <2> QED
    BY <1>1, <1>6, <1>7, <1>9, <2>1
<1> QED
  BY <1>3, <1>8, <1>9

\* What the four stages of an order take.
LEMMA OrderTakes ==
  ASSUME NEW i \in Nat
  PROVE  /\ StageSum \in Nat
         /\ process_order(order_at(i)) = StageSum + IF inject_latency(i) THEN 2400 ELSE 0
<1>1. /\ Work["validate"] \in Nat /\ Work["enrich"] \in Nat
      /\ Work["fraud_check"] \in Nat /\ Work["fulfill"] \in Nat
  BY PolicyAssumption
<1>2. order_at(i).order_id = i
  BY DEF order_at
<1>3. \A s \in {"validate", "enrich", "fraud_check", "fulfill"} :
        stage_delay(s, i) = Work[s] + IF inject_latency(i) THEN 600 ELSE 0
  BY <1>1 DEF stage_delay, Second
<1> QED
  BY <1>1, <1>2, <1>3 DEF process_order, StageSum

\* SlowShare is inductive once the slow orders are counted one by one.
ShareInv == /\ index \in Nat
            /\ busy = index * StageSum + SlowOf(index) * 2400

\* Counted one by one or by the closed form, it is the same.
LEMMA ShareMeans == ShareInv => SlowShare
  BY DEF ShareInv, SlowShare, SlowOf, Run, StageSum, Second

\* "Deterministic fraction of orders whose processing stages take 30ms longer"
\* (main.rs:163): of every 10000 orders as many as the fraction says, rounded
\* up, for every fraction from 0 to 1, and nothing else adds to the work.
THEOREM SlowShareIsExact == Spec => []SlowShare
<1>1. Init => ShareInv
  <2>1. SlowOf(0) = 0 /\ StageSum \in Nat
    BY SlowSlots, OrderTakes DEF SlowOf
  <2> QED
    BY <2>1 DEF Init, ShareInv
<1>2. ShareInv /\ [Next]_vars => ShareInv'
  <2> SUFFICES ASSUME ShareInv, [Next]_vars PROVE ShareInv'
    OBVIOUS
  <2>1. CASE ProcessNext
    <3>1. /\ index \in Nat /\ index' = index + 1
          /\ busy' = busy + process_order(order_at(index))
      BY <2>1 DEF ProcessNext, ShareInv
    <3>2. /\ StageSum \in Nat /\ SlowOf(index) \in Nat
          /\ process_order(order_at(index)) = StageSum + IF inject_latency(index) THEN 2400 ELSE 0
          /\ SlowOf(index + 1) = SlowOf(index) + IF inject_latency(index) THEN 1 ELSE 0
      BY <3>1, OrderTakes, NextSlow
    <3>3. index * StageSum \in Nat /\ (index + 1) * StageSum = index * StageSum + StageSum
      BY <3>1, <3>2
    <3> QED
      BY <3>1, <3>2, <3>3 DEF ShareInv
  <2>2. CASE UNCHANGED vars
    BY <2>2 DEF vars, ShareInv
  <2> QED
    BY <2>1, <2>2 DEF Next, End
<1> QED
  BY <1>1, <1>2, ShareMeans, PTL DEF Spec

-----------------------------------------------------------------------------
(* The labels.                                                             *)

Labels == CATEGORIES \X REGIONS \X Outcomes

\* The labels under which order i is counted as processed.
Label(i) == <<order_at(i).category, order_at(i).region, classify_outcome(order_at(i))>>

\* The generator and the outcome in one formula.
LEMMA LabelOf ==
  ASSUME NEW i \in Nat
  PROVE  Label(i) = <<i % 5, (i \div 2) % 4,
                      IF i % 17 = 0 THEN "anomalous"
                      ELSE IF (i \div 3) % 4 = 3 /\ i % 200 >= 150 THEN "fraud_rejected"
                      ELSE "fulfilled">>
<1>1. /\ order_at(i).category = i % 5
      /\ order_at(i).region = (i \div 2) % 4
      /\ order_at(i).payment_method = (i \div 3) % 4
      /\ order_at(i).amount = IF i % 17 = 0 THEN 0 ELSE (i % 200) * 100 + 99
  BY DEF order_at
<1>2. is_anomalous(order_at(i)) <=> i % 17 = 0
  BY <1>1 DEF is_anomalous
<1>3. i % 17 # 0 => (is_suspicious(order_at(i)) <=> (i \div 3) % 4 = 3 /\ i % 200 >= 150)
  BY <1>1 DEF is_suspicious, Crypto
<1> QED
  BY <1>1, <1>2, <1>3 DEF Label, classify_outcome

\* No order has any other label.
LEMMA LabelType == ASSUME NEW i \in Nat PROVE Label(i) \in Labels
<1>1. i % 5 \in CATEGORIES /\ (i \div 2) % 4 \in REGIONS
  BY DEF CATEGORIES, REGIONS
<1> QED
  BY <1>1, LabelOf DEF Labels, Outcomes

\* The first order of each label.
LEMMA FirstOrders ==
  ASSUME NEW l \in Labels
  PROVE  \E i \in 0 .. 1161 : Label(i) = l
<1>1. /\ Label(0) = <<0, 0, "anomalous">> /\ Label(170) = <<0, 1, "anomalous">>
      /\ Label(85) = <<0, 2, "anomalous">> /\ Label(255) = <<0, 3, "anomalous">>
      /\ Label(136) = <<1, 0, "anomalous">> /\ Label(51) = <<1, 1, "anomalous">>
      /\ Label(221) = <<1, 2, "anomalous">> /\ Label(391) = <<1, 3, "anomalous">>
      /\ Label(17) = <<2, 0, "anomalous">> /\ Label(187) = <<2, 1, "anomalous">>
      /\ Label(357) = <<2, 2, "anomalous">> /\ Label(102) = <<2, 3, "anomalous">>
      /\ Label(153) = <<3, 0, "anomalous">> /\ Label(323) = <<3, 1, "anomalous">>
      /\ Label(68) = <<3, 2, "anomalous">> /\ Label(238) = <<3, 3, "anomalous">>
      /\ Label(289) = <<4, 0, "anomalous">> /\ Label(34) = <<4, 1, "anomalous">>
      /\ Label(204) = <<4, 2, "anomalous">> /\ Label(119) = <<4, 3, "anomalous">>
  BY LabelOf
<1>2. /\ Label(585) = <<0, 0, "fraud_rejected">> /\ Label(155) = <<0, 1, "fraud_rejected">>
      /\ Label(165) = <<0, 2, "fraud_rejected">> /\ Label(190) = <<0, 3, "fraud_rejected">>
      /\ Label(1161) = <<1, 0, "fraud_rejected">> /\ Label(371) = <<1, 1, "fraud_rejected">>
      /\ Label(381) = <<1, 2, "fraud_rejected">> /\ Label(166) = <<1, 3, "fraud_rejected">>
      /\ Label(177) = <<2, 0, "fraud_rejected">> /\ Label(562) = <<2, 1, "fraud_rejected">>
      /\ Label(597) = <<2, 2, "fraud_rejected">> /\ Label(167) = <<2, 3, "fraud_rejected">>
      /\ Label(393) = <<3, 0, "fraud_rejected">> /\ Label(178) = <<3, 1, "fraud_rejected">>
      /\ Label(573) = <<3, 2, "fraud_rejected">> /\ Label(358) = <<3, 3, "fraud_rejected">>
      /\ Label(369) = <<4, 0, "fraud_rejected">> /\ Label(154) = <<4, 1, "fraud_rejected">>
      /\ Label(189) = <<4, 2, "fraud_rejected">> /\ Label(359) = <<4, 3, "fraud_rejected">>
  BY LabelOf
<1>3. /\ Label(25) = <<0, 0, "fulfilled">> /\ Label(10) = <<0, 1, "fulfilled">>
      /\ Label(5) = <<0, 2, "fulfilled">> /\ Label(15) = <<0, 3, "fulfilled">>
      /\ Label(1) = <<1, 0, "fulfilled">> /\ Label(11) = <<1, 1, "fulfilled">>
      /\ Label(21) = <<1, 2, "fulfilled">> /\ Label(6) = <<1, 3, "fulfilled">>
      /\ Label(32) = <<2, 0, "fulfilled">> /\ Label(2) = <<2, 1, "fulfilled">>
      /\ Label(12) = <<2, 2, "fulfilled">> /\ Label(7) = <<2, 3, "fulfilled">>
      /\ Label(8) = <<3, 0, "fulfilled">> /\ Label(3) = <<3, 1, "fulfilled">>
      /\ Label(13) = <<3, 2, "fulfilled">> /\ Label(23) = <<3, 3, "fulfilled">>
      /\ Label(9) = <<4, 0, "fulfilled">> /\ Label(19) = <<4, 1, "fulfilled">>
      /\ Label(4) = <<4, 2, "fulfilled">> /\ Label(14) = <<4, 3, "fulfilled">>
  BY LabelOf
<1>4. PICK c \in 0 .. 4, r \in 0 .. 3, o \in Outcomes : l = <<c, r, o>>
  BY DEF Labels, CATEGORIES, REGIONS
<1>5. c \in {0, 1, 2, 3, 4} /\ r \in {0, 1, 2, 3}
  OBVIOUS
<1>6. CASE o = "anomalous"
  BY <1>1, <1>4, <1>5, <1>6
<1>7. CASE o = "fraud_rejected"
  BY <1>2, <1>4, <1>5, <1>7
<1>8. CASE o = "fulfilled"
  BY <1>3, <1>4, <1>5, <1>8
<1> QED
  BY <1>6, <1>7, <1>8 DEF Outcomes

\* Five categories, four regions and three outcomes.
LEMMA LabelCount == IsFiniteSet(Labels) /\ Cardinality(Labels) = 60
<1> DEFINE pairs == CATEGORIES \X REGIONS
           flat == [p \in pairs \X Outcomes |-> <<p[1][1], p[1][2], p[2]>>]
<1>1. /\ IsFiniteSet(CATEGORIES) /\ Cardinality(CATEGORIES) = 5
      /\ IsFiniteSet(REGIONS) /\ Cardinality(REGIONS) = 4
  <2>1. \A n \in Nat : IsFiniteSet(0 .. n) /\ Cardinality(0 .. n) = n + 1
    BY FS_Interval
  <2>2. CATEGORIES = 0 .. 4 /\ REGIONS = 0 .. 3 /\ 4 \in Nat /\ 3 \in Nat
    BY DEF CATEGORIES, REGIONS
  <2>3. PICK c, r \in Nat : c = 4 /\ r = 3
    BY <2>2
  <2>4. CATEGORIES = 0 .. c /\ REGIONS = 0 .. r /\ c + 1 = 5 /\ r + 1 = 4
    BY <2>2, <2>3
  <2> QED
    BY <2>1, <2>4
<1>2. IsFiniteSet(Outcomes) /\ Cardinality(Outcomes) = 3
  <2>1. IsFiniteSet({"anomalous"}) /\ Cardinality({"anomalous"}) = 1
    BY FS_Singleton
  <2>2. /\ IsFiniteSet({"anomalous"} \cup {"fraud_rejected"})
        /\ Cardinality({"anomalous"} \cup {"fraud_rejected"}) = 2
    BY <2>1, FS_AddElement
  <2>3. /\ IsFiniteSet(({"anomalous"} \cup {"fraud_rejected"}) \cup {"fulfilled"})
        /\ Cardinality(({"anomalous"} \cup {"fraud_rejected"}) \cup {"fulfilled"}) = 3
    BY <2>2, FS_AddElement
  <2>4. Outcomes = ({"anomalous"} \cup {"fraud_rejected"}) \cup {"fulfilled"}
    BY DEF Outcomes
  <2> QED
    BY <2>3, <2>4
<1>3. IsFiniteSet(pairs) /\ Cardinality(pairs) = 20
  BY <1>1, FS_Product
<1>4. IsFiniteSet(pairs \X Outcomes) /\ Cardinality(pairs \X Outcomes) = 60
  <2> HIDE DEF pairs
  <2> QED
    BY <1>2, <1>3, FS_Product
<1>5. flat \in Bijection(pairs \X Outcomes, Labels)
  <2>1. flat \in [pairs \X Outcomes -> Labels]
    BY DEF Labels
  <2>2. \A p, q \in pairs \X Outcomes : flat[p] = flat[q] => p = q
    OBVIOUS
  <2>3. \A l \in Labels : \E p \in pairs \X Outcomes : flat[p] = l
    <3> SUFFICES ASSUME NEW l \in Labels PROVE \E p \in pairs \X Outcomes : flat[p] = l
      OBVIOUS
    <3>1. PICK c \in CATEGORIES, r \in REGIONS, o \in Outcomes : l = <<c, r, o>>
      BY DEF Labels
    <3>2. <<<<c, r>>, o>> \in pairs \X Outcomes /\ flat[<<<<c, r>>, o>>] = l
      BY <3>1
    <3> QED
      BY <3>2
  <2> HIDE DEF flat, pairs
  <2> QED
    BY <2>1, <2>2, <2>3 DEF Bijection, Injection, Surjection, IsInjective
<1>6. ExistsBijection(pairs \X Outcomes, Labels)
  BY <1>5 DEF ExistsBijection
<1> QED
  BY <1>4, <1>6, FS_Bijection

\* The labels seen are those of the orders processed.
SeenInv == index \in Nat /\ seen = {Label(i) : i \in 0 .. index - 1}

\* Within 1162 orders every category has had every outcome in every region, and
\* no other label ever appears (lib.rs:79-82).
THEOREM LabelsAllAppear == Spec => []EveryLabelAppears
<1>1. Init => SeenInv
  BY DEF Init, SeenInv
<1>2. SeenInv /\ [Next]_vars => SeenInv'
  <2> SUFFICES ASSUME SeenInv, [Next]_vars PROVE SeenInv'
    OBVIOUS
  <2>1. CASE ProcessNext
    <3>1. index' = index + 1 /\ seen' = seen \cup {Label(index)}
      BY <2>1 DEF ProcessNext, Label
    <3>2. 0 .. index' - 1 = (0 .. index - 1) \cup {index}
      BY <3>1 DEF SeenInv
    <3> QED
      BY <3>1, <3>2 DEF SeenInv
  <2>2. CASE UNCHANGED vars
    BY <2>2 DEF vars, SeenInv
  <2> QED
    BY <2>1, <2>2 DEF Next, End
<1>3. SeenInv => EveryLabelAppears
  <2> SUFFICES ASSUME SeenInv PROVE EveryLabelAppears
    OBVIOUS
  <2>1. seen \subseteq Labels
    BY LabelType DEF SeenInv
  <2>2. ASSUME index >= 1162 PROVE Labels \subseteq seen
    <3> SUFFICES ASSUME NEW l \in Labels PROVE l \in seen
      OBVIOUS
    <3>1. PICK i \in 0 .. 1161 : Label(i) = l
      BY FirstOrders
    <3> QED
      BY <2>2, <3>1 DEF SeenInv
  <2>3. index >= 1162 => seen = Labels
    BY <2>1, <2>2
  <2> QED
    BY <2>1, <2>3, LabelCount DEF EveryLabelAppears, Labels
<1> QED
  BY <1>1, <1>2, <1>3, PTL DEF Spec

\* The labels repeat every 10200 orders.
LEMMA LabelPeriod ==
  ASSUME NEW i \in Nat, NEW k \in Nat
  PROVE  Label(i + 10200 * k) = Label(i)
<1> DEFINE j == i + 10200 * k
<1>1. j \in Nat /\ j % 5 = i % 5 /\ j % 17 = i % 17 /\ j % 200 = i % 200
  OBVIOUS
<1>2. (j \div 2) % 4 = (i \div 2) % 4
  OBVIOUS
<1>3. (j \div 3) % 4 = (i \div 3) % 4
  OBVIOUS
<1> HIDE DEF j
<1>4. /\ Label(j) = <<j % 5, (j \div 2) % 4,
                      IF j % 17 = 0 THEN "anomalous"
                      ELSE IF (j \div 3) % 4 = 3 /\ j % 200 >= 150 THEN "fraud_rejected"
                      ELSE "fulfilled">>
      /\ Label(i) = <<i % 5, (i \div 2) % 4,
                      IF i % 17 = 0 THEN "anomalous"
                      ELSE IF (i \div 3) % 4 = 3 /\ i % 200 >= 150 THEN "fraud_rejected"
                      ELSE "fulfilled">>
  BY <1>1, LabelOf
<1>5. Label(j) = Label(i)
  BY <1>1, <1>2, <1>3, <1>4
<1> QED
  BY <1>5 DEF j

\* No series goes stale: wherever the producer is, each label comes up within
\* the next 10200 orders, and so does each again and again (order_at,
\* lib.rs:83-113).
THEOREM LabelsComeBack ==
  ASSUME NEW n \in Nat, NEW l \in Labels
  PROVE  \E i \in n .. n + 10199 : Label(i) = l
<1>1. PICK w \in 0 .. 1161 : Label(w) = l
  BY FirstOrders
<1>2. CASE n <= w
  <2>1. w \in n .. n + 10199
    BY <1>2
  <2> QED
    BY <1>1, <2>1
<1>3. CASE w < n
  <2> DEFINE k == (n - w + 10199) \div 10200
  <2>1. k \in Nat /\ w + 10200 * k \in n .. n + 10199
    BY <1>3
  <2> HIDE DEF k
  <2>2. Label(w + 10200 * k) = l
    BY <1>1, <2>1, LabelPeriod
  <2> QED
    BY <2>1, <2>2
<1> QED
  BY <1>2, <1>3

=============================================================================
