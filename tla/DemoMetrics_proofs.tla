------------------------ MODULE DemoMetrics_proofs -------------------------
(***************************************************************************)
(* What a page of metrics shows, for any number of deliveries in flight.   *)
(* The argument has two parts: how two series of the process may differ at *)
(* any moment (ConsumeInv, ProduceInv, StreamInv), and that a scrape that  *)
(* encodes the smaller of two such series first keeps their difference     *)
(* within the same limit (PairInv).                                        *)
(***************************************************************************)
EXTENDS DemoMetrics, FiniteSetTheorems, TLAPS

SeriesNames == {"orders_produced", "order_value_dollars", "produce_latency",
  "orders_processed", "validate", "enrich", "fraud_check", "fulfill",
  "order_processing_latency", "pipeline_errors", "stream_records", "stream_category_count"}

\* The series that new() registers (metrics.rs:122-166).
LEMMA SeriesAre == Series = SeriesNames
  BY DEF Series, SeriesNames, Registered

\* The order of registration, for the pairs the properties compare.
LEMMA Order ==
  /\ Registered \in [Series -> Nat]
  /\ \A s \in Stages : Registered["orders_processed"] < Registered[s]
  /\ Registered["orders_processed"] < Registered["order_processing_latency"]
  /\ Registered["orders_produced"] < Registered["order_value_dollars"]
  /\ Registered["order_value_dollars"] < Registered["produce_latency"]
  /\ Registered["stream_records"] < Registered["stream_category_count"]
  BY SeriesAre DEF Registered, Series, SeriesNames, Stages

\* What the record_* functions update one after the other.
LEMMA AfterIs ==
  /\ After("orders_produced") = "order_value_dollars"
  /\ After("order_value_dollars") = "produce_latency"
  /\ After("produce_latency") = "idle"
  /\ After("validate") = "enrich"
  /\ After("enrich") = "fraud_check"
  /\ After("fraud_check") = "fulfill"
  /\ After("fulfill") = "orders_processed"
  /\ After("orders_processed") = "order_processing_latency"
  /\ After("order_processing_latency") = "idle"
  /\ After("pipeline_errors") = "idle"
  /\ After("stream_records") = "stream_category_count"
  /\ After("stream_category_count") = "idle"
  BY DEF After, RecordProduced, RecordError, RecordStream, ProcessOrder, RecordProcessed

-----------------------------------------------------------------------------
(* Types.                                                                  *)

\* What follows an update is another one or the end of the call.
LEMMA AfterType == \A s \in Series : After(s) \in Series \cup {"idle"}
  BY AfterIs, SeriesAre DEF SeriesNames

\* A new registry is typed.
LEMMA InitTypes == Init => TypeOK
  BY MetricsAssumption DEF Init, TypeOK, Zero

\* Every step keeps the types.
LEMMA NextTypes == TypeOK /\ [Next]_vars => TypeOK'
<1> SUFFICES ASSUME TypeOK, [Next]_vars PROVE TypeOK'
  OBVIOUS
<1> USE DEF TypeOK
<1>1. ASSUME NEW w \in 1 .. MaxInFlight, Publish(w) \/ Process(w) \/ Peek(w) PROVE TypeOK'
  BY <1>1, SeriesAre DEF Publish, Process, Peek, Call, SeriesNames
<1>2. ASSUME NEW w \in 1 .. MaxInFlight, NEW s \in Series, Update(w, s) PROVE TypeOK'
  <2>1. PICK n \in Increments(s) : metric' = [metric EXCEPT ![s] = @ + n]
    BY <1>2 DEF Update
  <2>2. n \in Nat
    BY MetricsAssumption DEF Increments
  <2> QED
    BY <1>2, <2>1, <2>2, AfterType DEF Update
<1>3. CASE Export
  BY <1>3 DEF Export, Zero, Labelled
<1>4. ASSUME NEW s \in Series, Encode(s) \/ EnterFamily(s) PROVE TypeOK'
  BY <1>4 DEF Encode, EnterFamily, Reached
<1>5. CASE LeaveFamily
  <2>1. PICK n \in page[inside] .. metric[inside] : page' = [page EXCEPT ![inside] = n]
    BY <1>5 DEF LeaveFamily
  <2>2. inside \in Series
    BY <1>5 DEF LeaveFamily
  <2>3. n \in Nat
    BY <2>1, <2>2
  <2> QED
    BY <1>5, <2>1, <2>2, <2>3 DEF LeaveFamily
<1>6. CASE EncodeFails \/ Restart
  BY <1>6, MetricsAssumption DEF EncodeFails, Restart, Zero
<1>7. CASE UNCHANGED vars
  BY <1>7 DEF vars
<1> QED
  BY <1>1, <1>2, <1>3, <1>4, <1>5, <1>6, <1>7 DEF Next

\* The state of the metrics and of a scrape keeps its type (metrics.rs).
THEOREM MetricsTypeCorrect == Spec => []TypeOK
<1> QED
  BY InitTypes, NextTypes, PTL DEF Spec

-----------------------------------------------------------------------------
(* A scrape.  Series a never exceeds series b by more than k at any moment *)
(* and is registered before it: then it does not on a page either.         *)

Encoded(s) == s \notin unread \/ inside = s

PairInv(a, b, k) == /\ page[a] <= metric[a]
                    /\ Encoded(b) => a \notin unread /\ page[a] <= page[b] + k

\* The first page is empty.
LEMMA PairInit ==
  ASSUME NEW a \in Series, NEW b \in Series, NEW k \in Nat, Init
  PROVE  PairInv(a, b, k)
  BY DEF Init, Zero, PairInv, Encoded

\* Series only grow, so what b shows later is no less than what a showed.
LEMMA PairNext ==
  ASSUME NEW a \in Series, NEW b \in Series, NEW k \in Nat,
         Registered[a] < Registered[b], TypeOK, [Next]_vars,
         metric[a] <= metric[b] + k, PairInv(a, b, k)
  PROVE  PairInv(a, b, k)'
<1> USE DEF TypeOK, PairInv, Encoded
<1>0. a # b /\ b # "none" /\ Registered[a] \in Nat /\ Registered[b] \in Nat
  <2>1. b # "none"
    BY SeriesAre DEF SeriesNames
  <2>2. Registered[a] \in Nat /\ Registered[b] \in Nat
    BY Order
  <2> QED
    BY <2>1, <2>2
<1>1. ASSUME NEW w \in 1 .. MaxInFlight, Publish(w) \/ Process(w) \/ Peek(w)
      PROVE  PairInv(a, b, k)'
  BY <1>1 DEF Publish, Process, Peek, Call
<1>2. ASSUME NEW w \in 1 .. MaxInFlight, NEW s \in Series, Update(w, s)
      PROVE  PairInv(a, b, k)'
  <2>1. PICK n \in Increments(s) : metric' = [metric EXCEPT ![s] = @ + n]
    BY <1>2 DEF Update
  <2>2. n \in Nat
    BY MetricsAssumption DEF Increments
  <2>3. metric[a] <= metric'[a]
    BY <2>1, <2>2
  <2>4. metric'[a] \in Nat
    BY <2>1, <2>2
  <2> QED
    BY <1>2, <2>3, <2>4 DEF Update
<1>3. CASE Export
  BY <1>0, <1>3 DEF Export, Zero
<1>4. ASSUME NEW s \in Series, Encode(s) PROVE PairInv(a, b, k)'
  <2>1. CASE s = a
    BY <1>0, <1>4, <2>1 DEF Encode, Reached
  <2>2. CASE s = b
    <3>1. a \notin unread
      BY <1>0, <1>4, <2>2 DEF Encode, Reached
    <3> QED
      BY <1>0, <1>4, <2>2, <3>1 DEF Encode, Reached
  <2>3. CASE s # a /\ s # b
    BY <1>4, <2>3 DEF Encode, Reached
  <2> QED
    BY <2>1, <2>2, <2>3
<1>5. ASSUME NEW s \in Series, EnterFamily(s) PROVE PairInv(a, b, k)'
  <2>1. CASE s = a
    BY <1>0, <1>5, <2>1 DEF EnterFamily, Reached
  <2>2. CASE s = b
    <3>1. a \notin unread
      BY <1>0, <1>5, <2>2 DEF EnterFamily, Reached
    <3> QED
      BY <1>0, <1>5, <2>2, <3>1 DEF EnterFamily, Reached
  <2>3. CASE s # a /\ s # b
    BY <1>5, <2>3 DEF EnterFamily, Reached
  <2> QED
    BY <2>1, <2>2, <2>3
<1>6. CASE LeaveFamily
  <2>0. inside \in Series
    BY <1>6, SeriesAre DEF LeaveFamily, Labelled, SeriesNames
  <2>1. PICK n \in page[inside] .. metric[inside] : page' = [page EXCEPT ![inside] = n]
    BY <1>6 DEF LeaveFamily
  <2>2. n \in Nat /\ page[inside] <= n /\ n <= metric[inside]
    BY <2>0, <2>1
  <2>3. CASE inside = a
    BY <1>0, <1>6, <2>0, <2>1, <2>2, <2>3 DEF LeaveFamily
  <2>4. CASE inside = b
    BY <1>0, <1>6, <2>0, <2>1, <2>2, <2>4 DEF LeaveFamily
  <2>5. CASE inside # a /\ inside # b
    BY <1>0, <1>6, <2>0, <2>1, <2>5 DEF LeaveFamily
  <2> QED
    BY <2>3, <2>4, <2>5
<1>7. CASE EncodeFails \/ Restart
  BY <1>7 DEF EncodeFails, Restart, Zero
<1>8. CASE UNCHANGED vars
  BY <1>8 DEF vars
<1> QED
  BY <1>1, <1>2, <1>3, <1>4, <1>5, <1>6, <1>7, <1>8 DEF Next

-----------------------------------------------------------------------------
(* The consumer: one task records, stage by stage.                         *)

RoleSeries(r) ==
  CASE r = "produce" -> {"pipeline_errors", "orders_produced", "order_value_dollars",
                         "produce_latency"}
    [] r = "consume" -> {"pipeline_errors", "validate", "enrich", "fraud_check", "fulfill",
                         "orders_processed", "order_processing_latency"}
    [] r = "stream" -> {"stream_records", "stream_category_count"}

\* A process only touches the series of its role, from as many tasks.
RoleInv ==
  /\ \A w \in 1 .. MaxInFlight : /\ at[w] \in RoleSeries(role) \cup {"idle"}
                                 /\ w \notin Recorders => at[w] = "idle"
  /\ \A s \in Series \ RoleSeries(role) : metric[s] = 0

\* While the order in hand is past a stage, that stage is ahead of the outcomes.
ConsumeInv == role = "consume" =>
  /\ \A s \in Stages : metric["orders_processed"] <= metric[s]
  /\ at[1] \in {"enrich", "fraud_check", "fulfill", "orders_processed"}
       => metric["orders_processed"] < metric["validate"]
  /\ at[1] \in {"fraud_check", "fulfill", "orders_processed"}
       => metric["orders_processed"] < metric["enrich"]
  /\ at[1] \in {"fulfill", "orders_processed"}
       => metric["orders_processed"] < metric["fraud_check"]
  /\ at[1] = "orders_processed" => metric["orders_processed"] < metric["fulfill"]
  /\ metric["orders_processed"] <= metric["order_processing_latency"] + 1
  /\ at[1] # "order_processing_latency"
       => metric["orders_processed"] <= metric["order_processing_latency"]

StreamInv == role = "stream" =>
  /\ metric["stream_records"] <= metric["stream_category_count"] + 1
  /\ at[1] # "stream_category_count"
       => metric["stream_records"] <= metric["stream_category_count"]

\* The deliveries between two updates of record_produced.
At(s) == {w \in 1 .. MaxInFlight : at[w] = s}

ProduceInv == role = "produce" =>
  /\ metric["orders_produced"]
       = metric["order_value_dollars"] + Cardinality(At("order_value_dollars"))
  /\ metric["order_value_dollars"]
       = metric["produce_latency"] + Cardinality(At("produce_latency"))

RecordingInv == TypeOK /\ RoleInv /\ ConsumeInv /\ StreamInv

\* A new process has recorded nothing.
LEMMA RecordingInit == Init => RecordingInv
<1> SUFFICES ASSUME Init PROVE RecordingInv
  OBVIOUS
<1>1. TypeOK
  BY InitTypes
<1>2. RoleInv
  BY DEF Init, RoleInv, RoleSeries, Zero
<1>3. ConsumeInv
  BY SeriesAre, MetricsAssumption DEF Init, ConsumeInv, Zero, Stages, SeriesNames
<1>4. StreamInv
  BY SeriesAre, MetricsAssumption DEF Init, StreamInv, Zero, SeriesNames
<1> QED
  BY <1>1, <1>2, <1>3, <1>4 DEF RecordingInv

\* One task updates its series in the order of the code.
LEMMA RecordingNext == RecordingInv /\ [Next]_vars => RecordingInv'
<1> SUFFICES ASSUME RecordingInv, [Next]_vars PROVE RecordingInv'
  OBVIOUS
<1>0. TypeOK'
  BY NextTypes DEF RecordingInv
<1> USE DEF RecordingInv
<1>1. ASSUME NEW w \in 1 .. MaxInFlight, NEW s, Call(w, s),
             s \in IF role = "produce" THEN {"pipeline_errors", "orders_produced"}
                   ELSE IF role = "consume" THEN {"pipeline_errors", "validate"}
                   ELSE {"stream_records"}
      PROVE  RecordingInv'
  <2> USE DEF TypeOK
  <2>1. at' = [at EXCEPT ![w] = s] /\ at[w] = "idle" /\ w \in Recorders
    BY <1>1 DEF Call
  <2>2. RoleInv'
    BY <1>1, <2>1 DEF Call, RoleInv, RoleSeries, Recorders
  <2>3. ConsumeInv'
    BY <1>1, <2>1 DEF Call, ConsumeInv, Recorders
  <2>4. StreamInv'
    BY <1>1, <2>1 DEF Call, StreamInv, Recorders
  <2> QED
    BY <1>0, <2>2, <2>3, <2>4
<1>2. ASSUME NEW w \in 1 .. MaxInFlight, NEW s \in Series, Update(w, s) PROVE RecordingInv'
  <2> USE DEF TypeOK
  <2>1. PICK n \in Increments(s) : metric' = [metric EXCEPT ![s] = @ + n]
    BY <1>2 DEF Update
  <2>2. n \in Nat \ {0} /\ (s # "stream_category_count" => n = 1)
    BY MetricsAssumption DEF Increments
  <2>3. at' = [at EXCEPT ![w] = After(s)] /\ at[w] = s /\ role' = role
    BY <1>2 DEF Update
  <2>4. s \in RoleSeries(role) /\ w \in Recorders
    <3>1. s # "idle"
      BY SeriesAre DEF SeriesNames
    <3>2. /\ at[w] \in RoleSeries(role) \cup {"idle"}
          /\ w \notin Recorders => at[w] = "idle"
      <4> HIDE DEF TypeOK
      <4> QED
        BY DEF RoleInv
    <3> QED
      BY <2>3, <3>1, <3>2
  <2>5. After(s) \in RoleSeries(role) \cup {"idle"}
    BY <2>4, AfterIs DEF RoleSeries
  <2>6. RoleInv'
    BY <2>1, <2>3, <2>4, <2>5 DEF RoleInv, Recorders
  <2>7. ASSUME role = "consume" PROVE ConsumeInv'
    <3>1. w = 1
      BY <2>4, <2>7 DEF Recorders
    <3>2. s \in {"pipeline_errors", "validate", "enrich", "fraud_check", "fulfill",
                 "orders_processed", "order_processing_latency"}
      BY <2>4, <2>7 DEF RoleSeries
    <3>3. at'[1] = After(s) /\ at[1] = s /\ n = 1
      BY <2>2, <2>3, <3>1, <3>2
    <3>4. \A t \in Series : metric'[t] = IF t = s THEN metric[t] + 1 ELSE metric[t]
      BY <2>1, <3>3
    <3>5. {"pipeline_errors", "validate", "enrich", "fraud_check", "fulfill",
           "orders_processed", "order_processing_latency"} \subseteq Series
      BY SeriesAre DEF SeriesNames
    <3> DEFINE old == metric
               new == metric'
               names == {"validate", "enrich", "fraud_check", "fulfill",
                         "orders_processed", "order_processing_latency"}
    <3>6. \A t \in names : old[t] \in Nat /\ new[t] = IF t = s THEN old[t] + 1 ELSE old[t]
      BY <3>4, <3>5
    <3>7. role' = "consume"
      BY <2>3, <2>7
    <3> HIDE DEF TypeOK, old, new
    <3>8. CASE s \in {"pipeline_errors", "order_processing_latency"}
      BY <2>7, <3>3, <3>6, <3>7, <3>8, AfterIs DEF ConsumeInv, Stages, old, new
    <3>9. CASE s = "orders_processed"
      BY <2>7, <3>3, <3>6, <3>7, <3>9, AfterIs DEF ConsumeInv, Stages, old, new
    <3>10. CASE s \in {"validate", "enrich"}
      BY <2>7, <3>3, <3>6, <3>7, <3>10, AfterIs DEF ConsumeInv, Stages, old, new
    <3>11. CASE s \in {"fraud_check", "fulfill"}
      BY <2>7, <3>3, <3>6, <3>7, <3>11, AfterIs DEF ConsumeInv, Stages, old, new
    <3> QED
      BY <3>2, <3>8, <3>9, <3>10, <3>11
  <2>8. ASSUME role = "stream" PROVE StreamInv'
    <3>1. w = 1
      BY <2>4, <2>8 DEF Recorders
    <3>2. s \in {"stream_records", "stream_category_count"}
      BY <2>4, <2>8 DEF RoleSeries
    <3>3. at'[1] = After(s) /\ at[1] = s
      BY <2>3, <3>1
    <3>4. {"stream_records", "stream_category_count"} \subseteq Series
      BY SeriesAre DEF SeriesNames
    <3> QED
      BY <2>1, <2>2, <2>3, <2>8, <3>2, <3>3, <3>4, AfterIs DEF StreamInv
  <2> QED
    BY <1>0, <2>3, <2>6, <2>7, <2>8 DEF ConsumeInv, StreamInv
<1>3. CASE UNCHANGED <<role, at, metric>>
  BY <1>0, <1>3 DEF RoleInv, ConsumeInv, StreamInv, Recorders
<1>4. CASE Restart
  <2>1. RoleInv'
    BY <1>4 DEF Restart, RoleInv, RoleSeries, Zero
  <2>2. ConsumeInv'
    BY <1>4, SeriesAre, MetricsAssumption DEF Restart, ConsumeInv, Zero, Stages, SeriesNames
  <2>3. StreamInv'
    BY <1>4, SeriesAre, MetricsAssumption DEF Restart, StreamInv, Zero, SeriesNames
  <2> QED
    BY <1>0, <2>1, <2>2, <2>3
<1> QED
  BY <1>1, <1>2, <1>3, <1>4
  DEF Next, vars, Publish, Process, Peek, Export, Encode, EnterFamily, LeaveFamily, EncodeFails

-----------------------------------------------------------------------------
(* The producer: each delivery is between two updates at most once.        *)

\* Those in the middle of recording are deliveries in flight.
LEMMA AtFinite ==
  \A s : /\ IsFiniteSet(At(s))
         /\ Cardinality(At(s)) \in Nat
         /\ Cardinality(At(s)) <= MaxInFlight
<1> SUFFICES ASSUME NEW s PROVE /\ IsFiniteSet(At(s))
                                /\ Cardinality(At(s)) \in Nat
                                /\ Cardinality(At(s)) <= MaxInFlight
  OBVIOUS
<1>1. IsFiniteSet(1 .. MaxInFlight) /\ Cardinality(1 .. MaxInFlight) = MaxInFlight
  BY FS_Interval, MetricsAssumption
<1>2. At(s) \subseteq 1 .. MaxInFlight
  BY DEF At
<1> QED
  BY <1>1, <1>2, FS_Subset, FS_CardinalityType

\* No delivery records yet.
LEMMA ProduceInit == Init => ProduceInv
<1> SUFFICES ASSUME Init PROVE ProduceInv
  OBVIOUS
<1>1. At("order_value_dollars") = {} /\ At("produce_latency") = {}
  BY DEF Init, At
<1>2. /\ metric["orders_produced"] = 0
      /\ metric["order_value_dollars"] = 0
      /\ metric["produce_latency"] = 0
  BY SeriesAre DEF Init, Zero, SeriesNames
<1>3. Cardinality({}) = 0
  BY FS_EmptySet
<1> QED
  BY <1>1, <1>2, <1>3 DEF ProduceInv

\* An update moves one delivery from one set to the next.
LEMMA ProduceNext == RecordingInv /\ ProduceInv /\ [Next]_vars => ProduceInv'
<1> SUFFICES ASSUME RecordingInv, ProduceInv, [Next]_vars PROVE ProduceInv'
  OBVIOUS
<1> DEFINE V == "order_value_dollars"
           L == "produce_latency"
<1>0. /\ {"orders_produced", V, L} \subseteq Series
      /\ metric["orders_produced"] \in Nat /\ metric[V] \in Nat /\ metric[L] \in Nat
  BY SeriesAre DEF RecordingInv, TypeOK, SeriesNames
<1>1. ASSUME NEW w \in 1 .. MaxInFlight, NEW s \in {"pipeline_errors", "orders_produced"},
             Call(w, s)
      PROVE  ProduceInv'
  <2>1. At(V)' = At(V) /\ At(L)' = At(L)
    BY <1>1 DEF Call, At, RecordingInv, TypeOK
  <2> QED
    BY <1>1, <2>1 DEF Call, ProduceInv
<1>2. ASSUME NEW w \in 1 .. MaxInFlight, NEW s \in Series, Update(w, s) PROVE ProduceInv'
  <2> SUFFICES ASSUME role = "produce" PROVE ProduceInv'
    BY <1>2 DEF Update, ProduceInv
  <2>1. at[w] = s /\ at' = [at EXCEPT ![w] = After(s)] /\ role' = role
    BY <1>2 DEF Update
  <2>2. s \in {"pipeline_errors", "orders_produced", V, L}
    <3>1. s # "idle"
      BY SeriesAre DEF SeriesNames
    <3>2. at[w] \in RoleSeries(role) \cup {"idle"}
      BY DEF RecordingInv, RoleInv
    <3> QED
      BY <2>1, <3>1, <3>2 DEF RoleSeries
  <2>3. metric' = [metric EXCEPT ![s] = @ + 1]
    BY <1>2, <2>2 DEF Update, Increments
  <2>4. /\ metric'["orders_produced"] = metric["orders_produced"]
                                        + (IF s = "orders_produced" THEN 1 ELSE 0)
        /\ metric'[V] = metric[V] + (IF s = V THEN 1 ELSE 0)
        /\ metric'[L] = metric[L] + (IF s = L THEN 1 ELSE 0)
    BY <1>0, <2>3 DEF RecordingInv, TypeOK
  <2>5. \A v \in 1 .. MaxInFlight : at'[v] = IF v = w THEN After(s) ELSE at[v]
    BY <2>1 DEF RecordingInv, TypeOK
  <2>6. CASE s = "pipeline_errors"
    <3>1. At(V)' = At(V) /\ At(L)' = At(L)
      BY <2>1, <2>5, <2>6, AfterIs DEF At
    <3> QED
      BY <1>0, <2>1, <2>4, <2>6, <3>1 DEF ProduceInv
  <2>7. CASE s = "orders_produced"
    <3>1. At(V)' = At(V) \cup {w} /\ At(L)' = At(L) /\ w \notin At(V)
      BY <2>1, <2>5, <2>7, AfterIs DEF At
    <3>2. Cardinality(At(V)') = Cardinality(At(V)) + 1
      BY <3>1, FS_AddElement, AtFinite
    <3> QED
      BY <1>0, <2>1, <2>4, <2>7, <3>1, <3>2, AtFinite DEF ProduceInv
  <2>8. CASE s = V
    <3>1. At(V)' = At(V) \ {w} /\ At(L)' = At(L) \cup {w} /\ w \in At(V) /\ w \notin At(L)
      BY <2>1, <2>5, <2>8, AfterIs DEF At
    <3>2. /\ Cardinality(At(V)') = Cardinality(At(V)) - 1
          /\ Cardinality(At(L)') = Cardinality(At(L)) + 1
      BY <3>1, FS_AddElement, FS_RemoveElement, AtFinite
    <3> QED
      BY <1>0, <2>1, <2>4, <2>8, <3>2, AtFinite DEF ProduceInv
  <2>9. CASE s = L
    <3>1. At(V)' = At(V) /\ At(L)' = At(L) \ {w} /\ w \in At(L)
      BY <2>1, <2>5, <2>9, AfterIs DEF At
    <3>2. Cardinality(At(L)') = Cardinality(At(L)) - 1
      BY <3>1, FS_RemoveElement, AtFinite
    <3> QED
      BY <1>0, <2>1, <2>4, <2>9, <3>1, <3>2, AtFinite DEF ProduceInv
  <2> QED
    BY <2>2, <2>6, <2>7, <2>8, <2>9
<1>3. CASE UNCHANGED <<role, at, metric>>
  BY <1>3 DEF ProduceInv, At
<1>4. CASE Restart
  <2>1. At(V)' = {} /\ At(L)' = {}
    BY <1>4 DEF Restart, At
  <2>2. metric'["orders_produced"] = 0 /\ metric'[V] = 0 /\ metric'[L] = 0
    BY <1>0, <1>4 DEF Restart, Zero
  <2>3. Cardinality({}) = 0
    BY FS_EmptySet
  <2> QED
    BY <2>1, <2>2, <2>3 DEF ProduceInv
<1>5. CASE role # "produce" /\ role' = role
  BY <1>5 DEF ProduceInv
<1>6. role' = role
  BY DEF Next, vars, Publish, Process, Peek, Call, Update, Export, Encode, EnterFamily,
         LeaveFamily, EncodeFails, Restart
<1> QED
  BY <1>1, <1>2, <1>3, <1>4, <1>5, <1>6
  DEF Next, vars, Publish, Process, Peek, Export, Encode, EnterFamily, LeaveFamily, EncodeFails

-----------------------------------------------------------------------------
(* The pages.                                                              *)

PagesInv == /\ RecordingInv
            /\ ProduceInv
            /\ \A s \in Stages : PairInv("orders_processed", s, 0)
            /\ PairInv("orders_processed", "order_processing_latency", 1)
            /\ PairInv("orders_produced", "order_value_dollars", MaxInFlight)
            /\ PairInv("order_value_dollars", "produce_latency", MaxInFlight)
            /\ PairInv("stream_records", "stream_category_count", 1)

\* The series the theorems name are among those registered.
LEMMA Names == /\ Stages \subseteq Series
               /\ {"orders_processed", "order_processing_latency", "orders_produced",
                   "order_value_dollars", "produce_latency", "stream_records",
                   "stream_category_count"} \subseteq Series
  BY SeriesAre DEF SeriesNames, Stages

\* How far two series of a process are apart at any moment.
LEMMA Gaps == RecordingInv /\ ProduceInv =>
  /\ \A s \in Stages : metric["orders_processed"] <= metric[s] + 0
  /\ metric["orders_processed"] <= metric["order_processing_latency"] + 1
  /\ metric["orders_produced"] <= metric["order_value_dollars"] + MaxInFlight
  /\ metric["order_value_dollars"] <= metric["produce_latency"] + MaxInFlight
  /\ metric["stream_records"] <= metric["stream_category_count"] + 1
<1> SUFFICES ASSUME RecordingInv, ProduceInv
             PROVE  /\ \A s \in Stages : metric["orders_processed"] <= metric[s] + 0
                    /\ metric["orders_processed"] <= metric["order_processing_latency"] + 1
                    /\ metric["orders_produced"] <= metric["order_value_dollars"] + MaxInFlight
                    /\ metric["order_value_dollars"] <= metric["produce_latency"] + MaxInFlight
                    /\ metric["stream_records"] <= metric["stream_category_count"] + 1
  OBVIOUS
<1>0. \A s \in Series : metric[s] \in Nat
  BY DEF RecordingInv, TypeOK
<1>1. role # "consume" => metric["orders_processed"] = 0
  BY Names DEF RecordingInv, TypeOK, RoleInv, RoleSeries
<1>2. role # "produce" => metric["orders_produced"] = 0 /\ metric["order_value_dollars"] = 0
  BY Names DEF RecordingInv, TypeOK, RoleInv, RoleSeries
<1>3. role # "stream" => metric["stream_records"] = 0
  BY Names DEF RecordingInv, TypeOK, RoleInv, RoleSeries
<1>4. \A s \in Stages : metric["orders_processed"] <= metric[s] + 0
  BY <1>0, <1>1, Names DEF RecordingInv, ConsumeInv
<1>5. metric["orders_processed"] <= metric["order_processing_latency"] + 1
  BY <1>0, <1>1, Names DEF RecordingInv, ConsumeInv
<1>6. metric["stream_records"] <= metric["stream_category_count"] + 1
  BY <1>0, <1>3, Names DEF RecordingInv, StreamInv
<1>7. /\ metric["orders_produced"] <= metric["order_value_dollars"] + MaxInFlight
      /\ metric["order_value_dollars"] <= metric["produce_latency"] + MaxInFlight
  BY <1>0, <1>2, Names, AtFinite, MetricsAssumption DEF ProduceInv
<1> QED
  BY <1>4, <1>5, <1>6, <1>7

\* Nothing is recorded and no page was served.
LEMMA PagesInit == Init => PagesInv
  BY PairInit, Names, RecordingInit, ProduceInit, MetricsAssumption DEF PagesInv

\* Each pair keeps its gap in the process and so on the page.
LEMMA PagesNext == PagesInv /\ [Next]_vars => PagesInv'
<1> SUFFICES ASSUME PagesInv, [Next]_vars PROVE PagesInv'
  OBVIOUS
<1> USE DEF PagesInv
<1>0. RecordingInv' /\ ProduceInv' /\ TypeOK
  BY RecordingNext, ProduceNext DEF RecordingInv
<1>1. ASSUME NEW s \in Stages PROVE PairInv("orders_processed", s, 0)'
  BY <1>0, <1>1, Gaps, Order, Names, PairNext
<1>2. PairInv("orders_processed", "order_processing_latency", 1)'
  BY <1>0, Gaps, Order, Names, PairNext
<1>3. PairInv("orders_produced", "order_value_dollars", MaxInFlight)'
  BY <1>0, Gaps, Order, Names, PairNext, MetricsAssumption
<1>4. PairInv("order_value_dollars", "produce_latency", MaxInFlight)'
  BY <1>0, Gaps, Order, Names, PairNext, MetricsAssumption
<1>5. PairInv("stream_records", "stream_category_count", 1)'
  BY <1>0, Gaps, Order, Names, PairNext
<1> QED
  BY <1>0, <1>1, <1>2, <1>3, <1>4, <1>5

\* PagesInv holds of every reachable state.
LEMMA PagesHold == Spec => []PagesInv
<1> QED
  BY PagesInit, PagesNext, PTL DEF Spec

\* No page of the consumer shows an outcome whose stages it does not show
\* (process_decoded_order, main.rs:1301-1340).
THEOREM OutcomesHaveStages == Spec => []ProcessedHaveStages
<1>1. PagesInv => ProcessedHaveStages
  <2> SUFFICES ASSUME PagesInv, Served PROVE
        /\ \A s \in Stages : page["orders_processed"] <= page[s]
        /\ page["orders_processed"] <= page["order_processing_latency"] + 1
    BY DEF ProcessedHaveStages
  <2>1. ASSUME NEW s \in Stages PROVE page["orders_processed"] <= page[s] + 0
    BY <2>1 DEF PagesInv, PairInv, Encoded, Served
  <2>2. \A s \in Stages : page[s] \in Nat
    BY Names DEF PagesInv, RecordingInv, TypeOK
  <2> QED
    BY <2>1, <2>2 DEF PagesInv, PairInv, Encoded, Served
<1> QED
  BY <1>1, PagesHold, PTL

\* A page of the producer is at most the deliveries in flight short of values
\* and latencies, whatever --producer-max-in-flight is (record_produced).
THEOREM ProducedPagesAgree == Spec => []ProducedHaveValues
<1>1. PagesInv => ProducedHaveValues
  BY DEF PagesInv, PairInv, Encoded, Served, ProducedHaveValues
<1> QED
  BY <1>1, PagesHold, PTL

\* The counts on a page of the streams role cover its records (record_stream).
THEOREM StreamPagesAgree == Spec => []CountsCoverRecords
<1>1. PagesInv => CountsCoverRecords
  BY DEF PagesInv, PairInv, Encoded, Served, CountsCoverRecords
<1> QED
  BY <1>1, PagesHold, PTL

=============================================================================
