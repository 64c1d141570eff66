---------------------------- MODULE OrderPolicy ----------------------------
(***************************************************************************)
(* The pure rules of the demo: the generator order_at, the outcome of an   *)
(* order and the simulated work of its stages (lib.rs, pipeline.rs), and   *)
(* the walk of one life of the producer through the generator, each order  *)
(* processed as process_decoded_order does.                                *)
(*                                                                         *)
(* Names are positions in their tables, an order's id is its index (what   *)
(* formatting it and parsing it again give), amounts are in cents, times   *)
(* in units of 50 us.  The currency, a constant, and ts_ms, the index once *)
(* more, are left out.                                                     *)
(***************************************************************************)
EXTENDS Naturals, FiniteSets

CONSTANTS Work,            \* StageWork: the simulated work of each stage
          SlowNum, SlowDen, \* --slow-order-fraction as a quotient
          MaxIndex         \* bound on the orders of the walk

ASSUME PolicyAssumption ==
  /\ Work \in [{"validate", "enrich", "fraud_check", "fulfill"} -> Nat]
  /\ SlowNum \in Nat /\ SlowDen \in Nat \ {0} /\ SlowNum <= SlowDen
  /\ MaxIndex \in Nat

VARIABLES index, \* the order to come
          seen,  \* the labels of orders_processed so far
          busy   \* the simulated work so far

vars == <<index, seen, busy>>

CATEGORIES == 0 .. 4
REGIONS == 0 .. 3
Outcomes == {"anomalous", "fraud_rejected", "fulfilled"}
Crypto == 3  \* the position of "crypto" in PAYMENT_METHODS
Second == 20000

-----------------------------------------------------------------------------
(* Slips for the mutation checks.                                          *)

RegionsByProduct(i) == [order_id |-> i, category |-> i % 5,
  region |-> (i * 2) % 4, warehouse |-> (i * 2) % 4, payment_method |-> (i \div 3) % 4,
  customer_tier |-> (i \div 7) % 3, quantity |-> 1 + (i % 5),
  amount |-> IF i % 17 = 0 THEN 0 ELSE (i % 200) * 100 + 99]
SlowBelowWholeSlots(order_index) ==
  order_index % 10000 < (SlowNum * 10000) \div SlowDen

-----------------------------------------------------------------------------

order_at(i) == [order_id |-> i, category |-> i % 5,
  region |-> (i \div 2) % 4, warehouse |-> (i \div 2) % 4, payment_method |-> (i \div 3) % 4,
  customer_tier |-> (i \div 7) % 3, quantity |-> 1 + (i % 5),
  amount |-> IF i % 17 = 0 THEN 0 ELSE (i % 200) * 100 + 99]

is_anomalous(order) == order.amount = 0

is_suspicious(order) == order.payment_method = Crypto /\ order.amount > 15000

classify_outcome(order) == IF is_anomalous(order) THEN "anomalous"
                           ELSE IF is_suspicious(order) THEN "fraud_rejected"
                           ELSE "fulfilled"

\* slot / 10000 < fraction, for a fraction in 0 .. 1.  The code compares f64, here
\* the quotients are exact: rounding being monotone, the two differ only where a
\* slot's quotient is below the fraction and both round to the same f64.
inject_latency(order_index) ==
  SlowNum > 0 /\ (order_index % 10000) * SlowDen < SlowNum * 10000

stage_delay(stage, order_index) ==
  Work[stage] + IF inject_latency(order_index) THEN (30 * Second) \div 1000 ELSE 0

\* process_order: what the four stages of an order take, one after the other.
process_order(order) ==
  stage_delay("validate", order.order_id) + stage_delay("enrich", order.order_id)
    + stage_delay("fraud_check", order.order_id) + stage_delay("fulfill", order.order_id)

-----------------------------------------------------------------------------

Init == index = 0 /\ seen = {} /\ busy = 0

\* process_decoded_order for the next order of the generator: its stages, then
\* its outcome under the labels of orders_processed.
ProcessNext ==
  LET order == order_at(index)
  IN  /\ index < MaxIndex
      /\ busy' = busy + process_order(order)
      /\ seen' = seen \cup {<<order.category, order.region, classify_outcome(order)>>}
      /\ index' = index + 1

\* The bound on the walk ends the model.
End == index = MaxIndex /\ UNCHANGED vars

Next == ProcessNext \/ End

Spec == Init /\ [][Next]_vars

-----------------------------------------------------------------------------
(* Properties.                                                             *)

Ceiling(a, b) == (a + b - 1) \div b

\* Of each 10000 orders of a life the first so many are slow that their share
\* is the fraction given, rounded up (stage_delay, pipeline.rs:90-110;
\* "Deterministic fraction of orders", main.rs:163).  Slow orders take 120 ms
\* more, spread over the four stages, and no other order takes more than Work.
SlowShare ==
  LET run == Ceiling(SlowNum * 10000, SlowDen)
      inWindow == index % 10000
      slow == (index \div 10000) * run + IF inWindow < run THEN inWindow ELSE run
  IN  busy = index * (Work["validate"] + Work["enrich"] + Work["fraud_check"] + Work["fulfill"])
               + slow * ((120 * Second) \div 1000)

\* "The pipeline emits a broad spread of ... metric label combinations"
\* (lib.rs:79-82): within 1162 orders every category has had every outcome in
\* every region, although the three depend on one index.  No other label ever
\* appears, so the family stays at 60 series, below the 500 the cardinality
\* alert allows (platform-alerts.yaml:177).
EveryLabelAppears ==
  /\ seen \subseteq CATEGORIES \X REGIONS \X Outcomes
  /\ index >= 1162 => Cardinality(seen) = 60

=============================================================================
