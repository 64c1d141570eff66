---------------------------- MODULE DemoMetrics ----------------------------
(***************************************************************************)
(* The business metrics of one process, whichever its role: metrics.rs and *)
(* the places of main.rs that record.                                      *)
(*                                                                         *)
(* Recording takes no lock: a record_* call updates one series after the   *)
(* other, on the threads of the deliveries, while a scrape encodes the     *)
(* families in the order of their registration.  The registry's mutex only *)
(* keeps two scrapes apart.  A page served is therefore no state the       *)
(* process has ever been in; the properties say what holds in it all the   *)
(* same, by the orders in which series are updated and encoded.            *)
(*                                                                         *)
(* Of a family with labels the total over its labels is kept: its series   *)
(* are encoded one by one, so the total on the page lies anywhere between  *)
(* the totals at the first and at the last of them.  The four stages are   *)
(* series of their own here, of a histogram its count.  Label values and   *)
(* the text format are left out, and so is /build, which has no state.     *)
(***************************************************************************)
EXTENDS Naturals

CONSTANTS MaxInFlight, \* --producer-max-in-flight
          MaxCount     \* bound on each metric

ASSUME MetricsAssumption == MaxInFlight \in Nat \ {0} /\ MaxCount \in Nat

VARIABLES role,    \* the role of the process
          at,      \* the series each task that records is to update next, or "idle"
          metric,  \* the value of each series since the process started
          page,    \* what the scrape in progress, or the last one, has encoded
          unread,  \* the series it has still to encode
          inside   \* the family with labels it is in the middle of, or "none"

vars == <<role, at, metric, page, unread, inside>>

Stages == {"validate", "enrich", "fraud_check", "fulfill"}

-----------------------------------------------------------------------------
(* Slips for the mutation checks.                                          *)

StagesBeforeOutcomes == [orders_produced |-> 1, order_value_dollars |-> 2,
  produce_latency |-> 3, orders_processed |-> 5,
  validate |-> 4, enrich |-> 4, fraud_check |-> 4, fulfill |-> 4,
  order_processing_latency |-> 6, pipeline_errors |-> 7,
  stream_records |-> 8, stream_category_count |-> 9]
ForgetValue == [orders_produced |-> "produce_latency",
                order_value_dollars |-> "produce_latency", produce_latency |-> "idle"]
ForgetGauge == [stream_records |-> "idle", stream_category_count |-> "idle"]

-----------------------------------------------------------------------------

\* DemoMetrics::new(): the order in which the families are registered.
Registered == [orders_produced |-> 1, order_value_dollars |-> 2,
  produce_latency |-> 3, orders_processed |-> 4,
  validate |-> 5, enrich |-> 5, fraud_check |-> 5, fulfill |-> 5,
  order_processing_latency |-> 6, pipeline_errors |-> 7,
  stream_records |-> 8, stream_category_count |-> 9]

Series == DOMAIN Registered
Labelled == {"orders_produced", "orders_processed", "pipeline_errors", "stream_category_count"}

\* What each function updates after what.
RecordProduced == [orders_produced |-> "order_value_dollars",
                   order_value_dollars |-> "produce_latency", produce_latency |-> "idle"]
RecordError == [pipeline_errors |-> "idle"]
RecordStream == [stream_records |-> "stream_category_count", stream_category_count |-> "idle"]
ProcessOrder == [validate |-> "enrich", enrich |-> "fraud_check", fraud_check |-> "fulfill",
                 fulfill |-> "orders_processed"]
RecordProcessed == [orders_processed |-> "order_processing_latency",
                    order_processing_latency |-> "idle"]
After(s) == CASE s \in DOMAIN RecordProduced -> RecordProduced[s]
              [] s \in DOMAIN RecordError -> RecordError[s]
              [] s \in DOMAIN RecordStream -> RecordStream[s]
              [] s \in DOMAIN ProcessOrder -> ProcessOrder[s]
              [] s \in DOMAIN RecordProcessed -> RecordProcessed[s]

\* The tasks that record: deliveries run side by side, the loop of the consumer
\* and the one task of the topology (its topic has one partition) do not.
Recorders == IF role = "produce" THEN 1 .. MaxInFlight ELSE {1}

Zero == [s \in Series |-> 0]

Init == /\ role \in {"produce", "consume", "stream"}
        /\ at = [w \in 1 .. MaxInFlight |-> "idle"]
        /\ metric = Zero
        /\ page = Zero
        /\ unread = {}
        /\ inside = "none"

\* Task w gets to a call that records, the first update of which is next.
Call(w, s) == /\ w \in Recorders
              /\ at[w] = "idle"
              /\ at' = [at EXCEPT ![w] = s]
              /\ UNCHANGED <<role, metric, page, unread, inside>>

\* publish_order: a send() has failed, or was acknowledged.
Publish(w) == role = "produce" /\ \E s \in {"pipeline_errors", "orders_produced"} : Call(w, s)

\* process_order_inner: the record has no order in it, or goes through the stages.
Process(w) == role = "consume" /\ \E s \in {"pipeline_errors", "validate"} : Call(w, s)

\* run_stream's peek() is given the new count of a category.
Peek(w) == role = "stream" /\ Call(w, "stream_records")

\* By how much an update raises its series.  A category's count has grown by
\* one or, the store's cache keeping counts back, more since it was last set.
Increments(s) == IF s = "stream_category_count" THEN 1 .. MaxCount ELSE {1}

\* One inc(), observe() or set() of a record_* function.
Update(w, s) == /\ at[w] = s
                /\ \E n \in Increments(s) : /\ metric[s] + n <= MaxCount
                                            /\ metric' = [metric EXCEPT ![s] = @ + n]
                /\ at' = [at EXCEPT ![w] = After(s)]
                /\ UNCHANGED <<role, page, unread, inside>>

-----------------------------------------------------------------------------

\* export() has the registry's lock and starts with an empty buffer.
Export == /\ unread = {}
          /\ unread' = Series
          /\ page' = Zero
          /\ UNCHANGED <<role, at, metric, inside>>

\* The encoder has reached series s: those of the families before are written.
Reached(s) == /\ s \in unread
              /\ inside = "none"
              /\ \A t \in unread : Registered[s] <= Registered[t]

\* External: it writes a counter or a histogram.
Encode(s) == /\ Reached(s) /\ s \notin Labelled
             /\ page' = [page EXCEPT ![s] = metric[s]]
             /\ unread' = unread \ {s}
             /\ UNCHANGED <<role, at, metric, inside>>

\* External: it writes the first series of a family with labels, and the last.
EnterFamily(s) == /\ Reached(s) /\ s \in Labelled
                  /\ page' = [page EXCEPT ![s] = metric[s]]
                  /\ inside' = s
                  /\ UNCHANGED <<role, at, metric, unread>>

LeaveFamily == /\ inside # "none"
               /\ \E n \in page[inside] .. metric[inside] : page' = [page EXCEPT ![inside] = n]
               /\ unread' = unread \ {inside}
               /\ inside' = "none"
               /\ UNCHANGED <<role, at, metric>>

\* export() answers with an error in place of the buffer.
EncodeFails == /\ unread # {}
               /\ unread' = {}
               /\ page' = Zero
               /\ inside' = "none"
               /\ UNCHANGED <<role, at, metric>>

\* The process is killed and started again, with a registry of its own.
Restart == /\ at' = [w \in 1 .. MaxInFlight |-> "idle"]
           /\ metric' = Zero
           /\ page' = Zero
           /\ unread' = {}
           /\ inside' = "none"
           /\ UNCHANGED role

Next == \/ \E w \in 1 .. MaxInFlight : \/ Publish(w) \/ Process(w) \/ Peek(w)
                                       \/ \E s \in Series : Update(w, s)
        \/ Export
        \/ \E s \in Series : Encode(s) \/ EnterFamily(s)
        \/ LeaveFamily \/ EncodeFails
        \/ Restart

Spec == Init /\ [][Next]_vars

-----------------------------------------------------------------------------
(* Properties.                                                             *)

TypeOK == /\ role \in {"produce", "consume", "stream"}
          /\ at \in [1 .. MaxInFlight -> Series \cup {"idle"}]
          /\ metric \in [Series -> Nat]
          /\ page \in [Series -> Nat]
          /\ unread \subseteq Series
          /\ inside \in Labelled \cup {"none"}
          /\ inside # "none" => inside \in unread

Served == unread = {}

\* A page never shows more processed orders than orders through any one stage,
\* and at most one more than processing times: the stages of an order are
\* observed before its outcome is counted (main.rs:1326-1340), and the outcomes
\* are encoded before the stages (metrics.rs:137-146).
ProcessedHaveStages == Served =>
  /\ \A s \in Stages : page["orders_processed"] <= page[s]
  /\ page["orders_processed"] <= page["order_processing_latency"] + 1

\* A page misses the value, or the latency, of at most as many produced orders
\* as deliveries may be in flight: a delivery counts its order first and is
\* between two updates of record_produced only once (metrics.rs:204-221).
ProducedHaveValues == Served =>
  /\ page["orders_produced"] <= page["order_value_dollars"] + MaxInFlight
  /\ page["order_value_dollars"] <= page["produce_latency"] + MaxInFlight

\* A page shows at most one more record of the topology than the categories'
\* counts add up to, after a restart too, when the counts are restored and the
\* number of records is not (record_stream, metrics.rs:192-199).
CountsCoverRecords == Served =>
  page["stream_records"] <= page["stream_category_count"] + 1

=============================================================================
