--------------------------- MODULE OrderConsumer ---------------------------
(***************************************************************************)
(* The traced order processor: run_consume of main.rs, the handling of a   *)
(* record, shutdown_signal, and main's flush of the telemetry after it.    *)
(*                                                                         *)
(* Each turn of the loop makes a new shutdown_signal() future, whose       *)
(* listener is registered when the select first polls it and dropped with  *)
(* the select.  tokio keeps its process-wide handler once a listener was   *)
(* registered, and its driver tells the listeners there are then of a      *)
(* signal, so one that finds none is swallowed.  Before that the default   *)
(* action ends the process, or does nothing to PID 1 of a container.  The  *)
(* select is not biased: it polls its branches in a random order.          *)
(*                                                                         *)
(* External: the topic, which other roles append to; poll(), which hands   *)
(* out the next records in order, nothing after its timeout, or an error;  *)
(* close(), which leaves the group.  Offsets, spans and the simulated work *)
(* of the four stages are left out.                                        *)
(***************************************************************************)
EXTENDS Naturals, Sequences, FiniteSets

CONSTANTS MaxRecords, \* bound on the records that reach the topic
          MaxBatch    \* records one poll hands out at most

ASSUME ConsumerAssumption == MaxRecords \in Nat /\ MaxBatch \in Nat \ {0}

VARIABLES pc,        \* where run_consume, then main, has got to
          handler,   \* tokio's handler for the signals is installed
          raised,    \* a signal came that the driver has not passed on yet
          listener,  \* of this select: "none", "armed", or "fired"
          topic,     \* external: what the records' values are, in offset order
          start,     \* offset the group starts from
          position,  \* offset after the records that poll has handed out
          handled,   \* offset after the records the loop is done with
          counted    \* the metrics: one counter for each way a record ends

vars == <<pc, handler, raised, listener, topic, start, position, handled, counted>>

Value == {"order", "garbage", "none"}
Ending == {"processed", "deserialize", "missing_value"}
Stopped == pc \in {"exited", "failed", "killed"}

-----------------------------------------------------------------------------
(* Slips for the mutation checks.                                          *)

NoValueIsGarbage(value) == IF value = "order" THEN "processed" ELSE "deserialize"
StopOnBadRecord == IF topic[handled + 1] = "order" THEN "processing" ELSE "select"
HearAlways(l) == "fired"

-----------------------------------------------------------------------------

\* decode_order: the error it returns, or Ok.
decode_order(value) == CASE value = "none" -> "MissingValue"
                         [] value = "garbage" -> "Deserialize"
                         [] value = "order" -> "Ok"

\* process_order_inner: the counter in which the record with this value ends.
EndOf(value) == CASE decode_order(value) = "MissingValue" -> "missing_value"
                  [] decode_order(value) = "Deserialize" -> "deserialize"
                  [] OTHER -> "processed"

\* Where the loop is after handling a record of the batch.
AfterRecord == IF handled + 1 = position THEN "select" ELSE "processing"

\* Where the select's shutdown branch leads.
AfterSignal == "closing"

\* A signal passed on reaches a listener that exists, or is swallowed.
Hear(l) == IF l = "armed" THEN "fired" ELSE l

Init == /\ pc = "startup"
        /\ handler = FALSE
        /\ raised = FALSE
        /\ listener = "none"
        /\ topic = <<>>
        /\ start = 0
        /\ position = 0
        /\ handled = 0
        /\ counted = [e \in Ending |-> 0]

\* External: a record reaches the topic.
Produce(value) == /\ Len(topic) < MaxRecords
                  /\ topic' = Append(topic, value)
                  /\ UNCHANGED <<pc, handler, raised, listener, start, position, handled, counted>>

\* The environment sends SIGINT or SIGTERM, any number of times.
Signal ==
  /\ ~Stopped
  /\ IF handler THEN raised' = TRUE /\ UNCHANGED pc
                ELSE pc' \in {pc, "killed"} /\ UNCHANGED raised
  /\ UNCHANGED <<handler, listener, topic, start, position, handled, counted>>

\* tokio's signal driver tells the listener of this moment, if there is one.
Notify == /\ raised /\ ~Stopped
          /\ raised' = FALSE
          /\ listener' = Hear(listener)
          /\ UNCHANGED <<pc, handler, topic, start, position, handled, counted>>

\* order_serde and Consumer::builder: an error ends main before the loop.  The
\* group starts where it had committed or where --auto-offset-reset says.
Start == /\ pc = "startup"
         /\ pc' \in {"select", "failed"}
         /\ start' \in 0 .. Len(topic)
         /\ position' = start' /\ handled' = start'
         /\ UNCHANGED <<handler, raised, listener, topic, counted>>

\* The select polls its shutdown branch, which registers the listener; poll()
\* was not ready before, or is polled next.
Arm == /\ pc = "select"
       /\ pc' = "waiting"
       /\ handler' = TRUE
       /\ listener' = "armed"
       /\ UNCHANGED <<raised, topic, start, position, handled, counted>>

\* poll() is ready with n records: before the shutdown branch was polled at
\* all, or while the select waits, whether or not a signal is there as well.
PollReturns(n) ==
  /\ \/ pc = "select" /\ n > 0
     \/ pc = "waiting"
  /\ position + n <= Len(topic)
  /\ position' = position + n
  /\ pc' = IF n = 0 THEN "select" ELSE "processing"
  /\ listener' = "none"
  /\ UNCHANGED <<handler, raised, topic, start, handled, counted>>

\* poll() returns an error: `?` leaves run_consume, and main, at once.
PollFails == /\ pc \in {"select", "waiting"}
             /\ pc' = "failed"
             /\ listener' = "none"
             /\ UNCHANGED <<handler, raised, topic, start, position, handled, counted>>

\* The shutdown branch wins the select.
StopOnSignal == /\ pc = "waiting"
                /\ listener = "fired"
                /\ pc' = AfterSignal
                /\ listener' = "none"
                /\ UNCHANGED <<handler, raised, topic, start, position, handled, counted>>

\* process_order_record: the record ends in one of the counters; a bad record
\* does not end the batch.
HandleRecord ==
  /\ pc = "processing"
  /\ handled < position
  /\ handled' = handled + 1
  /\ counted' = [counted EXCEPT ![EndOf(topic[handled + 1])] = @ + 1]
  /\ pc' = AfterRecord
  /\ UNCHANGED <<handler, raised, listener, topic, start, position>>

\* consumer.close() leaves the group, then main flushes the telemetry; an
\* error of close() ends main before the flush.
Close == /\ pc = "closing"
         /\ pc' \in {"flushing", "failed"}
         /\ UNCHANGED <<handler, raised, listener, topic, start, position, handled, counted>>

Flush == /\ pc = "flushing"
         /\ pc' = "exited"
         /\ UNCHANGED <<handler, raised, listener, topic, start, position, handled, counted>>

\* The process is gone.
Terminated == Stopped /\ UNCHANGED vars

Step == \/ Start \/ Arm \/ PollFails \/ StopOnSignal \/ HandleRecord \/ Close \/ Flush
        \/ \E n \in 0 .. MaxBatch : PollReturns(n)

Next == \/ Step
        \/ \E value \in Value : Produce(value)
        \/ Signal
        \/ Notify
        \/ Terminated

(***************************************************************************)
(* Fairness: the process and tokio's signal driver run; poll() hands out   *)
(* records that are there again and again in the end; and a random choice  *)
(* made again and again between a ready record and a received signal takes *)
(* the signal in the end.  Records and signals are the environment's and   *)
(* not fair.                                                               *)
(***************************************************************************)
Fairness == /\ WF_vars(Step) /\ WF_vars(Notify)
            /\ SF_vars(\E n \in 1 .. MaxBatch : PollReturns(n))
            /\ SF_vars(StopOnSignal)

Spec == Init /\ [][Next]_vars
FairSpec == Spec /\ Fairness

-----------------------------------------------------------------------------

\* The variables stay in their domains, no record is handled that poll() did
\* not hand out, and a listener exists exactly while the select waits.
TypeOK == /\ pc \in {"startup", "select", "waiting", "processing", "closing", "flushing",
                     "exited", "failed", "killed"}
          /\ handler \in BOOLEAN /\ raised \in BOOLEAN
          /\ listener \in {"none", "armed", "fired"}
          /\ Len(topic) <= MaxRecords
          /\ position \in 0 .. Len(topic)
          /\ handled \in start .. position
          /\ start \in Nat
          /\ pc = "waiting" <=> listener # "none"
          /\ counted \in [Ending -> Nat]

\* Every handled record is in exactly one of the counters, the one its value
\* calls for: a bad record in a batch neither hides a good one nor is hidden.
EveryRecordCounted ==
  \A value \in Value :
    counted[EndOf(value)] = Cardinality({n \in start + 1 .. handled : topic[n] = value})

\* A batch is never cut short by a bad record, nor by a signal once a handler
\* exists: whenever the loop is not inside a batch, and so when it polls again,
\* closes and flushes, every record that poll() has handed out was handled.
BatchesAreFinished == pc \notin {"processing", "killed"} => handled = position

\* Records keep flowing: whatever arrives is handled unless the process ends,
\* bad records and lost signals notwithstanding.
RecordsAreHandled == \A n \in 1 .. MaxRecords : Len(topic) >= n ~> handled >= n \/ Stopped

\* "docker compose stop sends SIGTERM; ... the consumer and Streams roles leave
\* their groups before telemetry flushes" (operator-guide.md): one signal is
\* enough.  The loop loses a signal that is passed on while no listener exists,
\* or together with records.
OneSignalStops == raised ~> Stopped
=============================================================================
