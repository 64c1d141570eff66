--------------------------- MODULE OrderDelivery ---------------------------
(***************************************************************************)
(* What a delivery task of the producer does: publish_order and            *)
(* send_with_retry of main.rs, run for every admitted order beside the     *)
(* loop of ProducerScheduler, against the orders topic.                    *)
(*                                                                         *)
(* The broker and the client are external: a send() that returns Ok has    *)
(* been appended (acks = all); one that returns Err may have been, its     *)
(* answer lost.  A record is keyed by its category, so the topic is one    *)
(* sequence per category.  Assumed of the client: a send() that has        *)
(* returned Err is not appended later.  Headers, spans, latency and the    *)
(* serialized value are left out.                                          *)
(***************************************************************************)
EXTENDS ProducerScheduler, Sequences

CONSTANT MaxAttempts \* the 3 of send_with_retry
ASSUME AttemptsAssumption == MaxAttempts \in Nat \ {0}

VARIABLES attempt,     \* the attempt each delivery makes next or is making
          appended,    \* the current attempt has reached the topic
          log,         \* external: the orders topic, by category
          send_errors, \* pipeline_errors_total, kind producer_send
          produced     \* the orders counted by record_produced

deliveryVars == <<attempt, appended, log, send_errors, produced>>
allVars == <<vars, deliveryVars>>

-----------------------------------------------------------------------------
(* Slips for the mutation checks.                                          *)

UnackedAnswer(i) == TRUE
RetryOnceMore(i) == attempt[i] <= MaxAttempts
ProducedPerAttempt(i) == attempt[i]
ErrorsOfExhaustedSends(i) == IF attempt[i] = MaxAttempts THEN 1 ELSE 0

\* The key is given back between two attempts.
RetryReleasingKey(i) ==
  /\ i \in pending /\ task[i] = "running" /\ attempt[i] < MaxAttempts
  /\ attempt' = [attempt EXCEPT ![i] = @ + 1]
  /\ appended' = [appended EXCEPT ![i] = FALSE]
  /\ send_errors' = send_errors + 1
  /\ active_keys' = Release(active_keys, i)
  /\ UNCHANGED <<branch, signalled, index, pending, task, report, task_error, last_index, log,
                 produced>>

-----------------------------------------------------------------------------

\* The broker answers Ok once the current attempt is in the topic.
Acknowledged(i) == appended[i]

\* The for loop has attempts left after this one.
RetriesLeft(i) == attempt[i] < MaxAttempts

\* record_error(ProducerSend): one for each attempt that fails.
ErrorsCounted(i) == 1

\* record_produced: one for each order whose send succeeded.
ProducedCounted(i) == 1

DeliveryInit == /\ Init
                /\ attempt = [i \in Orders |-> 1]
                /\ appended = [i \in Orders |-> FALSE]
                /\ log = [k \in Categories |-> <<>>]
                /\ send_errors = 0
                /\ produced = 0

Running(i) == i \in pending /\ task[i] = "running"

\* The current send() reaches the topic's leader and its replicas.
BrokerAppend(i) ==
  /\ Running(i)
  /\ ~appended[i]
  /\ log' = [log EXCEPT ![CategoryOf(i)] = Append(@, i)]
  /\ appended' = [appended EXCEPT ![i] = TRUE]
  /\ UNCHANGED <<vars, attempt, send_errors, produced>>

\* send() returns Ok: the order is counted as produced and the delivery ends.
SendSucceeds(i) ==
  /\ Acknowledged(i)
  /\ produced' = produced + ProducedCounted(i)
  /\ EndTask(i, "acked")
  /\ UNCHANGED <<attempt, appended, log, send_errors>>

\* send() returns Err, whether or not the record was appended, and the loop
\* sends the same record again at once.
Retry(i) ==
  /\ Running(i)
  /\ RetriesLeft(i)
  /\ attempt' = [attempt EXCEPT ![i] = @ + 1]
  /\ appended' = [appended EXCEPT ![i] = FALSE]
  /\ send_errors' = send_errors + ErrorsCounted(i)
  /\ UNCHANGED <<vars, log, produced>>

\* The last attempt returns Err: publish_order returns false.
GiveUp(i) ==
  /\ ~RetriesLeft(i)
  /\ send_errors' = send_errors + ErrorsCounted(i)
  /\ EndTask(i, "failed")
  /\ UNCHANGED <<attempt, appended, log, produced>>

\* The delivery future panics (in the client or in a callback of its own).
Panic(i) == EndTask(i, "panicked") /\ UNCHANGED deliveryVars

DeliveryNext ==
  \/ (Loop \/ Signal \/ Terminated) /\ UNCHANGED deliveryVars
  \/ \E i \in pending : \/ BrokerAppend(i)
                        \/ SendSucceeds(i)
                        \/ Retry(i)
                        \/ GiveUp(i)
                        \/ Panic(i)

\* The client answers every send() in the end; the broker owes nothing.
DeliveryFairness ==
  /\ WF_allVars(Loop /\ UNCHANGED deliveryVars)
  /\ SF_allVars(SkipReporting /\ UNCHANGED deliveryVars)
  /\ SF_allVars(Admit /\ UNCHANGED deliveryVars)
  /\ \A i \in Orders : WF_allVars(SendSucceeds(i) \/ Retry(i) \/ GiveUp(i))

DeliverySpec == DeliveryInit /\ [][DeliveryNext]_allVars
FairDeliverySpec == DeliverySpec /\ DeliveryFairness

-----------------------------------------------------------------------------

Logged(i) == {n \in DOMAIN log[CategoryOf(i)] : log[CategoryOf(i)][n] = i}

\* The variables stay in their domains; a delivery never makes more than
\* MaxAttempts attempts, and a category's log holds its own orders only.
DeliveryTypeOK ==
  /\ attempt \in [Orders -> 1 .. MaxAttempts]
  /\ appended \in [Orders -> BOOLEAN]
  /\ \A k \in Categories : \A n \in DOMAIN log[k] : CategoryOf(log[k][n]) = k
  /\ send_errors \in Nat /\ produced \in Nat

\* "Each category stays ordered" (help of --producer-max-in-flight): in the
\* topic, the orders of a category appear in generator order, and the copies
\* that retries after a lost answer leave behind are next to each other.
TopicKeyOrder == \A k \in Categories : \A m, n \in DOMAIN log[k] :
                   m <= n => log[k][m] <= log[k][n]

\* An order reported as delivered is in the topic, and no delivery leaves
\* more copies than the attempts it made.
AcknowledgedIsLogged ==
  \A i \in Orders : /\ task[i] = "acked" => Logged(i) # {}
                    /\ Cardinality(Logged(i)) <= attempt[i]

\* The attempts that have returned Err: all before the current one of each
\* order, and that one too when the order was given up.
FailedAttempts ==
  {at \in Orders \X (1 .. MaxAttempts) :
     at[2] < attempt[at[1]] \/ (task[at[1]] = "failed" /\ at[2] = attempt[at[1]])}

\* The error counter counts failed attempts, not failed orders: an order that is
\* acknowledged on its second attempt has added one (send_with_retry, and its
\* test).  DESIGN.md says otherwise, "exhausted producer sends ... increment
\* krabka_demo_pipeline_errors_total": that is ErrorsOfExhaustedSends, of which
\* this property does not hold.
ErrorsCountAttempts == send_errors = Cardinality(FailedAttempts)

\* An order is counted as produced once, however often it was sent.
ProducedCountsOrders == produced = Cardinality({i \in Orders : task[i] = "acked"})

\* The metric and the report count the same acknowledgements at different
\* times, the one in the delivery task, the other in the loop when it joins the
\* task: the report never runs ahead, never lags by more than the deliveries in
\* flight, and so agrees with the metric once all are joined.
ReportLagsMetric == /\ report.acknowledged <= produced
                    /\ produced <= report.acknowledged + Cardinality(pending)

\* The admitted orders that have a record in the topic.
InTopic == {i \in 0 .. index - 1 : Logged(i) # {}}

\* What the caller may conclude from the report, retries and lost answers
\* notwithstanding: the topic has at least the orders acknowledged and, when
\* send_orders returns Ok, lacks no more than those reported as failed.
LossIsReported ==
  /\ report.acknowledged <= Cardinality(InTopic)
  /\ branch = "returned" /\ ~task_error => index <= Cardinality(InTopic) + report.failed

\* Retries, lost answers and panics are one way for deliveries to end as the
\* scheduler's model lets them end, fairness included.
ImplementsScheduler == FairSpec
=============================================================================
