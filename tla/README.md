# A verification development of the Krabka observability demo

The repository is a Docker Compose demo built around one Rust program,
`observability-demo-app`, which runs in one of three roles (`produce`, `stream`,
`consume`) against a Kafka-compatible broker, and around shell scripts that start,
test and qualify the whole stack. This directory holds TLA+ modules translated from
that code, the TLC configurations that check them, and TLAPS proofs of the results that
matter most. `A/` below is `src/crates/observability-demo-app/src/`, `D/` is
`src/demo/observability/`.

Check a model with `tlc -config X.cfg M` and a proof module with `tlapm M.tla`.

## 1. Inventory of the system

### The application

| Component | Where | State | Operations | Interacts with |
|---|---|---|---|---|
| Producer scheduling | `A/producer.rs` `send_orders` | `index`, the `JoinSet` of deliveries, `active_keys`, `SendReport`, `task_error`, two intervals, the pinned shutdown future | biased `select!`: shutdown, join, reporting tick, order tick; then the drain | spawns order delivery; called by `run_produce` |
| Order delivery | `A/main.rs` `publish_order`, `send_with_retry` | attempts left, the topic, error and produced counters | up to three sends, count errors, count the order | client library; metrics; scheduling, by the `bool` it returns |
| Order processor | `A/main.rs` `run_consume`, `process_order_record` | group membership, position, batch, counters | poll, handle each record through four stages, close | topic; metrics; signals |
| Streams role | `A/main.rs` `run_stream` | topology with a counting store | peek, group by key, count, write the counts, close on a signal | topic in, topic out |
| Order generation and classification | `A/lib.rs`, `A/pipeline.rs` | none (functions of the order index and of time) | `order_at`, `is_anomalous`, `is_suspicious`, `classify_outcome`, `stage_delay`, `decode_order` | all three roles |
| Process lifecycle | `A/main.rs` `main`, `run_produce`, `shutdown_signal` | which role runs, telemetry, metrics server | start, run a role, flush | compose sends the signals |
| Command line and effective policies | `A/main.rs` `Cli`, `effective_*` | none | checks and defaults by role | everything that is built from a policy |
| Metrics | `A/metrics.rs` | counters, histograms, a gauge per category, the registry and its lock | `record_*` without a lock, `export` under it | recorded by all roles, scraped by the stack |
| Pacing | `A/producer.rs` 50–53 | the order interval and its deadline | tick, skip missed ticks | the scheduling's guard decides when it is polled |

How they interact: compose starts one process per role. A producer admits orders at a
rate, each as a task of its own; a task appends its order to the topic, keyed by its
category; the streams role counts orders per category; the processor reads the same
topic in its own group. A SIGTERM from `docker compose stop` ends each of them.

What is hard in it:

* the producer's loop runs beside deliveries on other threads, polls its branches one
  after the other, and must keep each category in order although deliveries retry;
* an answer that is lost makes the client's caller repeat a record that was appended;
* a delivery that panics, in the loop or during the drain, must neither lose the other
  deliveries nor be lost from the result;
* a signal may arrive between any two of these steps;
* bad records in a batch; errors that leave a role through `?`;
* a scrape encodes one family after the other while deliveries update several series each,
  so a page is no state the process was ever in;
* an order tick that is polled late must neither cause a burst nor lose orders.

What makes each component correct:

* *scheduling*: no two deliveries of a category overlap; the bound on deliveries in
  flight holds; no key leaks; the report is exact; after a signal at most one order is
  still admitted, and the loop drains and returns; a panic is reported and stops admission;
* *delivery*: a category's orders are in the topic in generator order with copies
  adjacent; an acknowledged order is in the topic, and none is missing from it that the report does not
  admit; counters say what they claim;
* *processor*: every record handed out is handled and counted once, whatever is next to
  it in the batch; records keep flowing; a signal makes it leave the group;
* *metrics*: two families on one page agree within what may be in flight, after a restart
  too;
* *pacing*: never two orders in one period nor more than the rate; none lost while none is a period
  late;
* *generation*: every label combination comes up; the slow share is the fraction given;
* *lifecycle*: telemetry is flushed after the role has ended.

### The scripts around it

| Component | Where | State | Correct if |
|---|---|---|---|
| Smoke test | `D/smoke.sh` | targets still pending, the last verdict on the services, the deadline | passing means that each target succeeded and that no service failed up to the last look |
| Service gate | `D/check-services.sh` | the verdict so far, the services seen | failed outranks pending outranks good; an expected service without a container fails |
| Failover qualification | `D/qualify-failover.sh` | ledgers of row counts and offsets around a failover | it passes only if nothing acknowledged was lost |
| Gres workload | `D/gres/workload.sh` | the next id, the table | ids do not collide; the table stays bounded |
| Object store bootstrap | `D/rustfs/bootstrap.sh` | buckets, one obsolete object | idempotent; deletes only the obsolete object |
| Compose startup | `D/docker-compose.yml` | what each container is doing | a service starts only after what it depends on |
| Telemetry routing, dashboards, alerts | `D/alloy`, `D/grafana` | none of their own | declarative, external programs run them |
| Image and repository checks | `D/verify-images.sh`, `src/tools` | none | straight-line checks |

The hazards, each at its line and with the properties that cover it, are listed in
`PROJECT.json`.

## 2. The modules

### `KeyedDelivery` — what the producer promises

The abstract specification: orders start in generator order, at most `Bound` unsettled,
never two of one category; once admission is closed every started order is settled before
the producer has finished. It knows nothing of branches, key sets or tasks.

### `ProducerScheduler` — `send_orders` (`A/producer.rs` 41–101)

| Model | Code |
|---|---|
| `branch` | the branch of the biased `select!` polled next; `drain` and `returned` after the loop |
| `pending`, `task` | the `JoinSet` and what became of each task on its thread |
| `active_keys`, `index`, `report`, `task_error` | the locals of the same names |
| `signalled` | the pinned `shutdown_signal()` future is ready |
| `last_index` | history only: the largest index the signal allows |

Each branch polled is a step, because the signal and the tasks make progress in between:
`PollShutdown`, `JoinDelivery`/`JoinPanic`/`SkipJoin`, `ReportRates`/`SkipReporting`,
`Admit`/`SkipTick`. A select that found nothing ready goes back to its first branch, as a
woken biased select does. The loop breaks into `Drain` and `Return`. Whether an interval
is due is left open: any due or not due is a behaviour here (the pace is `TickPacing`'s).
The generator's category cycle (`order_at`) is `CategoryOf`.

### `OrderDelivery` — `publish_order`, `send_with_retry` (`A/main.rs` 1052–1133)

Extends the scheduler and gives each running task its attempts: `BrokerAppend` (external:
the record reaches the topic, whether or not anyone hears of it), `SendSucceeds`, `Retry`,
`GiveUp`, `Panic`. The topic is one sequence per category, since the category is the
record key. `send_errors` and `produced` are the metrics. Assumed of the client, which is
not in this repository: `Ok` from a `send()` with acks = all means the record is in the
topic, and a `send()` that has returned `Err` is not appended later.

### `OrderConsumer` — `run_consume`, `process_order_record` (`A/main.rs` 1193–1402)

Each turn of the loop makes a fresh `shutdown_signal()`, so `listener` exists exactly
while a select waits (`Arm` … the end of the select). tokio's process-wide `handler` stays
once it is installed: it only sets `raised`, and tokio's driver passes that on to the
listeners of the moment (`Notify`), which need not be those of the moment of the signal.
With no listener it is swallowed. Before the handler is installed a signal ends the process
or, if the process is PID 1 of its container, as it is in the Compose file, is ignored. The
select is not biased: `PollReturns` may win although the listener has
fired. `PollFails` is the `?` on `poll()`; `Close` and `Flush` are `close()` and `main`'s
`telemetry.shutdown()`. A record's value is an order, bytes that do not decode, or none.
The four simulated stages only take time and end the record in the same counter, so
`HandleRecord` is one step here (their series are in `DemoMetrics`, their time in
`OrderPolicy`). External: the topic, `poll()` and `close()`.

### `SmokeTest` — `D/smoke.sh`, `D/check-services.sh`

| Model | Code |
|---|---|
| `pc`, `last_gate` | where `smoke.sh` has got to; whether the gate that runs is that of line 56 or of line 67 |
| `pending`, `unchecked`, `services_ready` | `$pending`, the rest of the `for` list, `$services_ready` |
| `expected` | `$expected`: the services `KRABKA_SMOKE_SERVICES` names, or by default every long-running one |
| `listed`, `uninspected`, `result` | `$containers`, those `docker inspect` has still to get to, `$result` |
| `container` | external: state, exit code, health and whether the restart count is above zero |
| `failed_before`, `unstarted` | history only: what had failed, or was expected or there and had not been started, when the gate began |

The gate is not atomic: `ListContainers` is `docker compose ps`, `Inspect(s)` takes one
container each, and `GateExits` is `check_services` taking the exit status. Containers move
between any two of these steps: they are created, started, become healthy or unhealthy, end
with either code, and are restarted under `unless-stopped`. `CheckTarget` is one query of
any target. `expected` is chosen at the start, from `Expectations` (what the environment may
name) or the default, and never changes. A long-running service it leaves out, as
`.github/workflows/qualify-m20.yml:49` does, may have no container in a test that passes; if it has
one, the gate judges it like any other.

### `GresWorkload` — `D/gres/workload.sh`

`id` is `$id`, `table` the keys in `demo_orders`, `clock` what `date +%s` reads. One pass of
the loop is `Insert`, `Prune` (the test `id % 25` and the `DELETE`), `WakeUp` after the
sleep; each statement may fail, as `|| true` lets it. `Kill` may come at any point and
`Start` seeds the id again. `wake` is the earliest end of a sleep or of a restart; a pass may
take any longer. `collided` and `missed` are history.

### `DemoProcess` — `main`, `effective_*` (`A/main.rs` 75–350, 401–973)

| Model | Code |
|---|---|
| `cli` | the parsed arguments: the role, whether the order rate is zero, the flags given |
| `pc`, `exit` | where `main` has got to, and how the last process of the container ended |
| `handler`, `heard` | tokio's signal handler is installed; the role's `shutdown_signal()` is ready |
| `member`, `in_flight` | what the role still holds outside: a group it has not told that it leaves, pending deliveries |
| `stopped` | external: `docker compose stop` was called, so nothing restarts the container |
| `signalled`, `touched`, `flushed` | history only |

A flag's value is its rank: 0, ordinary values, and `TooLarge` for one that the type of the
policy refuses; of the defaults only their order counts. `Accepted` is the conjunction of the
`effective_*` functions, which `main` calls for all roles whatever its own. Flags given are
those valid with one role and the two of the schema retries. The steps of `main` are
`CheckArguments`, `Serve` (telemetry, then the admin server), `Connect`, the role, and `Flush`;
of the roles' loops only what `main` can see is here: `Admit`, `Settle`, `RoleFails`,
`TakeSignal`, `StopRole`. An error leaves through `Fail` or `End("error")`, past the flush. The flag's
description calls the leave best-effort, so an `Ok` of `close()` is taken to mean that the group
was told, not that the broker has taken note. The
handler is installed when the role first polls its listener, the last step of `Connect`; before
that a signal does nothing, as the process is PID 1 of its container. External: `StartProcess`
(Docker's `restart: unless-stopped`), `DockerStop`, `Kill`.

### `DemoMetrics` — `A/metrics.rs` and the calls that record (`A/main.rs` 1102–1133, 1160–1179, 1281–1377)

| Model | Code |
|---|---|
| `metric` | the series `DemoMetrics::new` registers; of a family with labels the total |
| `at` | the update each recording task makes next: a delivery, the consumer's loop, the topology's task |
| `page`, `unread`, `inside` | the buffer of `export`, what it still has to encode, the family it is in the middle of |

`Publish`, `Process` and `Peek` are the points at which a role gets to a call that records;
`Update` is one `inc`, `observe` or `set`, in the order of the `record_*` functions (`After`).
`Export` takes the registry's lock, which recording does not need, and `Encode`,
`EnterFamily`, `LeaveFamily` (external: the client library) write the families in the order of
their registration. `EncodeFails` is the error path, `Restart` a new process with an empty
registry. A family with labels is encoded series by series while it moves, so the total on the
page is any value between the totals at its first and at its last series. The streams store
survives a restart and caches, so the gauges may jump by more than one. Assumed of it: while a
process lives a category's count does not fall.

### `TickPacing` — the order interval (`A/producer.rs` 50–53, 80–89)

`deadline` is the interval's, `open` the guard of the tick branch. `Admit` may be late by any
amount. External: tokio's rule for the next deadline (`NextDeadline`): a tick later than the
tolerance of 5 ms is missed, and the behaviour line 53 chooses (`MissedTick`, `Skip`) puts the
next one on the original schedule. `free` and `prompt` are history.

### `OrderPolicy`, `MCOrderPolicy` — `A/lib.rs` 66–144, `A/pipeline.rs` 90–121

`order_at`, `is_anomalous`, `is_suspicious`, `classify_outcome`, `inject_latency`,
`stage_delay` and `process_order` as operators with the names of the code, and a walk through
one life of the producer, `ProcessNext`, that processes each order as `process_decoded_order`
does. Names are positions in their tables, amounts cents, times units of 50 us, the fraction
of slow orders a quotient. The code divides and compares `f64`, the model exact quotients; as
rounding is monotone they differ only for a fraction so little above a slot's quotient that both
round to the same `f64`, which 1/64 and the default 0.02 are not. `SlowShare` and `EveryLabelAppears` compare the walk with a closed
form. `MCOrderPolicy` gives the stages their default work.

## 3. The runs

| Run | Bounds | Asks |
|---|---|---|
| `producer_scheduler` | 2 in flight, 3 categories, 5 orders, with fairness | key order, bound, report, drain, error, late orders; shutdown returns, ended tasks are joined, admission never wedges, `KeyedDelivery` is implemented |
| `order_delivery` | 2, 2, 3 orders, 2 attempts, with fairness | order in the topic with copies, acknowledged is logged, what the error counter counts, how far the report may lag behind the metric, no loss beyond what the report admits; the detailed delivery with its fairness implements the scheduler's tasks |
| `order_consumer` | 4 records, 2 per batch, with fairness | each record counted once under its kind, no batch cut short; records are handled |
| `consumer_lost_signal` | 1 record | violated: one signal need not stop it |
| `smoke_test` | 2 long-running services, one with a healthcheck, both expected or only that one, 1 one-shot, 2 targets, with fairness | failures end the test, what passing means, slow is not failed, the test ends |
| `smoke_created` | 1 long-running service without a healthcheck, 1 one-shot, 1 target | violated: a service not started yet ends the test |
| `gres_workload` | clock to 9, ids to 10, interval and restart 1 s, prune every 3rd id, 1 row retained | no key twice, the table is bounded |
| `gres_workload_busy` | clock to 4, ids to 5, interval 0 | violated: a restart meets keys of its earlier life |
| `demo_process` | any two role-specific flags at ranks 0 to 3, 3 roles, paused or not, with fairness | what gets past the arguments, what a flush implies; a signal the role has heard ends the process |
| `demo_metrics` | 2 deliveries in flight, series to 3, 3 roles | what two families on one page say of each other |
| `tick_pacing` | units of 2.5 ms: period 8 (the default 50 orders a second), tolerance 2, clock to 60 | no period sees two orders; the rate is never exceeded, and kept while no order is a period late |
| `order_policy` | 20500 orders, default work, slow fraction 1/64 | the slow share is the closed form; every label combination appears and no other |

Why the bounds are enough to be interesting. With two slots and three categories either
limit may be the one that blocks, and with five orders categories 0 and 1 come up twice, so
an order meets a pending order of its own category with a slot free, and a free category
with no slot. Up to two deliveries may panic in either order, one in the loop and one in
the drain. In `OrderDelivery` order 2 shares its category with order 0, which may leave
two copies, be given up after it was appended, or be retried while order 1 is in flight; the
code's three attempts are covered by the proofs, which hold for any number.
The consumer's four records make two batches of two with every combination of good and bad
values; a batch is where a record can hide its neighbour, and two are enough for a signal
to fall inside one and between two. In `SmokeTest` two long-running services and a one-shot
give every order of a failed, a pending and a good verdict in one gate, and two targets a
pass in which one succeeds and the other does not; the service that need not be expected may be
missing, appear between two gates, or fail. In `GresWorkload` the clock leaves room
for three prunes or four restarts, and the 25 of the prune is 3 so that they happen. In
`DemoProcess` two flags are what a limit relates, so any two cover each limit given in full, in
part and not at all, and four ranks put a value below, at and above either default. In
`DemoMetrics` two deliveries may both be in the middle of recording when a family is encoded, and
the counts leave room for one order more than that on either side. In `TickPacing` seven periods
fit the horizon, so an order may be late by less than the tolerance, by less than a period and by
several, in any order. `OrderPolicy` walks past two wraps of the 10000 slots, and 1/64 of 10000 is
no whole number. What does not depend on small numbers is proved (section 5).

`CHECK_DEADLOCK` is on in every run: the only states without a step of the program are the
ones in which it has returned or ended, and those have an explicit step of their own
(`Terminated`, `Stopped`). `GresWorkload`, `TickPacing` and `OrderPolicy` have no such state;
their `Horizon` or `End` stutters where the bound ends the model.

Each property has been shown able to fail: `PROJECT.json` lists for each one a definition
with a plausible slip in it (a dropped conjunct, a key that is not released, an off-by-one
in the attempts) under which TLC finds it violated. Those operators stand in the modules in
a section of their own.

## 4. Fairness, and why the code justifies it

`ProducerScheduler`

* `WF(Loop)`: the task that runs `send_orders` is polled while it can move.
* `SF(SkipReporting)`: the reporting interval is five seconds, so a loop that selects again
  and again finds it not due again and again. Without this the model could take the
  reporting branch in every select.
* `SF(Admit)`: the order interval is periodic, so it is due in some of infinitely many
  selects that would let an order in.
* `WF` of each delivery's end: at most three sends, each of which the client ends by its
  own timeouts (the client is external; this is an assumption about it).
* The signal is not fair, and no outcome of a delivery is preferred.

`OrderDelivery` replaces the last by: the client answers each `send()`. The broker owes
nothing: `BrokerAppend` is not fair. That this implies the scheduler's fairness is what
`ImplementsScheduler` checks in `order_delivery`.

`OrderConsumer`: `WF(Step)`, the process runs; `SF` of a poll that hands records out, since
a poll is repeated for ever and records that are there are handed out in the end;
`SF(StopOnSignal)`, as tokio's select chooses its first branch at random: it only rules out a
choice that falls on the records for ever, so that `consumer_lost_signal` does not rest on one. Records and
signals are the environment's and not fair.

`SmokeTest`: `WF(Smoke)`, the script runs, which takes each `curl` and `docker` command to
end; `SF` of each target's success: a query that is repeated until it succeeds does so in the
end. Without it a stack that is up would only reach its deadline. Neither the deadline nor
any container is fair: `TestEnds` requires an end only where the deadline has passed or the
services stay good.

`DemoProcess`: `WF(Main)`, the process runs and what it connects to answers in some way;
`WF(Settle)`, as each delivery ends. Signals, failures, kills and restarts are not fair.

`DemoMetrics`, `TickPacing` and `OrderPolicy` state no liveness and assume no fairness.

## 5. What is proved

All of it for every value of the constants, from `SchedulerAssumption` (a positive bound and
a positive number of categories), `AttemptsAssumption` (at least one attempt),
`ConsumerAssumption` (positive batches),
`ServicesAssumption` (healthchecks belong to long-running services, no service is both
long-running and one-shot, and what may be expected are long-running services), `WorkloadAssumption` (natural numbers, a positive prune
period), `FlagsAssumption` (the defaults are not too large), `MetricsAssumption` (a positive
bound), `PacingAssumption` (a positive period) and `PolicyAssumption` (a slow fraction from 0 to 1,
which `parse_fraction` checks, and natural work) only. The theorems of `GresWorkload` and one
of `TickPacing` name hypotheses of their own. Every invariant of a passing run is among them.

`Producer_proofs`: the loop

* `TypeCorrect`: `TypeOK` is inductive.
* `DeliveriesKeepKeyOrder`, `NoKeyLeaks`, from `KeyInv`. `KeyOrder` alone is not inductive:
  admitting an order keeps it only if an unoccupied key means that no delivery of that
  category is pending (`KeysMatchPending`), a join keeps *that* only if no two pending
  deliveries share a category, and an order that is not pending must have ended.
* `ShutdownStopsAdmission`, from `LateInv`: what `last_index` says of the branch the
  select had reached when the signal came.
* `PanicsAreReported`, `PanicStopsAdmission`, from `ErrorInv`: `task_error` is set exactly
  when a panicked task is no longer pending, and only outside of the loop.
* `LoopIsNotReentered`, from `ErrorInv` too: on return nothing is pending, so no task can move
  afterwards. With `FewLateOrders` this is the safety half of `ShutdownReturns`.
* `DeliveriesAreBounded`, from `BoundInv`. At most one delivery per category is the
  injection of `pending` into the categories that `KeyInv` gives.
* `AdmissionIsNotWedged`, from `BoundInv` as well: admission is closed only by deliveries that are
  pending, which are joined. It is the safety half of `AdmissionProgresses`.
* `ReportIsExact`, from `TallyInv`: a join moves one index from `pending` to exactly one of
  the disjoint sets the counters count.
* `DrainIsComplete`: on return nothing is pending, so the three sets partition the orders
  admitted.
* `SchedulerRefines`: initial states map to initial states of `KeyedDelivery` and every step
  is one of its steps or a stutter (the safety part of `ImplementsKeyedDelivery`).

`Producer_proofs`: the deliveries

* `DeliveryRefines`: the deliveries in detail are deliveries of the scheduler, so each of its
  theorems holds for them (the safety part of `ImplementsScheduler`). With `SchedulerRefines` this is
  `ProducerKeepsPromise`: they implement the steps of `KeyedDelivery`.
* `DeliveryTypeCorrect`.
* `TopicKeepsKeyOrder`, from `LogInv`: only admitted orders are in the topic, so an order that is
  being sent is not below any of its category there: `KeyInv`, which holds of each step as a
  step of the scheduler, leaves no later one of that category admitted.
* `AcknowledgedOrdersAreLogged`, from `CopiesInv`: an order has at most as many copies as
  attempts, and one fewer as long as `appended` says that the current one has not arrived.
* `ErrorsAreAttempts`, from `AttemptsInv`: each failed attempt adds one pair of order and
  attempt to the set counted. `ProducedIsExact`, from `ProducedInv`: only an answer `Ok` adds an
  order to those counted, and a task ends once.
* `ReportFollowsMetric`: the acknowledged orders, which `orders_produced_total` counts
  (`ProducedInv`), are those joined as such, which the report counts (`TallyInv`), and some of the
  pending ones. So the two differ by no more than the deliveries in flight, and agree on return.
* `LossesAreReported` needs no invariant of its own: the orders acknowledged are in the topic
  (`CopiesInv`) and are those the report counts (`TallyInv`), and if no task panicked the rest of
  the orders admitted are those reported as failed (`NothingAbandoned`). It only bounds the loss: a
  failed order may be in the topic all the same.

`OrderConsumer_proofs`

* `ConsumerTypeCorrect`, `NoBatchIsCutShort`, from `BatchInv`: outside of a batch everything
  handed out was handled, and inside a batch something is left of it.
* `RecordsAreCountedOnce`, from `CountInv`: handling one record adds its position to exactly
  one of the sets the counters count.

`SmokeTest_proofs`

* `SmokeTypeCorrect`, and `NoFailureIsOverlooked` from `FailureInv`: a service that had failed
  when the gate began still has, since nothing clears a restart count and nothing starts a
  container that has exited; so it is either still to be inspected or `result` is 1, and
  `FailureIsReported` says that 1 stays. `FailuresEndTheTest` speaks of what follows a gate
  only and says nothing of the gate itself.
* `PassedMeansSettled` and `SlowServicesAreAwaited`, whichever services are expected, from `GateInv` and `VerdictInv`: what each
  value of `result` says of the services already inspected, and that no later move of a
  container undoes it (`Forward`: a container never goes back to `missing` or `created`,
  and one that has exited stays so).

`GresWorkload_proofs`

* `WorkloadTypeCorrect`, and `RestartsDoNotCollide` from `KeysFollowClock`: in a pass the id is
  at most one ahead of the clock, and whatever comes next, sleep or restart, ends when the
  clock has caught up. Its hypotheses are `Interval > 0` and `RestartTakes > 0`. The first is
  the finding below; the second is Docker's part: a container killed after an INSERT and
  running again within the same second of the clock seeds the key it has just inserted.
* `PrunesBoundTheTable`, with the same hypotheses, from `RowsInv`: no key is older than
  what the last prune due retains (`LastPrune`), and none is larger than the id.

`DemoProcess_proofs`

* `ProcessTypeCorrect`.
* `TelemetryFlushesLast`, from `FlushInv`: `FlushIsLast` speaks of what has happened, so the
  invariant follows the signal from the listener through `stopping` to `flush`, where the drain
  or the leave is done.
* `SignalsAreKept`, from `HeardInv`: a role that stops without failing has heard of it. This is the
  safety half of `HeardSignalsEnd`.
* `ArgumentsAreCheckedFirst`, for any number of flags: `AcceptedIsSound` shows that the
  policies built one after the other amount to what the flags' documentation asks for, flag
  by flag, and `ArgumentsInv` what the place `main` has reached says of them.

`DemoMetrics_proofs`

* `MetricsTypeCorrect`.
* `OutcomesHaveStages`, `ProducedPagesAgree`, `StreamPagesAgree` are instances of one lemma on a
  pair of families: if `a` never exceeds `b` by more than `k` in the process and `a` is encoded
  first, no page shows a larger difference (`PairInv`). That the process itself keeps to `k` is
  `RecordingInv` for the loops that record alone and `ProduceInv` for deliveries side by side,
  where the difference is the number of them between the two updates.

`TickPacing_proofs`

* `NoCatchUpBurst`, from `OnSchedule`: the deadline stays a multiple of the period and is not before
  the first period without an order. The hypothesis is `Tolerance < Period`: from 200 orders a second
  on, tokio's 5 ms cover a whole period, late ticks are not taken for missed, and a burst follows.
* What holds at every rate, from `RateInv`: each order admitted has moved the deadline by a period at
  least, and by just one as long as none was a period late (`DeadlineAdvances`). So the rate is an
  upper bound at any time (`RateIsAnUpperBound`), it is kept by a loop that is not a period late
  (`LateTicksLoseNothing`), and a burst makes up for less than the tolerance (`BurstsAreShort`).

`OrderPolicy_proofs`

* `SlowShareIsExact`, from `ShareInv`, which counts the slow orders one by one. `SlowSlots` shows that
  the strict comparison (of exact quotients, see section 2) with a fraction of 10000 makes the slots below the fraction, rounded up, the
  slow ones (`CeilingBounds`), and `NextSlow` that the closed form grows with them, at the wrap too.
* `LabelsAllAppear`, from `SeenInv`: the labels seen are those of the orders so far. `LabelOf` puts
  generator and outcome in one formula, `FirstOrders` names an order below 1162 for each of the 60
  labels, and `LabelCount` counts them.
* `LabelsComeBack`: category, region and outcome together have period 10200 (`LabelPeriod`), so no
  label stays away for longer, wherever in its life the producer is.

Only model-checked: everything under fairness (`ShutdownReturns`, `EndedIsJoined`,
`AdmissionProgresses`, the fair part of both refinements, `RecordsAreHandled`,
`HeardSignalsEnd`, `TestEnds`), as liveness is out of the proof system's reach. Theorems without a run
of their own are the action properties (`ErrorStopsAdmission`, `ShutdownIsFinal`, `HeardIsKept`,
`BacklogIsBounded`), `KeysMatchPending`, `ClosedByPending`, `ProducedCountsOrders`, and three type
invariants (`DemoProcess`, `DemoMetrics`, `GresWorkload`).

## 6. Findings

**One signal need not stop the consumer.**
`run_consume` (`A/main.rs:1226`) makes a new `shutdown_signal()` in each select and drops it
when `poll()` wins. A SIGTERM passed on while a batch is processed, or one that is received
together with records, reaches nothing afterwards: tokio's handler stays installed, so the
default action does not happen either, and the consumer polls on until it is killed.
`docs/operator-guide.md:47` says that on SIGTERM "the consumer and Streams roles leave their
groups before" telemetry flushes. `consumer_lost_signal` shows a fair behaviour in which it
does not.
Sending more signals helps only by chance: each of them may be lost in the same way.
The producer pins one future before its loop and does not have this (`ShutdownReturns`).

The same happens to a signal during startup: a role polls `shutdown_signal()` for the first time
when its registry and client are connected (`A/main.rs:1022`, 1030, 1182, 1226). A SIGTERM before
that meets no handler, the kernel withholds the default action from PID 1, and the role connects
and runs on until SIGKILL. What holds of all roles is `HeardSignalsEnd`.

**A service that is not started yet ends the smoke test.** `D/check-services.sh:101` reports
every long-running service whose state is not `running` as failed, `created` included. Its
header says that status 1 means "a service exited, restarted, or has no container" and 2 "a
service is still starting", and `D/smoke.sh:37-39` that a slow service keeps the test waiting.
`smoke_created` shows a test that is run while `docker compose up` still starts containers
and fails at once. `SlowIsNotFailed` is what does hold.

**A busy workload collides after a restart.** `D/gres/workload.sh:41` promises that the seed
avoids the keys in the table. The id grows by one per pass, so with
`KRABKA_GRES_WORKLOAD_INTERVAL=0`, which `D/docker-compose.yml:725` offers, the ids outrun the
clock (`gres_workload_busy`). With a sleep of a
second or more, and if Docker takes a second or more to start the container again, it holds and is
proved (`RestartsDoNotCollide`).

**The error counter counts attempts.** `crates/observability-demo-app/DESIGN.md:11` says that
"exhausted producer sends set error status and increment `krabka_demo_pipeline_errors_total`".
`send_with_retry` (`A/main.rs:1127`) increments it for every attempt that fails, as its test
(`A/main.rs:1563`) expects; only the status waits for the last. `ErrorsCountAttempts`, which
`order_delivery` checks and `ErrorsAreAttempts` proves, is what the code does: an order acknowledged
on its second attempt has added an error although no send was exhausted. Read as the document has
it (`ErrorsOfExhaustedSends` in the place of `ErrorsCounted`) the model violates the property.

A remark without a run: `A/lib.rs:79-82` says that each field varies at a different period, but
the quantity has the category's, 5, and the warehouse the region's, 8. The combinations of
labels the comment is about do all appear (`EveryLabelAppears`).

## 7. What is not modelled, and why

* Texts: logs, spans, headers, metric names, serialization. No property here is about them.
* The client, the broker and the Streams library are not in this repository. They are
  modelled by what the code relies on, and marked external. Of the streams role that leaves its
  start, signal and close (`DemoProcess`) and what it records (`DemoMetrics`): the topology is a
  declaration that the library executes. That `prometheus_client` encodes families in the order
  of their registration, and tokio's rule for missed ticks, are knowledge about the versions in
  use.
* Failover qualification: a straight-line script whose every test is decided by Docker,
  Grafana and services that are not in this repository. The smoke test it calls three times is
  modelled. Two of its lines are listed as hazards without a property.
* The compose startup graph is data that `docker compose` interprets; a model would be one of
  its rules. What containers may do meanwhile is the environment of `SmokeTest`.
* The object store bootstrap is a straight line of calls with nothing beside it.
* Telemetry routing, dashboards and alert rules are configuration of external programs.
* The image and repository checks are straight-line.
* An error of `poll()` that leaves `run_consume` without `close()` is in the model
  (`pc = "failed"`), and so is the flush skipped on every error path (`Fail`), but no document
  says what should hold then.
* The flags common to all roles, and the syntax and units of values. An order rate so high
  that its period rounds to zero.
* Docker and `curl` commands that hang or fail by themselves; a target is only ever a query
  that succeeds or not.
* Restarts of the producer repeat order ids from 0. Nothing in the code keys on an id, so the
  topic of a second life is that of the first continued, and `OrderDelivery` models one life.

## 8. What could follow

1. Producer, topic and processor composed over several lives, for a statement on what the
   processor has counted against what was acknowledged.
2. `StreamCounter` with an abstract counter, should the Streams library's commit and restore
   protocol become part of the repository.
