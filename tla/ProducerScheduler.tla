------------------------- MODULE ProducerScheduler -------------------------
(***************************************************************************)
(* send_orders of crates/observability-demo-app/src/producer.rs: one       *)
(* biased tokio::select! loop that admits generated orders, a JoinSet of   *)
(* delivery tasks that run on other threads, the set of occupied category  *)
(* keys, and the drain after the loop.                                     *)
(*                                                                         *)
(* Each polled branch of the select is a step of its own, because the      *)
(* signal and the delivery tasks make progress between two polls.  branch  *)
(* names the branch polled next.  A select in which nothing is ready is    *)
(* polled again from its first branch, as a woken biased select is.        *)
(* Whether the order tick is due is left open here (TickPacing decides     *)
(* when); a delivery is a task that ends in some outcome (OrderDelivery    *)
(* says how).  The report's text is left out.                              *)
(***************************************************************************)
EXTENDS Naturals, FiniteSets

CONSTANTS MaxInFlight,   \* --producer-max-in-flight
          NumCategories, \* CATEGORIES.len() in lib.rs
          MaxOrders      \* bound on the orders generated

ASSUME SchedulerAssumption == /\ MaxInFlight \in Nat \ {0}
                              /\ NumCategories \in Nat \ {0}
                              /\ MaxOrders \in Nat

VARIABLES branch,      \* the select branch polled next, or "drain", "returned"
          signalled,   \* the pinned shutdown future has become ready
          index,       \* the order generated next
          pending,     \* the JoinSet: spawned and not yet joined, by order index
          active_keys, \* categories occupied
          task,        \* what became of each order's delivery task
          report,      \* SendReport
          task_error,  \* task_error.is_some()
          last_index   \* history: the largest index the signal allows

vars == <<branch, signalled, index, pending, active_keys, task, report, task_error,
          last_index>>

Orders == 0 .. MaxOrders - 1
Categories == 0 .. NumCategories - 1
Ended == {"acked", "failed", "panicked"}
TaskState == {"unspawned", "running"} \cup Ended
SelectBranch == {"shutdown", "join", "reporting", "tick"}

Finished(i) == i \in pending /\ task[i] \in Ended

-----------------------------------------------------------------------------
(* Slips the code could have had, one line each: the mutation checks put   *)
(* them in the place of the definition of the next section they vary.      *)

CategoryOneBased(i) == (i % NumCategories) + 1
RecordAllAcknowledged(rep, outcome) == [rep EXCEPT !.acknowledged = @ + 1]
ReleaseNone(keys, i) == keys
CanAdmitAnyKey == Cardinality(pending) < MaxInFlight
CanAdmitOneMore == /\ Cardinality(pending) <= MaxInFlight
                   /\ index % NumCategories \notin active_keys
UnbiasedShutdownPoll == IF signalled THEN {"drain", "join"} ELSE {"join"}
ForgetJoinError == UNCHANGED task_error /\ branch' = "drain"
DrainedWhenEnded == \A i \in pending : Finished(i)

-----------------------------------------------------------------------------
(* The pieces of the loop.                                                 *)

\* The category of order i, its record key.
CategoryOf(i) == i % NumCategories

\* SendReport::record
Record(rep, outcome) ==
  IF outcome = "acked" THEN [rep EXCEPT !.acknowledged = @ + 1]
                       ELSE [rep EXCEPT !.failed = @ + 1]

\* active_keys.remove(&key) when delivery i is joined.
Release(keys, i) == keys \ {CategoryOf(i)}

\* The tick branch's precondition.
CanAdmit == Cardinality(pending) < MaxInFlight /\ CategoryOf(index) \notin active_keys

\* Where the select goes after polling the shutdown future, which is polled
\* before every other branch.
ShutdownPoll == IF signalled THEN {"drain"} ELSE {"join"}

\* Keep the error and break; the key of the panicked delivery stays occupied.
OnJoinError == task_error' = TRUE /\ branch' = "drain"

\* The drain's loop is over.
Drained == pending = {}

-----------------------------------------------------------------------------

Init == /\ branch = "shutdown"
        /\ signalled \in BOOLEAN
        /\ index = 0
        /\ pending = {}
        /\ active_keys = {}
        /\ task = [i \in Orders |-> "unspawned"]
        /\ report = [acknowledged |-> 0, failed |-> 0]
        /\ task_error = FALSE
        /\ last_index = IF signalled THEN 0 ELSE MaxOrders

\* SIGINT or SIGTERM arrives; the pinned future stays ready from then on.  A
\* select that has polled it already may still admit one order.
Signal ==
  /\ ~signalled
  /\ signalled' = TRUE
  /\ last_index' = IF branch \in SelectBranch \ {"shutdown"} THEN index + 1 ELSE index
  /\ UNCHANGED <<branch, index, pending, active_keys, task, report, task_error>>

\* The delivery task of order i ends.
EndTask(i, outcome) ==
  /\ i \in pending
  /\ task[i] = "running"
  /\ task' = [task EXCEPT ![i] = outcome]
  /\ UNCHANGED <<branch, signalled, index, pending, active_keys, report, task_error,
                 last_index>>

\* A step of the select that changes nothing but the branch polled next.
Goto(from, to) ==
  /\ branch = from
  /\ branch' \in to
  /\ UNCHANGED <<signalled, index, pending, active_keys, task, report, task_error, last_index>>

PollShutdown == Goto("shutdown", ShutdownPoll)

\* pending.join_next() yields a delivery that ended with a bool.
JoinDelivery(i) ==
  /\ branch = "join"
  /\ Finished(i)
  /\ task[i] # "panicked"
  /\ pending' = pending \ {i}
  /\ active_keys' = Release(active_keys, i)
  /\ report' = Record(report, task[i])
  /\ branch' = "shutdown"
  /\ UNCHANGED <<signalled, index, task, task_error, last_index>>

\* pending.join_next() yields a JoinError.
JoinPanic(i) ==
  /\ branch = "join"
  /\ Finished(i)
  /\ task[i] = "panicked"
  /\ pending' = pending \ {i}
  /\ OnJoinError
  /\ UNCHANGED <<signalled, index, active_keys, task, report, last_index>>

\* join_next is disabled (nothing pending) or not ready.
SkipJoin == (\A i \in pending : ~Finished(i)) /\ Goto("join", {"reporting"})

\* The five-second reporting tick: due, it logs and ends this select.
ReportRates == Goto("reporting", {"shutdown"})
SkipReporting == Goto("reporting", {"tick"})

\* The order tick is due and the precondition holds: admit the next order.
Admit == /\ branch = "tick"
         /\ CanAdmit
         /\ index < MaxOrders
         /\ active_keys' = active_keys \cup {CategoryOf(index)}
         /\ pending' = pending \cup {index}
         /\ task' = [task EXCEPT ![index] = "running"]
         /\ index' = index + 1
         /\ branch' = "shutdown"
         /\ UNCHANGED <<signalled, report, task_error, last_index>>

\* The branch is disabled or its tick is not due: the select waits and is
\* polled again from its first branch when something wakes it.
SkipTick == Goto("tick", {"shutdown"})

\* The drain joins one more delivery; active_keys is not used any more.
Drain(i) ==
  /\ branch = "drain"
  /\ Finished(i)
  /\ pending' = pending \ {i}
  /\ IF task[i] = "panicked"
       THEN task_error' = TRUE /\ UNCHANGED report
       ELSE report' = Record(report, task[i]) /\ UNCHANGED task_error
  /\ UNCHANGED <<branch, signalled, index, active_keys, task, last_index>>

\* The result is Err iff task_error is set; the report is dropped then.
Return == Drained /\ Goto("drain", {"returned"})

\* Once send_orders has returned nothing of it moves; stated so that TLC's
\* deadlock check covers every state before.
Terminated == branch = "returned" /\ UNCHANGED vars

Loop == \/ PollShutdown
        \/ \E i \in pending : JoinDelivery(i) \/ JoinPanic(i) \/ Drain(i)
        \/ SkipJoin \/ ReportRates \/ SkipReporting
        \/ Admit \/ SkipTick
        \/ Return

Next == \/ Loop
        \/ Signal
        \/ \E i \in pending : \E outcome \in Ended : EndTask(i, outcome)
        \/ Terminated

(***************************************************************************)
(* Fairness: the task running send_orders is polled while it can move; the *)
(* reporting tick comes due every five seconds only, so the selects that   *)
(* find it not due never end; the order tick, being periodic, is           *)
(* eventually due when the loop asks again and again; every delivery ends  *)
(* (at most three sends, each bounded by the client's timeouts).  The      *)
(* signal is not fair.                                                     *)
(***************************************************************************)
Fairness == /\ WF_vars(Loop)
            /\ SF_vars(SkipReporting)
            /\ SF_vars(Admit)
            /\ \A i \in Orders : WF_vars(\E outcome \in Ended : EndTask(i, outcome))

Spec == Init /\ [][Next]_vars
FairSpec == Spec /\ Fairness

-----------------------------------------------------------------------------

\* The variables stay in their domains: in particular only generated orders
\* are ever pending and only generated categories occupied.
TypeOK == /\ branch \in SelectBranch \cup {"drain", "returned"}
          /\ signalled \in BOOLEAN
          /\ index \in 0 .. MaxOrders
          /\ pending \subseteq 0 .. index - 1
          /\ active_keys \subseteq Categories
          /\ task \in [Orders -> TaskState]
          /\ report \in [acknowledged : Nat, failed : Nat]
          /\ task_error \in BOOLEAN
          /\ last_index \in 0 .. MaxOrders + 1

\* "A key stays occupied until all retries finish" (producer.rs, module doc):
\* when an order has been admitted, every earlier order of its category has
\* ended, whatever the threads did; so the deliveries of a category never
\* overlap and end in generator order.
KeyOrder == \A j \in 0 .. index - 1 : \A i \in 0 .. j - 1 :
              CategoryOf(i) = CategoryOf(j) => task[i] \in Ended

\* While the loop runs, the occupied keys are exactly those of the deliveries
\* in the JoinSet: no key is released early (which would reorder a category)
\* and none leaks (which would silence a category for good).
KeysMatchPending == branch \in SelectBranch =>
                      active_keys = {CategoryOf(i) : i \in pending}

\* "Maximum pending producer sends, including retries" (the flag's help):
\* the JoinSet never holds more, nor more than one per category.
InFlightBound == /\ Cardinality(pending) <= MaxInFlight
                 /\ Cardinality(pending) <= NumCategories

\* Orders 0 .. index-1 that were joined with the given outcome.
Joined(outcome) == {i \in (0 .. index - 1) \ pending : task[i] = outcome}

\* The running report counts every joined delivery once, under its outcome,
\* in the loop and in the drain.
ReportTallies == /\ report.acknowledged = Cardinality(Joined("acked"))
                 /\ report.failed = Cardinality(Joined("failed"))

\* "Shutdown stops admission and drains every pending delivery" (DESIGN.md):
\* when send_orders returns, each admitted order has been delivered, has
\* failed or has crashed, and was counted as such; none was abandoned.
NothingAbandoned ==
  branch = "returned" =>
    /\ \A i \in 0 .. index - 1 : task[i] \in Ended
    /\ index = report.acknowledged + report.failed + Cardinality(Joined("panicked"))

\* send_orders returns Err exactly when some delivery task panicked, also
\* when it did during the drain or after another one.
ErrorIffPanic == branch = "returned" =>
                   (task_error <=> \E i \in Orders : task[i] = "panicked")

\* A select polls the shutdown future first: a signal that is ready before
\* the first select admits nothing, and one that arrives between two polls
\* of a select lets at most that select's order in.
FewLateOrders == index <= last_index

\* After the loop has seen a panicked delivery no order is admitted.
ErrorStopsAdmission == [][task_error => index' = index]_vars

\* Admission is closed by pending deliveries only, whose joins open it: they
\* take every slot, or one of them is of the next order's category.
ClosedByPending == branch \in SelectBranch /\ ~CanAdmit =>
                     \/ Cardinality(pending) = MaxInFlight
                     \/ \E i \in pending : CategoryOf(i) = CategoryOf(index)

\* The loop that was left is not entered again: in the drain nothing is admitted
\* and deliveries only leave, and once send_orders has returned nothing moves.
ShutdownIsFinal ==
  [][/\ branch = "drain" => /\ branch' \in {"drain", "returned"}
                            /\ index' = index /\ pending' \subseteq pending
     /\ branch = "returned" => UNCHANGED <<branch, index, pending, task, report, task_error>>]_vars

\* Shutdown is never lost nor blocked by slow deliveries that do end: after
\* the signal send_orders returns.
ShutdownReturns == signalled ~> branch = "returned"

\* An ended delivery is joined, so its key and its slot come free again.
EndedIsJoined == \A i \in Orders : Finished(i) ~> i \notin pending

\* Admission never wedges: the bound, the occupied keys and the next order
\* waiting for its own category all let the whole generated prefix through,
\* unless a signal or a panic ends the loop.
AdmissionProgresses == <>(index = MaxOrders \/ branch = "returned")

\* The scheduler implements what the topic's readers are promised.
KD == INSTANCE KeyedDelivery
        WITH Bound <- MaxInFlight, started <- index, unsettled <- pending,
             phase <- CASE branch = "drain" -> "closing"
                        [] branch = "returned" -> "finished"
                        [] OTHER -> "open"
\* Every behaviour of send_orders is one of KeyedDelivery, its obligation to
\* settle and finish included.
ImplementsKeyedDelivery == KD!Spec
=============================================================================
