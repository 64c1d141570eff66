--------------------------- MODULE Producer_proofs --------------------------
(***************************************************************************)
(* Theorems about the producer: its send loop, for every bound on the      *)
(* deliveries in flight, every number of categories and every number of    *)
(* orders, and its deliveries against the topic, for every number of       *)
(* attempts.  A detailed delivery takes steps of the loop's model or       *)
(* leaves it alone, so what is shown of a step of Next in the first half   *)
(* holds of the deliveries in the second.                                  *)
(***************************************************************************)
EXTENDS OrderDelivery, FiniteSetTheorems, TLAPS

\* Remainders are categories: the one fact about % the proofs use.
LEMMA CategoryType == ASSUME NEW i \in Nat PROVE CategoryOf(i) \in Categories
  BY SchedulerAssumption DEF CategoryOf, Categories

\* What SendReport::record does to the two counters.
LEMMA RecordFields ==
  ASSUME NEW rep \in [acknowledged : Nat, failed : Nat], NEW outcome \in Ended
  PROVE  /\ Record(rep, outcome) \in [acknowledged : Nat, failed : Nat]
         /\ Record(rep, outcome).acknowledged
              = rep.acknowledged + (IF outcome = "acked" THEN 1 ELSE 0)
         /\ Record(rep, outcome).failed
              = rep.failed + (IF outcome = "acked" THEN 0 ELSE 1)
<1>1. rep = [acknowledged |-> rep.acknowledged, failed |-> rep.failed]
  OBVIOUS
<1>2. CASE outcome = "acked"
  <2>1. Record(rep, outcome) = [acknowledged |-> rep.acknowledged + 1, failed |-> rep.failed]
    BY <1>1, <1>2 DEF Record
  <2> QED
    BY <2>1, <1>2
<1>3. CASE outcome # "acked"
  <2>1. Record(rep, outcome) = [acknowledged |-> rep.acknowledged, failed |-> rep.failed + 1]
    BY <1>1, <1>3 DEF Record
  <2> QED
    BY <2>1, <1>3
<1> QED
  BY <1>2, <1>3

-----------------------------------------------------------------------------
(* Type correctness.                                                       *)

\* Nothing is typed wrongly before the first poll.
LEMMA InitTypeOK == Init => TypeOK
<1> SUFFICES ASSUME Init PROVE TypeOK
  OBVIOUS
<1>1. task \in [Orders -> TaskState]
  BY DEF Init, TaskState
<1>2. last_index \in 0 .. MaxOrders + 1
  <2>1. last_index = 0 \/ last_index = MaxOrders
    BY DEF Init
  <2> QED
    BY <2>1, SchedulerAssumption
<1>3. index \in 0 .. MaxOrders /\ pending \subseteq 0 .. index - 1
  BY SchedulerAssumption DEF Init
<1>4. report \in [acknowledged : Nat, failed : Nat]
  BY DEF Init
<1> QED
  BY <1>1, <1>2, <1>3, <1>4 DEF Init, TypeOK, SelectBranch

\* A step of the select that only moves to another branch keeps the types.
LEMMA GotoTypeOK ==
  ASSUME TypeOK, NEW from, NEW to,
         to \subseteq SelectBranch \cup {"drain", "returned"}, Goto(from, to)
  PROVE  TypeOK'
  BY DEF TypeOK, Goto

\* Every step of the loop, of a delivery or of the environment keeps the types.
LEMMA NextTypeOK == TypeOK /\ [Next]_vars => TypeOK'
<1> SUFFICES ASSUME TypeOK, [Next]_vars PROVE TypeOK'
  OBVIOUS
<1>1. CASE PollShutdown
  BY <1>1, GotoTypeOK DEF PollShutdown, ShutdownPoll, SelectBranch
<1>2. ASSUME NEW i \in pending, JoinDelivery(i) PROVE TypeOK'
  BY <1>2, RecordFields DEF JoinDelivery, Finished, Release, TypeOK, SelectBranch
<1>3. ASSUME NEW i \in pending, JoinPanic(i) PROVE TypeOK'
  BY <1>3 DEF JoinPanic, OnJoinError, TypeOK, SelectBranch
<1>4. ASSUME NEW i \in pending, Drain(i) PROVE TypeOK'
  BY <1>4, RecordFields DEF Drain, Finished, TypeOK
<1>5. CASE SkipJoin \/ ReportRates \/ SkipReporting \/ SkipTick \/ Return
  BY <1>5, GotoTypeOK DEF SkipJoin, ReportRates, SkipReporting, SkipTick, Return, SelectBranch
<1>6. CASE Admit
  <2>1. index \in Orders /\ index \in Nat
    BY <1>6, SchedulerAssumption DEF Admit, TypeOK, Orders
  <2>2. CategoryOf(index) \in Categories
    BY <2>1, CategoryType
  <2>3. task' \in [Orders -> TaskState]
    BY <1>6, <2>1 DEF Admit, TypeOK, TaskState
  <2>4. index' \in 0 .. MaxOrders /\ pending' \subseteq 0 .. index' - 1
    BY <1>6, <2>1, SchedulerAssumption DEF Admit, TypeOK
  <2> QED
    BY <1>6, <2>2, <2>3, <2>4 DEF Admit, TypeOK, SelectBranch
<1>7. CASE Signal
  BY <1>7, SchedulerAssumption DEF Signal, TypeOK
<1>8. ASSUME NEW i \in pending, NEW outcome \in Ended, EndTask(i, outcome) PROVE TypeOK'
  <2>1. task' \in [Orders -> TaskState]
    BY <1>8 DEF EndTask, TypeOK, TaskState
  <2> QED
    BY <1>8, <2>1 DEF EndTask, TypeOK
<1>9. CASE Terminated \/ UNCHANGED vars
  BY <1>9 DEF Terminated, vars, TypeOK
<1> QED
  BY <1>1, <1>2, <1>3, <1>4, <1>5, <1>6, <1>7, <1>8, <1>9 DEF Next, Loop

\* The variables of send_orders stay in their domains.
THEOREM TypeCorrect == Spec => []TypeOK
  BY InitTypeOK, NextTypeOK, PTL DEF Spec

-----------------------------------------------------------------------------
(* Order per category.                                                     *)

\* Why KeyOrder holds: the occupied keys name the pending deliveries while
\* orders are admitted, and whatever is not pending any more has ended.  The
\* two conjuncts after KeysMatchPending are what a step needs and neither
\* KeyOrder nor KeysMatchPending says.
KeyInv ==
  /\ TypeOK
  /\ KeysMatchPending
  /\ \A i \in (0 .. index - 1) \ pending : task[i] \in Ended
  /\ \A i, j \in pending : CategoryOf(i) = CategoryOf(j) => i = j
  /\ KeyOrder

\* The loop starts with nothing pending and no key occupied.
LEMMA InitKeyInv == Init => KeyInv
  BY InitTypeOK, SchedulerAssumption DEF Init, KeyInv, KeysMatchPending, KeyOrder

\* Joining an ended delivery, whoever joins it, keeps what KeyInv says of tasks.
LEMMA JoinKeepsTasks ==
  ASSUME KeyInv, NEW i \in pending, Finished(i), pending' = pending \ {i},
         UNCHANGED <<index, task>>
  PROVE  /\ \A k \in (0 .. index' - 1) \ pending' : task'[k] \in Ended
         /\ \A k, j \in pending' : CategoryOf(k) = CategoryOf(j) => k = j
         /\ KeyOrder'
  BY DEF KeyInv, Finished, KeyOrder, CategoryOf

\* Moving to another branch keeps KeyInv, if it enters the select from within.
LEMMA GotoKeyInv ==
  ASSUME KeyInv, TypeOK', NEW from, NEW to, Goto(from, to),
         from \in SelectBranch \/ to \cap SelectBranch = {}
  PROVE  KeyInv'
  BY DEF Goto, KeyInv, KeysMatchPending, KeyOrder, CategoryOf

\* Admission is where a second order of an occupied category could get in.
LEMMA AdmitKeyInv == ASSUME KeyInv, TypeOK', Admit PROVE KeyInv'
<1>1. index \in Nat /\ index \in Orders /\ index' = index + 1 /\ index \notin pending
  BY SchedulerAssumption DEF KeyInv, Admit, TypeOK, Orders
<1>2. CategoryOf(index) \notin active_keys /\ active_keys = {CategoryOf(i) : i \in pending}
  BY DEF KeyInv, KeysMatchPending, Admit, CanAdmit, SelectBranch
<1>3. \A i \in pending : CategoryOf(i) # CategoryOf(index)
  BY <1>2
<1>4. /\ pending' = pending \cup {index}
      /\ active_keys' = active_keys \cup {CategoryOf(index)}
      /\ \A i \in 0 .. index - 1 : task'[i] = task[i]
  BY <1>1 DEF Admit, KeyInv, TypeOK
<1>5. KeysMatchPending'
  BY <1>2, <1>4 DEF KeysMatchPending, CategoryOf
<1>6. \A i \in (0 .. index' - 1) \ pending' : task'[i] \in Ended
  BY <1>1, <1>4 DEF KeyInv
<1>7. \A i, j \in pending' : CategoryOf(i) = CategoryOf(j) => i = j
  BY <1>3, <1>4 DEF KeyInv
<1>8. KeyOrder'
  <2> SUFFICES ASSUME NEW j \in 0 .. index' - 1, NEW i \in 0 .. j - 1,
                      CategoryOf(i) = CategoryOf(j)
               PROVE  task'[i] \in Ended
    BY DEF KeyOrder, CategoryOf
  <2>1. i \in 0 .. index - 1
    BY <1>1
  <2>2. CASE j = index
    BY <2>1, <2>2, <1>3, <1>4 DEF KeyInv
  <2>3. CASE j # index
    <3>1. j \in 0 .. index - 1
      BY <1>1, <2>3
    <3> QED
      BY <2>1, <3>1, <1>4 DEF KeyInv, KeyOrder
  <2> QED
    BY <2>2, <2>3
<1> QED
  BY <1>5, <1>6, <1>7, <1>8 DEF KeyInv, CategoryOf

\* The invariant is inductive.
LEMMA NextKeyInv == KeyInv /\ [Next]_vars => KeyInv'
<1> SUFFICES ASSUME KeyInv, [Next]_vars PROVE KeyInv'
  OBVIOUS
<1>0. TypeOK'
  BY NextTypeOK DEF KeyInv
<1>1. CASE PollShutdown \/ SkipJoin \/ ReportRates \/ SkipReporting \/ SkipTick \/ Return
  BY <1>0, <1>1, GotoKeyInv
     DEF PollShutdown, SkipJoin, ReportRates, SkipReporting, SkipTick, Return, SelectBranch
<1>2. ASSUME NEW i \in pending, JoinDelivery(i) PROVE KeyInv'
  <2>1. KeysMatchPending'
    <3>1. active_keys = {CategoryOf(k) : k \in pending}
      BY <1>2 DEF KeyInv, KeysMatchPending, JoinDelivery, SelectBranch
    <3>2. active_keys' = active_keys \ {CategoryOf(i)} /\ pending' = pending \ {i}
      BY <1>2 DEF JoinDelivery, Release
    <3>3. \A k \in pending : CategoryOf(k) = CategoryOf(i) => k = i
      BY DEF KeyInv
    <3> HIDE DEF CategoryOf
    <3> QED
      BY <3>1, <3>2, <3>3 DEF KeysMatchPending
  <2> QED
    BY <1>0, <1>2, <2>1, JoinKeepsTasks DEF KeyInv, JoinDelivery
<1>3. ASSUME NEW i \in pending, JoinPanic(i) PROVE KeyInv'
  BY <1>0, <1>3, JoinKeepsTasks
     DEF KeyInv, JoinPanic, OnJoinError, KeysMatchPending, SelectBranch
<1>4. ASSUME NEW i \in pending, Drain(i) PROVE KeyInv'
  BY <1>0, <1>4, JoinKeepsTasks DEF KeyInv, Drain, KeysMatchPending, SelectBranch
<1>5. CASE Admit
  BY <1>0, <1>5, AdmitKeyInv
<1>6. CASE Signal
  BY <1>0, <1>6 DEF Signal, KeyInv, KeysMatchPending, KeyOrder, CategoryOf
<1>7. ASSUME NEW i \in pending, NEW outcome \in Ended, EndTask(i, outcome) PROVE KeyInv'
  <2>1. \A k \in 0 .. index - 1 : task[k] \in Ended => task'[k] \in Ended
    BY <1>7, SchedulerAssumption DEF EndTask, KeyInv, TypeOK, Orders
  <2>2. KeyOrder'
    <3> SUFFICES ASSUME NEW j \in 0 .. index' - 1, NEW k \in 0 .. j - 1,
                        CategoryOf(k) = CategoryOf(j)
                 PROVE  task'[k] \in Ended
      BY DEF KeyOrder, CategoryOf
    <3>1. index' = index /\ k \in 0 .. index - 1
      BY <1>7 DEF EndTask, KeyInv, TypeOK
    <3> QED
      BY <2>1, <3>1 DEF KeyInv, KeyOrder
  <2> QED
    BY <1>0, <1>7, <2>1, <2>2 DEF KeyInv, EndTask, KeysMatchPending, CategoryOf
<1>8. CASE Terminated \/ UNCHANGED vars
  BY <1>0, <1>8 DEF Terminated, vars, KeyInv, KeysMatchPending, KeyOrder, CategoryOf
<1> QED
  BY <1>1, <1>2, <1>3, <1>4, <1>5, <1>6, <1>7, <1>8 DEF Next, Loop

\* KeyInv holds of every reachable state.
LEMMA KeyInvAlways == Spec => []KeyInv
  BY InitKeyInv, NextKeyInv, PTL DEF Spec

\* The deliveries of a category never overlap and end in generator order: an
\* order is only admitted once every earlier one of its category has ended,
\* retries included.
THEOREM DeliveriesKeepKeyOrder == Spec => []KeyOrder
  BY KeyInvAlways, PTL DEF KeyInv

\* While the loop admits, a category is occupied iff one of its orders is in
\* the JoinSet: no early release, no leak.
THEOREM NoKeyLeaks == Spec => []KeysMatchPending
  BY KeyInvAlways, PTL DEF KeyInv

-----------------------------------------------------------------------------
(* Shutdown: how many orders a signal can still let in.                    *)

\* A select that has polled a ready shutdown future has left the loop, so a
\* signalled select past its first branch polled before the signal and has
\* one order left to admit.
LateInv ==
  /\ TypeOK
  /\ ~signalled => last_index = MaxOrders
  /\ signalled /\ branch \in {"join", "reporting", "tick"} => index < last_index
  /\ FewLateOrders

\* Every step keeps the allowance: only a signal sets it, only Admit uses it.
LEMMA NextLateInv == LateInv /\ [Next]_vars => LateInv'
<1> SUFFICES ASSUME LateInv, [Next]_vars PROVE LateInv'
  OBVIOUS
<1>0. TypeOK'
  BY NextTypeOK DEF LateInv
<1>1. CASE PollShutdown
  <2>1. signalled => branch' = "drain"
    BY <1>1 DEF PollShutdown, Goto, ShutdownPoll
  <2> QED
    BY <1>0, <1>1, <2>1 DEF PollShutdown, Goto, LateInv, FewLateOrders
<1>2. CASE SkipJoin \/ ReportRates \/ SkipReporting \/ SkipTick \/ Return
  BY <1>0, <1>2
     DEF SkipJoin, ReportRates, SkipReporting, SkipTick, Return, Goto, LateInv, FewLateOrders
<1>3. ASSUME NEW i \in pending, JoinDelivery(i) \/ JoinPanic(i) \/ Drain(i) PROVE LateInv'
  BY <1>0, <1>3 DEF JoinDelivery, JoinPanic, OnJoinError, Drain, LateInv, FewLateOrders
<1>4. CASE Admit
  <2>1. index < last_index
    BY <1>4 DEF Admit, LateInv
  <2> QED
    BY <1>0, <1>4, <2>1 DEF Admit, LateInv, FewLateOrders, TypeOK
<1>5. CASE Signal
  BY <1>0, <1>5 DEF Signal, LateInv, FewLateOrders, TypeOK, SelectBranch
<1>6. ASSUME NEW i \in pending, NEW outcome \in Ended, EndTask(i, outcome) PROVE LateInv'
  BY <1>0, <1>6 DEF EndTask, LateInv, FewLateOrders
<1>7. CASE Terminated \/ UNCHANGED vars
  BY <1>0, <1>7 DEF Terminated, vars, LateInv, FewLateOrders
<1> QED
  BY <1>1, <1>2, <1>3, <1>4, <1>5, <1>6, <1>7 DEF Next, Loop

\* A signal that is ready before the first select admits nothing; a later one
\* lets in at most the order of the select it interrupts.
THEOREM ShutdownStopsAdmission == Spec => []FewLateOrders
<1>1. Init => LateInv
  <2> SUFFICES ASSUME Init PROVE LateInv
    OBVIOUS
  <2>1. FewLateOrders
    <3>1. index = 0 /\ (last_index = 0 \/ last_index = MaxOrders)
      BY DEF Init
    <3> QED
      BY <3>1, SchedulerAssumption DEF FewLateOrders
  <2> QED
    BY <2>1, InitTypeOK DEF Init, LateInv
<1> QED
  BY <1>1, NextLateInv, PTL DEF Spec, LateInv

-----------------------------------------------------------------------------
(* Panicked deliveries.                                                    *)

\* The error is set exactly for the panics already joined, and it is never
\* set while the loop runs.
ErrorInv ==
  /\ KeyInv
  /\ task_error => branch \notin SelectBranch
  /\ task_error <=> \E i \in (0 .. index - 1) \ pending : task[i] = "panicked"
  /\ \A i \in Orders : i >= index => task[i] = "unspawned"
  /\ branch = "returned" => pending = {}

\* Every step keeps it.
LEMMA NextErrorInv == ErrorInv /\ [Next]_vars => ErrorInv'
<1> SUFFICES ASSUME ErrorInv, [Next]_vars PROVE ErrorInv'
  OBVIOUS
<1>0. KeyInv' /\ TypeOK /\ TypeOK'
  BY NextKeyInv DEF ErrorInv, KeyInv
<1>1. CASE PollShutdown \/ SkipJoin \/ ReportRates \/ SkipReporting \/ SkipTick \/ Return
  <2>1. /\ UNCHANGED <<index, pending, task, task_error>>
        /\ branch' \in SelectBranch => branch \in SelectBranch
        /\ branch' = "returned" => pending' = {}
    BY <1>1 DEF PollShutdown, ShutdownPoll, SkipJoin, ReportRates, SkipReporting, SkipTick,
                Return, Drained, Goto, SelectBranch, ErrorInv
  <2> QED
    BY <1>0, <2>1 DEF ErrorInv
<1>2. ASSUME NEW i \in pending, JoinDelivery(i) PROVE ErrorInv'
  <2>1. task[i] # "panicked" /\ pending' = pending \ {i}
        /\ UNCHANGED <<index, task, task_error>> /\ branch' = "shutdown"
        /\ branch = "join"
    BY <1>2 DEF JoinDelivery
  <2> QED
    BY <1>0, <2>1 DEF ErrorInv, SelectBranch
<1>3. ASSUME NEW i \in pending, JoinPanic(i) PROVE ErrorInv'
  <2>1. i \in 0 .. index - 1
    BY <1>0 DEF TypeOK
  <2> QED
    BY <1>0, <1>3, <2>1 DEF ErrorInv, JoinPanic, OnJoinError, SelectBranch
<1>4. ASSUME NEW i \in pending, Drain(i) PROVE ErrorInv'
  <2>1. i \in 0 .. index - 1
    BY <1>0 DEF TypeOK
  <2>2. /\ pending' = pending \ {i}
        /\ UNCHANGED <<index, task, branch>> /\ branch = "drain"
        /\ task_error' <=> (task_error \/ task[i] = "panicked")
    BY <1>0, <1>4 DEF Drain, TypeOK
  <2> QED
    BY <1>0, <2>1, <2>2 DEF ErrorInv, SelectBranch, TypeOK
<1>5. CASE Admit
  <2>1. index \in Nat /\ index \in Orders /\ index' = index + 1 /\ index \notin pending
    BY <1>0, <1>5, SchedulerAssumption DEF Admit, TypeOK, Orders
  <2>2. /\ pending' = pending \cup {index} /\ task_error' = task_error
        /\ task' = [task EXCEPT ![index] = "running"]
        /\ branch' = "shutdown" /\ branch = "tick"
    BY <1>5 DEF Admit
  <2>3. (0 .. index' - 1) \ pending' = (0 .. index - 1) \ pending
    BY <2>1, <2>2
  <2>4. \A k \in Orders : k # index => task'[k] = task[k]
    BY <2>2, <1>0 DEF TypeOK
  <2>5. \A k \in (0 .. index - 1) : k \in Orders /\ k # index
    BY <1>0, <2>1, SchedulerAssumption DEF Orders, TypeOK
  <2>6. \A k \in Orders : k >= index' => task'[k] = "unspawned"
    BY <2>1, <2>4, SchedulerAssumption DEF ErrorInv, Orders
  <2>7. task_error' <=> \E k \in (0 .. index' - 1) \ pending' : task'[k] = "panicked"
    BY <2>2, <2>3, <2>4, <2>5 DEF ErrorInv
  <2> QED
    BY <1>0, <2>2, <2>6, <2>7 DEF ErrorInv, SelectBranch
<1>6. CASE Signal
  BY <1>0, <1>6 DEF Signal, ErrorInv
<1>7. ASSUME NEW i \in pending, NEW outcome \in Ended, EndTask(i, outcome) PROVE ErrorInv'
  <2>1. i \in 0 .. index - 1 /\ i < index
    BY <1>0 DEF TypeOK
  <2>2. \A k \in Orders : k # i => task'[k] = task[k]
    BY <1>0, <1>7 DEF EndTask, TypeOK
  <2>3. 0 .. index - 1 \subseteq Orders
    BY <1>0, SchedulerAssumption DEF Orders, TypeOK
  <2>4. UNCHANGED <<branch, index, pending, task_error>>
    BY <1>7 DEF EndTask
  <2>5. \A k \in Orders : k >= index' => task'[k] = "unspawned"
    BY <1>0, <2>1, <2>2, <2>4, SchedulerAssumption DEF ErrorInv, Orders, TypeOK
  <2>6. task_error' <=> \E k \in (0 .. index' - 1) \ pending' : task'[k] = "panicked"
    BY <2>2, <2>3, <2>4 DEF ErrorInv
  <2> QED
    BY <1>0, <2>4, <2>5, <2>6 DEF ErrorInv
<1>8. CASE Terminated \/ UNCHANGED vars
  BY <1>0, <1>8 DEF Terminated, vars, ErrorInv
<1> QED
  BY <1>1, <1>2, <1>3, <1>4, <1>5, <1>6, <1>7, <1>8 DEF Next, Loop

\* ErrorInv holds of every reachable state.
LEMMA ErrorInvAlways == Spec => []ErrorInv
<1>1. Init => ErrorInv
  BY InitKeyInv, SchedulerAssumption DEF Init, ErrorInv, Orders
<1> QED
  BY <1>1, NextErrorInv, PTL DEF Spec

\* send_orders returns Err exactly when some delivery task panicked.
THEOREM PanicsAreReported == Spec => []ErrorIffPanic
<1>1. ErrorInv => ErrorIffPanic
  <2> SUFFICES ASSUME ErrorInv, branch = "returned"
               PROVE  task_error <=> \E i \in Orders : task[i] = "panicked"
    BY DEF ErrorIffPanic
  <2>1. pending = {} /\ TypeOK
    BY DEF ErrorInv, KeyInv
  <2>2. 0 .. index - 1 \subseteq Orders
    BY <2>1, SchedulerAssumption DEF Orders, TypeOK
  <2>3. \A i \in Orders : task[i] = "panicked" => i \in 0 .. index - 1
    BY <2>1, SchedulerAssumption DEF ErrorInv, Orders, TypeOK
  <2> QED
    BY <2>1, <2>2, <2>3 DEF ErrorInv
<1> QED
  BY <1>1, ErrorInvAlways, PTL

\* Once the loop has seen a panicked delivery it admits no order.
THEOREM PanicStopsAdmission == Spec => ErrorStopsAdmission
<1>1. ErrorInv /\ [Next]_vars => [task_error => index' = index]_vars
  <2> SUFFICES ASSUME ErrorInv, Next, task_error PROVE index' = index
    OBVIOUS
  <2>1. ~Admit
    BY DEF ErrorInv, Admit, SelectBranch
  <2> QED
    BY <2>1 DEF Next, Loop, PollShutdown, SkipJoin, ReportRates, SkipReporting, SkipTick,
                Return, Goto, JoinDelivery, JoinPanic, Drain, Signal, EndTask, Terminated, vars
<1> QED
  BY <1>1, ErrorInvAlways, PTL DEF Spec, ErrorStopsAdmission

\* The loop that was left stays left: in the drain deliveries only leave the
\* JoinSet, and after the return nothing of send_orders moves.
THEOREM LoopIsNotReentered == Spec => ShutdownIsFinal
<1> DEFINE Final == /\ branch = "drain" => /\ branch' \in {"drain", "returned"}
                                           /\ index' = index /\ pending' \subseteq pending
                    /\ branch = "returned" =>
                         UNCHANGED <<branch, index, pending, task, report, task_error>>
<1>1. ErrorInv /\ [Next]_vars => [Final]_vars
  <2> SUFFICES ASSUME ErrorInv, Next PROVE Final
    OBVIOUS
  <2>1. CASE branch = "drain"
    BY <2>1 DEF Next, Loop, PollShutdown, SkipJoin, ReportRates, SkipReporting, SkipTick, Admit,
                Return, Goto, JoinDelivery, JoinPanic, Drain, Signal, EndTask, Terminated, vars
  <2>2. CASE branch = "returned"
    <3>1. pending = {}
      BY <2>2 DEF ErrorInv
    <3> QED
      BY <2>2, <3>1 DEF Next, Loop, PollShutdown, SkipJoin, ReportRates, SkipReporting, SkipTick,
                        Admit, Return, Goto, Signal, Terminated, vars
  <2> QED
    BY <2>1, <2>2
<1> QED
  BY <1>1, ErrorInvAlways, PTL DEF Spec, ShutdownIsFinal

-----------------------------------------------------------------------------
(* Counting: finite sets of admitted orders.                               *)

\* The orders admitted so far are finitely many, and so is every part of them.
LEMMA AdmittedFinite ==
  ASSUME TypeOK
  PROVE  /\ IsFiniteSet(0 .. index - 1)
         /\ Cardinality(0 .. index - 1) = index
         /\ \A S : S \subseteq 0 .. index - 1 => IsFiniteSet(S)
<1>1. index \in Nat
  BY SchedulerAssumption DEF TypeOK
<1>2. IsFiniteSet(0 .. index - 1) /\ Cardinality(0 .. index - 1) = index
  BY <1>1, FS_Interval
<1> QED
  BY <1>2, FS_Subset

\* Disjoint finite sets add up.
LEMMA DisjointCardinality ==
  ASSUME NEW S, IsFiniteSet(S), NEW T, IsFiniteSet(T), S \cap T = {}
  PROVE  IsFiniteSet(S \cup T) /\ Cardinality(S \cup T) = Cardinality(S) + Cardinality(T)
<1>1. Cardinality(S) \in Nat /\ Cardinality(T) \in Nat
  BY FS_CardinalityType
<1>2. Cardinality(S \cap T) = 0
  BY FS_EmptySet
<1>3. IsFiniteSet(S \cup T)
      /\ Cardinality(S \cup T) = Cardinality(S) + Cardinality(T) - Cardinality(S \cap T)
  BY FS_Union
<1> QED
  BY <1>1, <1>2, <1>3

-----------------------------------------------------------------------------
(* Deliveries in flight.                                                   *)

\* Pending deliveries have distinct categories, of which there are finitely many.
LEMMA OnePerCategory == ASSUME KeyInv PROVE Cardinality(pending) <= NumCategories
<1>1. IsFiniteSet(pending) /\ Cardinality(pending) \in Nat
  BY AdmittedFinite, FS_CardinalityType DEF KeyInv, TypeOK
<1>2. IsFiniteSet(Categories) /\ Cardinality(Categories) = NumCategories
  BY FS_Interval, SchedulerAssumption DEF Categories
<1>3. SUFFICES ASSUME Cardinality(Categories) < Cardinality(pending) PROVE FALSE
  BY <1>1, <1>2, SchedulerAssumption
<1> DEFINE key == [i \in pending |-> CategoryOf(i)]
<1>4. key \in [pending -> Categories]
  BY CategoryType, SchedulerAssumption DEF KeyInv, TypeOK
<1>5. \E i, j \in pending : i # j /\ key[i] = key[j]
  <2> HIDE DEF key
  <2> QED
    BY <1>1, <1>2, <1>3, <1>4, FS_PigeonHole
<1> QED
  BY <1>5 DEF KeyInv

\* The bound is checked where a delivery is added and nowhere else.
BoundInv == KeyInv /\ Cardinality(pending) <= MaxInFlight

\* Joining makes room, admission takes one of the free places.
LEMMA NextBoundInv == BoundInv /\ [Next]_vars => BoundInv'
<1> SUFFICES ASSUME BoundInv, [Next]_vars PROVE BoundInv'
  OBVIOUS
<1>1. KeyInv' /\ IsFiniteSet(pending) /\ Cardinality(pending) \in Nat
  BY NextKeyInv, AdmittedFinite, FS_CardinalityType DEF BoundInv, KeyInv, TypeOK
<1>2. ASSUME NEW i \in pending, pending' = pending \ {i} PROVE BoundInv'
  <2>1. Cardinality(pending \ {i}) = Cardinality(pending) - 1
    BY <1>1, FS_RemoveElement
  <2> QED
    BY <1>1, <1>2, <2>1, SchedulerAssumption DEF BoundInv
<1>3. CASE Admit
  <2>1. Cardinality(pending \cup {index}) <= Cardinality(pending) + 1
    BY <1>1, FS_AddElement
  <2>2. Cardinality(pending) < MaxInFlight /\ pending' = pending \cup {index}
    BY <1>3 DEF Admit, CanAdmit
  <2>3. Cardinality(pending \cup {index}) \in Nat
    BY <1>1, FS_AddElement, FS_CardinalityType
  <2> QED
    BY <1>1, <2>1, <2>2, <2>3, SchedulerAssumption DEF BoundInv
<1>4. CASE UNCHANGED pending
  BY <1>1, <1>4 DEF BoundInv
<1> QED
  BY <1>2, <1>3, <1>4 DEF Next, Loop, vars, PollShutdown, SkipJoin, ReportRates, SkipReporting,
     SkipTick, Return, Goto, JoinDelivery, JoinPanic, Drain, Signal, EndTask, Terminated

\* BoundInv holds of every reachable state.
LEMMA BoundInvAlways == Spec => []BoundInv
<1>1. Init => BoundInv
  BY InitKeyInv, FS_EmptySet, SchedulerAssumption DEF Init, BoundInv
<1> QED
  BY <1>1, NextBoundInv, PTL DEF Spec

\* At most --producer-max-in-flight deliveries are pending, retries included,
\* and at most one per category.
THEOREM DeliveriesAreBounded == Spec => []InFlightBound
<1>1. BoundInv => InFlightBound
  BY OnePerCategory DEF BoundInv, InFlightBound
<1> QED
  BY <1>1, BoundInvAlways, PTL

\* Admission waits for pending deliveries only: no key and no slot stays taken
\* that no join will give back.
THEOREM AdmissionIsNotWedged == Spec => []ClosedByPending
<1>1. BoundInv => ClosedByPending
  <2> SUFFICES ASSUME BoundInv, branch \in SelectBranch, Cardinality(pending) # MaxInFlight,
                      ~CanAdmit
               PROVE  \E i \in pending : CategoryOf(i) = CategoryOf(index)
    BY DEF ClosedByPending
  <2>1. Cardinality(pending) \in Nat
    BY AdmittedFinite, FS_CardinalityType DEF BoundInv, KeyInv, TypeOK
  <2>2. Cardinality(pending) < MaxInFlight
    BY <2>1, SchedulerAssumption DEF BoundInv
  <2>3. CategoryOf(index) \in active_keys
    BY <2>2 DEF CanAdmit
  <2>4. active_keys = {CategoryOf(i) : i \in pending}
    BY DEF BoundInv, KeyInv, KeysMatchPending
  <2> QED
    BY <2>3, <2>4
<1> QED
  BY <1>1, BoundInvAlways, PTL

-----------------------------------------------------------------------------
(* The report.                                                             *)

\* What the report's exactness rests on: the joined orders have ended.
TallyInv == ErrorInv /\ ReportTallies

\* Joining delivery i adds it to the orders joined with its outcome.
LEMMA JoinTallies ==
  ASSUME TallyInv, TypeOK', NEW i \in pending, Finished(i), pending' = pending \ {i},
         UNCHANGED <<index, task>>,
         \/ task[i] # "panicked" /\ report' = Record(report, task[i])
         \/ task[i] = "panicked" /\ report' = report
  PROVE  ReportTallies'
<1>1. TypeOK /\ i \in 0 .. index - 1 /\ task[i] \in Ended
  BY DEF TallyInv, ErrorInv, KeyInv, TypeOK, Finished
<1>2. ASSUME NEW o \in {"acked", "failed"}
      PROVE  /\ Cardinality(Joined(o)) \in Nat
             /\ task[i] = o => Cardinality(Joined(o)') = Cardinality(Joined(o)) + 1
             /\ task[i] # o => Joined(o)' = Joined(o)
  <2>1. IsFiniteSet(Joined(o)) /\ i \notin Joined(o)
    BY <1>1, AdmittedFinite DEF Joined
  <2>2. task[i] = o => Joined(o)' = Joined(o) \cup {i}
    BY <1>1 DEF Joined
  <2>3. task[i] # o => Joined(o)' = Joined(o)
    BY <1>1 DEF Joined
  <2> QED
    BY <2>1, <2>2, <2>3, FS_AddElement, FS_CardinalityType
<1>3. report \in [acknowledged : Nat, failed : Nat]
  BY <1>1 DEF TypeOK
<1>4. CASE task[i] = "acked"
  <2>1. report'.acknowledged = report.acknowledged + 1 /\ report'.failed = report.failed
    BY <1>1, <1>3, <1>4, RecordFields
  <2> QED
    BY <1>2, <1>4, <2>1 DEF TallyInv, ReportTallies
<1>5. CASE task[i] = "failed"
  <2>1. report'.acknowledged = report.acknowledged /\ report'.failed = report.failed + 1
    BY <1>1, <1>3, <1>5, RecordFields
  <2> QED
    BY <1>2, <1>5, <2>1 DEF TallyInv, ReportTallies
<1>6. CASE task[i] = "panicked"
  BY <1>2, <1>6 DEF TallyInv, ReportTallies
<1> QED
  BY <1>1, <1>4, <1>5, <1>6 DEF Ended

\* A step that joins nothing leaves the joined orders and the report alone.
LEMMA NextTallyInv == TallyInv /\ [Next]_vars => TallyInv'
<1> SUFFICES ASSUME TallyInv, [Next]_vars PROVE TallyInv'
  OBVIOUS
<1>0. ErrorInv' /\ TypeOK' /\ TypeOK /\ index \in Nat
  BY NextErrorInv, SchedulerAssumption DEF TallyInv, ErrorInv, KeyInv, TypeOK
<1>1. ASSUME NEW i \in pending, JoinDelivery(i) \/ JoinPanic(i) \/ Drain(i) PROVE TallyInv'
  <2>1. ReportTallies'
    BY <1>0, <1>1, JoinTallies DEF JoinDelivery, JoinPanic, OnJoinError, Drain
  <2> QED
    BY <1>0, <2>1 DEF TallyInv
<1>2. ASSUME report' = report, \A o \in Ended : Joined(o)' = Joined(o) PROVE TallyInv'
  BY <1>0, <1>2 DEF TallyInv, ReportTallies, Ended
<1>3. CASE Admit
  <2>1. index' = index + 1 /\ pending' = pending \cup {index} /\ report' = report
        /\ task' = [task EXCEPT ![index] = "running"] /\ index \in Orders
    BY <1>0, <1>3, SchedulerAssumption DEF Admit, Orders
  <2>2. (0 .. index' - 1) \ pending' = (0 .. index - 1) \ pending
    BY <1>0, <2>1 DEF TypeOK
  <2>3. \A k \in 0 .. index - 1 : task'[k] = task[k]
    BY <1>0, <2>1, SchedulerAssumption DEF TypeOK, Orders
  <2> QED
    BY <1>2, <2>1, <2>2, <2>3 DEF Joined
<1>4. ASSUME NEW i \in pending, NEW outcome \in Ended, EndTask(i, outcome) PROVE TallyInv'
  <2>1. \A k \in (0 .. index - 1) \ pending : task'[k] = task[k]
    BY <1>0, <1>4, SchedulerAssumption DEF EndTask, TypeOK, Orders
  <2> QED
    BY <1>2, <1>4, <2>1 DEF EndTask, Joined
<1>5. CASE UNCHANGED <<index, pending, task, report>>
  BY <1>2, <1>5 DEF Joined
<1> QED
  BY <1>1, <1>3, <1>4, <1>5 DEF Next, Loop, vars, PollShutdown, SkipJoin, ReportRates,
     SkipReporting, SkipTick, Return, Goto, Signal, Terminated

\* TallyInv holds of every reachable state.
LEMMA TallyInvAlways == Spec => []TallyInv
<1>1. Init => ErrorInv
  BY InitKeyInv, SchedulerAssumption DEF Init, ErrorInv, Orders
<1>2. Init => ReportTallies
  <2> SUFFICES ASSUME Init PROVE ReportTallies
    OBVIOUS
  <2>1. \A o \in Ended : Joined(o) = {}
    BY DEF Init, Joined
  <2> QED
    BY <2>1, FS_EmptySet DEF Init, ReportTallies, Ended
<1> QED
  BY <1>1, <1>2, NextTallyInv, PTL DEF Spec, TallyInv

\* The report counts every joined delivery once, under its outcome.
THEOREM ReportIsExact == Spec => []ReportTallies
  BY TallyInvAlways, PTL DEF TallyInv

\* Nothing admitted is abandoned: when send_orders returns, the deliveries
\* acknowledged, failed and panicked add up to the orders admitted.
THEOREM DrainIsComplete == Spec => []NothingAbandoned
<1>1. TallyInv => NothingAbandoned
  <2> SUFFICES ASSUME TallyInv, branch = "returned"
               PROVE  /\ \A i \in 0 .. index - 1 : task[i] \in Ended
                      /\ index = report.acknowledged + report.failed
                                   + Cardinality(Joined("panicked"))
    BY DEF NothingAbandoned
  <2>1. pending = {} /\ TypeOK
    BY DEF TallyInv, ErrorInv, KeyInv
  <2>2. \A i \in 0 .. index - 1 : task[i] \in Ended
    BY <2>1 DEF TallyInv, ErrorInv, KeyInv
  <2> DEFINE A == Joined("acked")
             F == Joined("failed")
             P == Joined("panicked")
  <2>3. 0 .. index - 1 = (A \cup F) \cup P
    BY <2>1, <2>2 DEF Joined, Ended
  <2>4. A \cap F = {} /\ (A \cup F) \cap P = {}
    BY DEF Joined
  <2>5. IsFiniteSet(A) /\ IsFiniteSet(F) /\ IsFiniteSet(P) /\ Cardinality(0 .. index - 1) = index
    BY <2>1, AdmittedFinite DEF Joined
  <2>6. report.acknowledged = Cardinality(A) /\ report.failed = Cardinality(F)
    BY DEF TallyInv, ReportTallies
  <2> HIDE DEF A, F, P
  <2>7. IsFiniteSet(A \cup F) /\ Cardinality(A \cup F) = Cardinality(A) + Cardinality(F)
    BY <2>4, <2>5, DisjointCardinality
  <2>8. Cardinality((A \cup F) \cup P) = Cardinality(A \cup F) + Cardinality(P)
    BY <2>4, <2>5, <2>7, DisjointCardinality
  <2> QED
    BY <2>2, <2>3, <2>5, <2>6, <2>7, <2>8 DEF P
<1> QED
  BY <1>1, TallyInvAlways, PTL

-----------------------------------------------------------------------------
(* Refinement.                                                             *)

\* Each step of the select loop is a step of the abstract producer or leaves
\* it unchanged; what the key set excludes is what the abstract Start asks.
THEOREM SchedulerRefines == Spec => KD!Init /\ [][KD!Next]_(KD!vars)
<1>1. Init => KD!Init
  BY DEF Init, KD!Init
<1>2. TallyInv /\ [Next]_vars => [KD!Next]_(KD!vars)
  <2> SUFFICES ASSUME TallyInv, [Next]_vars PROVE [KD!Next]_(KD!vars)
    OBVIOUS
  <2> DEFINE phase == CASE branch = "drain" -> "closing"
                        [] branch = "returned" -> "finished"
                        [] OTHER -> "open"
  <2>1. CASE PollShutdown
    <3>1. phase = "open" /\ (phase' = "open" \/ phase' = "closing") /\ UNCHANGED <<index, pending>>
      BY <2>1 DEF PollShutdown, ShutdownPoll, Goto
    <3> QED
      BY <3>1 DEF KD!Next, KD!Close, KD!vars
  <2>2. ASSUME NEW i \in pending, JoinDelivery(i) \/ JoinPanic(i) \/ Drain(i)
        PROVE  [KD!Next]_(KD!vars)
    <3>1. pending' = pending \ {i} /\ index' = index
      BY <2>2 DEF JoinDelivery, JoinPanic, Drain
    <3>2. phase' = phase \/ (phase = "open" /\ phase' = "closing")
      BY <2>2 DEF JoinDelivery, JoinPanic, OnJoinError, Drain
    <3> QED
      BY <3>1, <3>2 DEF KD!Next, KD!Settle
  <2>3. CASE Admit
    <3>1. active_keys = {CategoryOf(i) : i \in pending} /\ CategoryOf(index) \notin active_keys
          /\ Cardinality(pending) < MaxInFlight
      BY <2>3 DEF TallyInv, ErrorInv, KeyInv, KeysMatchPending, Admit, CanAdmit, SelectBranch
    <3>2. \A i \in pending : KD!Key(i) # KD!Key(index)
      BY <3>1 DEF KD!Key, CategoryOf
    <3>3. /\ index < MaxOrders /\ pending' = pending \cup {index} /\ index' = index + 1
          /\ phase = "open" /\ phase' = "open"
      BY <2>3 DEF Admit
    <3>4. KD!Cardinality(pending) = Cardinality(pending)
      BY DEF KD!Cardinality, Cardinality
    <3> QED
      BY <3>1, <3>2, <3>3, <3>4 DEF KD!Next, KD!Start
  <2>4. CASE Return
    <3>1. pending = {} /\ phase = "closing" /\ phase' = "finished" /\ UNCHANGED <<index, pending>>
      BY <2>4 DEF Return, Drained, Goto
    <3> QED
      BY <3>1 DEF KD!Next, KD!Finish
  <2>5. CASE SkipJoin \/ ReportRates \/ SkipReporting \/ SkipTick
    BY <2>5 DEF SkipJoin, ReportRates, SkipReporting, SkipTick, Goto, KD!vars
  <2>6. CASE UNCHANGED <<branch, index, pending>>
    BY <2>6 DEF KD!vars
  <2> QED
    BY <2>1, <2>2, <2>3, <2>4, <2>5, <2>6 DEF Next, Loop, vars, Signal, EndTask, Terminated
<1> QED
  BY <1>1, <1>2, TallyInvAlways, PTL DEF Spec

-----------------------------------------------------------------------------
(* Refinement.                                                             *)

\* Ending in one of its three outcomes is all a delivery shows the scheduler.
LEMMA DeliveryStep == DeliveryNext => [Next]_vars
<1> SUFFICES ASSUME DeliveryNext PROVE [Next]_vars
  OBVIOUS
<1>1. CASE (Loop \/ Signal \/ Terminated) /\ UNCHANGED deliveryVars
  BY <1>1 DEF Next
<1>2. ASSUME NEW i \in pending, BrokerAppend(i) \/ Retry(i) PROVE UNCHANGED vars
  BY <1>2 DEF BrokerAppend, Retry
<1>3. ASSUME NEW i \in pending, SendSucceeds(i) \/ GiveUp(i) \/ Panic(i) PROVE Next
  <2>1. \E outcome \in Ended : EndTask(i, outcome)
    BY <1>3 DEF SendSucceeds, GiveUp, Panic, Ended
  <2> QED
    BY <2>1 DEF Next
<1> QED
  BY <1>1, <1>2, <1>3 DEF DeliveryNext

\* Retries, lost answers and duplicates implement the delivery tasks that the
\* scheduler's model assumes: every behaviour is one of send_orders.
THEOREM DeliveryRefines == DeliverySpec => Spec
<1>1. DeliveryInit => Init
  BY DEF DeliveryInit
<1>2. [DeliveryNext]_allVars => [Next]_vars
  BY DeliveryStep DEF allVars
<1> QED
  BY <1>1, <1>2, PTL DEF DeliverySpec, Spec

\* So what the topic's readers are promised holds of the deliveries with their
\* retries too.
THEOREM ProducerKeepsPromise == DeliverySpec => KD!Init /\ [][KD!Next]_(KD!vars)
  BY DeliveryRefines, SchedulerRefines, PTL

-----------------------------------------------------------------------------
(* The topic.                                                              *)

\* A category's log holds admitted orders of its own, in order; an attempt
\* known to be appended is there.  KeyOrder gives the rest: an order that still
\* runs has no admitted successor of its category.
LogInv ==
  /\ ErrorInv
  /\ DeliveryTypeOK
  /\ log \in [Categories -> Seq(Nat)]
  /\ \A k \in Categories : \A n \in DOMAIN log[k] : log[k][n] < index
  /\ TopicKeyOrder

\* Nothing is logged before the first delivery.
LEMMA InitLogInv == DeliveryInit => LogInv
<1> SUFFICES ASSUME DeliveryInit PROVE LogInv
  OBVIOUS
<1>1. ErrorInv
  BY InitKeyInv, SchedulerAssumption DEF DeliveryInit, Init, ErrorInv, Orders
<1>2. attempt \in [Orders -> 1 .. MaxAttempts] /\ appended \in [Orders -> BOOLEAN]
  BY AttemptsAssumption DEF DeliveryInit
<1>3. \A k \in Categories : log[k] = <<>>
  BY DEF DeliveryInit
<1> QED
  BY <1>1, <1>2, <1>3 DEF DeliveryInit, LogInv, DeliveryTypeOK, TopicKeyOrder

\* Where a pending order stands.
LEMMA PendingType ==
  ASSUME KeyInv, NEW i \in pending
  PROVE  i \in Nat /\ i \in Orders /\ i < index /\ index \in Nat /\ CategoryOf(i) \in Categories
<1>1. i \in Nat /\ i \in Orders /\ i < index /\ index \in Nat
  BY SchedulerAssumption DEF KeyInv, TypeOK, Orders
<1> QED
  BY <1>1, CategoryType

\* An append is where a late copy could come after a successor.
LEMMA AppendKeepsOrder ==
  ASSUME LogInv, NEW i \in pending, BrokerAppend(i)
  PROVE  /\ log' \in [Categories -> Seq(Nat)]
         /\ \A k \in Categories : \A n \in DOMAIN log'[k] :
              log'[k][n] < index /\ CategoryOf(log'[k][n]) = k
         /\ TopicKeyOrder'
<1> DEFINE c == CategoryOf(i)
<1>0. i \in Nat /\ i \in Orders /\ i < index /\ index \in Nat /\ c \in Categories
  BY PendingType DEF LogInv, ErrorInv
<1>1. /\ log \in [Categories -> Seq(Nat)]
      /\ \A k \in Categories : \A n \in DOMAIN log[k] :
           log[k][n] < index /\ CategoryOf(log[k][n]) = k
      /\ TopicKeyOrder
  BY DEF LogInv, DeliveryTypeOK
<1>2. task[i] = "running" /\ log' = [log EXCEPT ![c] = Append(@, i)]
  BY DEF BrokerAppend, Running
<1>3. \A n \in DOMAIN log[c] : log[c][n] <= i
  <2> SUFFICES ASSUME NEW n \in DOMAIN log[c], i < log[c][n] PROVE FALSE
    BY <1>0, <1>1
  <2> DEFINE j == log[c][n]
  <2>1. j \in Nat /\ j < index /\ CategoryOf(j) = c
    BY <1>0, <1>1
  <2>2. j \in 0 .. index - 1 /\ i \in 0 .. j - 1
    BY <1>0, <2>1
  <2>3. KeyOrder
    BY DEF LogInv, ErrorInv, KeyInv
  <2>4. task[i] \in Ended
    BY <2>1, <2>2, <2>3 DEF KeyOrder
  <2> QED
    BY <1>2, <2>4 DEF Ended
<1> HIDE DEF c
<1>4. log'[c] = Append(log[c], i) /\ \A k \in Categories \ {c} : log'[k] = log[k]
  BY <1>0, <1>1, <1>2
<1>5. /\ Len(log[c]) \in Nat /\ DOMAIN log[c] = 1 .. Len(log[c])
      /\ DOMAIN log'[c] = 1 .. Len(log[c]) + 1
      /\ \A n \in 1 .. Len(log[c]) : log'[c][n] = log[c][n]
      /\ log'[c][Len(log[c]) + 1] = i
  BY <1>0, <1>1, <1>4
<1>6. log' \in [Categories -> Seq(Nat)]
  BY <1>0, <1>1, <1>2
<1>7. ASSUME NEW k \in Categories, NEW n \in DOMAIN log'[k]
      PROVE  log'[k][n] < index /\ CategoryOf(log'[k][n]) = k
  <2>1. CASE k = c
    <3>1. n \in 1 .. Len(log[c]) \/ n = Len(log[c]) + 1
      BY <1>5, <1>7, <2>1
    <3>2. CASE n = Len(log[c]) + 1
      BY <1>0, <1>5, <2>1, <3>2 DEF c
    <3>3. CASE n \in 1 .. Len(log[c])
      BY <1>0, <1>1, <1>5, <2>1, <3>3
    <3> QED
      BY <3>1, <3>2, <3>3
  <2>2. CASE k # c
    BY <1>1, <1>4, <1>7, <2>2
  <2> QED
    BY <2>1, <2>2
<1>8. ASSUME NEW k \in Categories, NEW m \in DOMAIN log'[k], NEW n \in DOMAIN log'[k], m <= n
      PROVE  log'[k][m] <= log'[k][n]
  <2>1. CASE k = c
    <3>1. m \in 1 .. Len(log[c]) + 1 /\ n \in 1 .. Len(log[c]) + 1
      BY <1>5, <1>8, <2>1
    <3>2. CASE n = Len(log[c]) + 1
      <4>1. log'[c][m] = i \/ (m \in DOMAIN log[c] /\ log'[c][m] = log[c][m])
        BY <1>5, <3>1
      <4> QED
        BY <1>0, <1>3, <1>5, <2>1, <3>2, <4>1
    <3>3. CASE n # Len(log[c]) + 1
      <4>1. m \in 1 .. Len(log[c]) /\ n \in 1 .. Len(log[c])
        BY <1>5, <1>8, <3>1, <3>3
      <4> QED
        BY <1>0, <1>1, <1>5, <1>8, <2>1, <4>1 DEF TopicKeyOrder
    <3> QED
      BY <3>2, <3>3
  <2>2. CASE k # c
    BY <1>1, <1>4, <1>8, <2>2 DEF TopicKeyOrder
  <2> QED
    BY <2>1, <2>2
<1> QED
  BY <1>6, <1>7, <1>8 DEF TopicKeyOrder

\* Every step of a delivery or of the loop keeps the topic ordered.
LEMMA NextLogInv == LogInv /\ [DeliveryNext]_allVars => LogInv'
<1> SUFFICES ASSUME LogInv, [DeliveryNext]_allVars PROVE LogInv'
  OBVIOUS
<1>0. [Next]_vars
  BY DeliveryStep DEF allVars
<1>1. ErrorInv' /\ KeyInv /\ TypeOK /\ TypeOK'
  BY <1>0, NextErrorInv DEF LogInv, ErrorInv, KeyInv
<1>2. index' = index \/ index' = index + 1
  BY <1>0 DEF Next, Loop, vars, PollShutdown, SkipJoin, ReportRates, SkipReporting, SkipTick,
     Admit, Return, Goto, JoinDelivery, JoinPanic, Drain, Signal, EndTask, Terminated
<1>3. ASSUME UNCHANGED log, attempt' \in [Orders -> 1 .. MaxAttempts],
             appended' \in [Orders -> BOOLEAN], send_errors' \in Nat, produced' \in Nat
      PROVE  LogInv'
  <2>1. index \in Nat
    BY <1>1 DEF TypeOK
  <2>2. \A k \in Categories : \A n \in DOMAIN log[k] : log[k][n] \in Nat /\ log[k][n] < index
    BY DEF LogInv
  <2>3. \A k \in Categories : \A n \in DOMAIN log'[k] : log'[k][n] < index'
    BY <1>2, <1>3, <2>1, <2>2
  <2>4. \A k \in Categories : \A n \in DOMAIN log'[k] : CategoryOf(log'[k][n]) = k
    BY <1>3 DEF LogInv, DeliveryTypeOK
  <2>5. TopicKeyOrder' /\ log' \in [Categories -> Seq(Nat)]
    BY <1>3 DEF LogInv, TopicKeyOrder
  <2>6. DeliveryTypeOK'
    BY <1>3, <2>4 DEF DeliveryTypeOK, CategoryOf
  <2> QED
    BY <1>1, <2>3, <2>5, <2>6 DEF LogInv
<1>4. CASE UNCHANGED deliveryVars
  BY <1>3, <1>4 DEF deliveryVars, LogInv, DeliveryTypeOK
<1>5. ASSUME NEW i \in pending, BrokerAppend(i) PROVE LogInv'
  <2>1. i \in Orders
    BY <1>1, PendingType
  <2>2. UNCHANGED <<index, attempt, send_errors, produced>>
        /\ appended' = [appended EXCEPT ![i] = TRUE]
    BY <1>5 DEF BrokerAppend, vars
  <2>3. DeliveryTypeOK'
    BY <1>5, <2>1, <2>2, AppendKeepsOrder DEF LogInv, DeliveryTypeOK, CategoryOf
  <2> QED
    BY <1>1, <1>5, <2>2, <2>3, AppendKeepsOrder DEF LogInv
<1>6. ASSUME NEW i \in pending, SendSucceeds(i) \/ GiveUp(i) PROVE LogInv'
  <2>1. UNCHANGED <<attempt, appended, log>> /\ send_errors' \in Nat /\ produced' \in Nat
    BY <1>6 DEF SendSucceeds, GiveUp, ErrorsCounted, ProducedCounted, LogInv, DeliveryTypeOK
  <2> QED
    BY <1>3, <2>1 DEF LogInv, DeliveryTypeOK
<1>7. ASSUME NEW i \in pending, Retry(i) PROVE LogInv'
  <2>1. i \in Orders
    BY <1>1, PendingType
  <2>2. attempt' \in [Orders -> 1 .. MaxAttempts] /\ appended' \in [Orders -> BOOLEAN]
    BY <1>7, <2>1, AttemptsAssumption DEF Retry, RetriesLeft, LogInv, DeliveryTypeOK
  <2>3. UNCHANGED log /\ produced' \in Nat /\ send_errors' \in Nat
    BY <1>7 DEF Retry, ErrorsCounted, LogInv, DeliveryTypeOK
  <2> QED
    BY <1>3, <2>2, <2>3
<1> QED
  BY <1>4, <1>5, <1>6, <1>7 DEF DeliveryNext, Panic, allVars

\* LogInv holds of every reachable state.
LEMMA LogInvAlways == DeliverySpec => []LogInv
  BY InitLogInv, NextLogInv, PTL DEF DeliverySpec

\* No delivery makes more attempts than send_with_retry allows, and a
\* category's log holds its own orders only.
THEOREM DeliveryTypeCorrect == DeliverySpec => []DeliveryTypeOK
  BY LogInvAlways, PTL DEF LogInv

\* In the topic the orders of a category are in generator order, however often
\* they are retried and however many copies that leaves.
THEOREM TopicKeepsKeyOrder == DeliverySpec => []TopicKeyOrder
  BY LogInvAlways, PTL DEF LogInv

-----------------------------------------------------------------------------
(* Acknowledgements and copies.                                            *)

\* Each attempt appends at most once: while the current one has not, there is
\* one copy fewer than attempts.
CopiesInv ==
  /\ LogInv
  /\ \A i \in Orders :
       /\ task[i] = "acked" \/ appended[i] => Logged(i) # {}
       /\ Cardinality(Logged(i)) <= (IF appended[i] THEN attempt[i] ELSE attempt[i] - 1)

\* The places of an order in its category's log are finitely many.
LEMMA LoggedFinite ==
  ASSUME LogInv, NEW i \in Orders
  PROVE  IsFiniteSet(Logged(i)) /\ Cardinality(Logged(i)) \in Nat
<1>1. CategoryOf(i) \in Categories
  BY CategoryType DEF Orders
<1>2. Len(log[CategoryOf(i)]) \in Nat /\ DOMAIN log[CategoryOf(i)] = 1 .. Len(log[CategoryOf(i)])
  BY <1>1 DEF LogInv
<1>3. IsFiniteSet(1 .. Len(log[CategoryOf(i)]))
  BY <1>2, FS_Interval
<1>4. Logged(i) \subseteq 1 .. Len(log[CategoryOf(i)])
  BY <1>2 DEF Logged
<1> QED
  BY <1>3, <1>4, FS_Subset, FS_CardinalityType

\* An append adds one place to those of its order and none to another's.
LEMMA AppendLogged ==
  ASSUME LogInv, NEW i \in pending, BrokerAppend(i), NEW j \in Orders
  PROVE  /\ j # i => Logged(j)' = Logged(j)
         /\ j = i => Logged(j)' # {} /\ Cardinality(Logged(j)') = Cardinality(Logged(j)) + 1
<1> DEFINE c == CategoryOf(i)
           d == CategoryOf(j)
<1>1. i \in Nat /\ i \in Orders /\ c \in Categories /\ d \in Categories
  BY PendingType, CategoryType DEF LogInv, ErrorInv, Orders
<1>2. log \in [Categories -> Seq(Nat)] /\ log' = [log EXCEPT ![c] = Append(@, i)]
  BY DEF LogInv, BrokerAppend
<1>3. Logged(j) = {n \in DOMAIN log[d] : log[d][n] = j}
  BY DEF Logged
<1>4. Logged(j)' = {n \in DOMAIN log'[d] : log'[d][n] = j}
  BY DEF Logged, CategoryOf
<1>5. j = i => d = c
  OBVIOUS
<1> HIDE DEF c, d
<1>6. log'[c] = Append(log[c], i) /\ (d # c => log'[d] = log[d])
  BY <1>1, <1>2
<1>7. /\ Len(log[c]) \in Nat /\ DOMAIN log[c] = 1 .. Len(log[c])
      /\ DOMAIN log'[c] = 1 .. Len(log[c]) + 1
      /\ \A n \in 1 .. Len(log[c]) : log'[c][n] = log[c][n]
      /\ log'[c][Len(log[c]) + 1] = i
  BY <1>1, <1>2, <1>6
<1>8. CASE j # i
  BY <1>3, <1>4, <1>6, <1>7, <1>8
<1>9. CASE j = i
  <2>1. Logged(j)' = Logged(j) \cup {Len(log[c]) + 1} /\ Len(log[c]) + 1 \notin Logged(j)
    BY <1>3, <1>4, <1>5, <1>7, <1>9
  <2> QED
    BY <2>1, <1>9, LoggedFinite, FS_AddElement
<1> QED
  BY <1>8, <1>9

\* Every step keeps it.
LEMMA NextCopiesInv == CopiesInv /\ [DeliveryNext]_allVars => CopiesInv'
<1> SUFFICES ASSUME CopiesInv, [DeliveryNext]_allVars PROVE CopiesInv'
  OBVIOUS
<1>0. LogInv /\ LogInv' /\ KeyInv /\ TypeOK
  BY NextLogInv DEF CopiesInv, LogInv, ErrorInv, KeyInv
<1>t. attempt \in [Orders -> 1 .. MaxAttempts] /\ appended \in [Orders -> BOOLEAN]
  BY <1>0 DEF LogInv, DeliveryTypeOK
<1>1. ASSUME UNCHANGED <<log, attempt, appended>>,
             \A j \in Orders : task'[j] = "acked" => task[j] = "acked" \/ appended[j]
      PROVE  CopiesInv'
  BY <1>0, <1>1 DEF CopiesInv, Logged, CategoryOf
<1>2. ASSUME NEW i \in pending, BrokerAppend(i) PROVE CopiesInv'
  <2> SUFFICES ASSUME NEW j \in Orders
               PROVE  /\ task'[j] = "acked" \/ appended'[j] => Logged(j)' # {}
                      /\ Cardinality(Logged(j)')
                           <= (IF appended'[j] THEN attempt'[j] ELSE attempt'[j] - 1)
    BY <1>0 DEF CopiesInv
  <2>1. /\ ~appended[i] /\ appended' = [appended EXCEPT ![i] = TRUE]
        /\ task' = task /\ attempt' = attempt
    BY <1>2 DEF BrokerAppend, vars
  <2>2. CASE j = i
    <3>1. Cardinality(Logged(j)) <= attempt[j] - 1 /\ appended'[j]
      BY <1>t, <2>1, <2>2 DEF CopiesInv
    <3> QED
      BY <1>0, <1>2, <1>t, <2>1, <2>2, <3>1, AppendLogged, LoggedFinite, AttemptsAssumption
  <2>3. CASE j # i
    <3>1. appended'[j] = appended[j] /\ Logged(j)' = Logged(j)
      BY <1>0, <1>2, <1>t, <2>1, <2>3, AppendLogged
    <3> QED
      BY <2>1, <3>1 DEF CopiesInv
  <2> QED
    BY <2>2, <2>3
<1>3. ASSUME NEW i \in pending, Retry(i) PROVE CopiesInv'
  <2> SUFFICES ASSUME NEW j \in Orders
               PROVE  /\ task'[j] = "acked" \/ appended'[j] => Logged(j)' # {}
                      /\ Cardinality(Logged(j)')
                           <= (IF appended'[j] THEN attempt'[j] ELSE attempt'[j] - 1)
    BY <1>0 DEF CopiesInv
  <2>1. /\ task[i] = "running" /\ appended' = [appended EXCEPT ![i] = FALSE]
        /\ attempt' = [attempt EXCEPT ![i] = @ + 1] /\ task' = task /\ log' = log
    BY <1>3 DEF Retry, Running, vars
  <2>2. Logged(j)' = Logged(j)
    BY <2>1 DEF Logged, CategoryOf
  <2>3. Cardinality(Logged(j)) \in Nat /\ attempt[j] \in Nat
    BY <1>0, <1>t, LoggedFinite, AttemptsAssumption
  <2>4. CASE j = i
    <3>1. ~appended'[j] /\ attempt'[j] = attempt[j] + 1
      BY <1>t, <2>1, <2>4
    <3>2. Cardinality(Logged(j)) <= attempt[j]
      BY <2>3 DEF CopiesInv
    <3> QED
      BY <2>1, <2>2, <2>3, <2>4, <3>1, <3>2 DEF CopiesInv
  <2>5. CASE j # i
    <3>1. appended'[j] = appended[j] /\ attempt'[j] = attempt[j]
      BY <1>t, <2>1, <2>5
    <3> QED
      BY <2>1, <2>2, <3>1 DEF CopiesInv
  <2> QED
    BY <2>4, <2>5
<1>4. ASSUME NEW i \in pending, NEW o \in Ended, EndTask(i, o), o = "acked" => appended[i],
             UNCHANGED <<log, attempt, appended>>
      PROVE  CopiesInv'
  <2>1. \A j \in Orders : task'[j] = "acked" => task[j] = "acked" \/ appended[j]
    BY <1>0, <1>4 DEF EndTask, TypeOK
  <2> QED
    BY <1>1, <1>4, <2>1
<1>5. ASSUME NEW i \in pending, SendSucceeds(i) \/ GiveUp(i) \/ Panic(i) PROVE CopiesInv'
  BY <1>4, <1>5 DEF SendSucceeds, Acknowledged, GiveUp, Panic, deliveryVars, Ended
<1>6. CASE (Loop \/ Signal \/ Terminated) /\ UNCHANGED deliveryVars
  <2>1. \A j \in Orders : task'[j] = "acked" => task[j] = "acked"
    <3>1. CASE Admit
      BY <1>0, <3>1 DEF Admit, TypeOK
    <3>2. CASE UNCHANGED task
      BY <3>2
    <3> QED
      BY <1>6, <3>1, <3>2 DEF Loop, PollShutdown, SkipJoin, ReportRates, SkipReporting,
         SkipTick, Return, Goto, JoinDelivery, JoinPanic, Drain, Signal, Terminated, vars
  <2> QED
    BY <1>1, <1>6, <2>1 DEF deliveryVars
<1>7. CASE UNCHANGED allVars
  BY <1>1, <1>7 DEF allVars, vars, deliveryVars
<1> QED
  BY <1>2, <1>3, <1>5, <1>6, <1>7 DEF DeliveryNext

\* An order whose delivery reported success is in the topic, and a delivery
\* never leaves more copies than the attempts it made.
THEOREM AcknowledgedOrdersAreLogged == DeliverySpec => []AcknowledgedIsLogged
<1>1. DeliveryInit => CopiesInv
  <2> SUFFICES ASSUME DeliveryInit PROVE CopiesInv
    OBVIOUS
  <2>1. \A i \in Orders : Logged(i) = {}
    BY CategoryType DEF DeliveryInit, Logged, Orders
  <2>2. \A i \in Orders : task[i] = "unspawned" /\ appended[i] = FALSE /\ attempt[i] = 1
    BY DEF DeliveryInit, Init
  <2> QED
    BY <2>1, <2>2, InitLogInv, FS_EmptySet DEF CopiesInv
<1>2. CopiesInv => AcknowledgedIsLogged
  <2> SUFFICES ASSUME CopiesInv, NEW i \in Orders
               PROVE  (task[i] = "acked" => Logged(i) # {}) /\ Cardinality(Logged(i)) <= attempt[i]
    BY DEF AcknowledgedIsLogged
  <2>1. Cardinality(Logged(i)) \in Nat /\ attempt[i] \in Nat
    BY LoggedFinite, AttemptsAssumption DEF CopiesInv, LogInv, DeliveryTypeOK
  <2> QED
    BY <2>1 DEF CopiesInv
<1> QED
  BY <1>1, <1>2, NextCopiesInv, PTL DEF DeliverySpec

-----------------------------------------------------------------------------
(* The error counter.                                                      *)

\* What the count rests on: an order that is not admitted has not failed.
AttemptsInv == LogInv /\ ErrorsCountAttempts

\* There are finitely many attempts.
LEMMA AttemptsFinite == IsFiniteSet(FailedAttempts) /\ Cardinality(FailedAttempts) \in Nat
<1>1. IsFiniteSet(Orders) /\ IsFiniteSet(1 .. MaxAttempts)
  BY FS_Interval, SchedulerAssumption, AttemptsAssumption DEF Orders
<1>2. IsFiniteSet(Orders \X (1 .. MaxAttempts))
  BY <1>1, FS_Product
<1>3. FailedAttempts \subseteq Orders \X (1 .. MaxAttempts)
  BY DEF FailedAttempts
<1> QED
  BY <1>2, <1>3, FS_Subset, FS_CardinalityType

\* An Err adds the current attempt of a running order, whether it is tried
\* again or given up.
LEMMA ErrAddsOne ==
  ASSUME LogInv, NEW i \in pending, Retry(i) \/ GiveUp(i)
  PROVE  Cardinality(FailedAttempts') = Cardinality(FailedAttempts) + 1
<1>1. i \in Orders /\ task \in [Orders -> TaskState] /\ attempt \in [Orders -> 1 .. MaxAttempts]
  BY PendingType DEF LogInv, ErrorInv, KeyInv, TypeOK, DeliveryTypeOK
<1>2. task[i] = "running"
  BY DEF Retry, Running, GiveUp, EndTask
<1>3. attempt[i] \in Nat /\ \A j \in Orders : attempt[j] \in Nat
  BY <1>1, AttemptsAssumption
<1> DEFINE at == <<i, attempt[i]>>
<1>4. at \in Orders \X (1 .. MaxAttempts) /\ at \notin FailedAttempts
  BY <1>1, <1>2, <1>3 DEF FailedAttempts
<1>5. \A j \in Orders : j # i => attempt'[j] = attempt[j] /\ task'[j] = task[j]
  BY <1>1 DEF Retry, GiveUp, EndTask, vars
<1>6. \/ attempt'[i] = attempt[i] + 1 /\ task'[i] = "running"
      \/ attempt'[i] = attempt[i] /\ task'[i] = "failed"
  BY <1>1, <1>2 DEF Retry, GiveUp, EndTask, vars
<1>7. ASSUME NEW j \in Orders, NEW a \in 1 .. MaxAttempts
      PROVE  <<j, a>> \in FailedAttempts' <=> <<j, a>> \in FailedAttempts \/ <<j, a>> = at
  <2>1. <<j, a>> \in FailedAttempts <=>
          a < attempt[j] \/ (task[j] = "failed" /\ a = attempt[j])
    BY DEF FailedAttempts
  <2>2. <<j, a>> \in FailedAttempts' <=>
          a < attempt'[j] \/ (task'[j] = "failed" /\ a = attempt'[j])
    BY DEF FailedAttempts
  <2>3. CASE j # i
    BY <1>5, <2>1, <2>2, <2>3
  <2>4. CASE j = i
    BY <1>2, <1>3, <1>6, <2>1, <2>2, <2>4
  <2> QED
    BY <2>3, <2>4
<1>8. FailedAttempts' = FailedAttempts \cup {at}
  <2>1. /\ FailedAttempts \subseteq Orders \X (1 .. MaxAttempts)
        /\ FailedAttempts' \subseteq Orders \X (1 .. MaxAttempts)
    BY DEF FailedAttempts
  <2>2. \A p \in Orders \X (1 .. MaxAttempts) :
          \E j \in Orders, a \in 1 .. MaxAttempts : p = <<j, a>>
    OBVIOUS
  <2> HIDE DEF at
  <2> QED
    BY <1>4, <1>7, <2>1, <2>2
<1> QED
  BY <1>4, <1>8, AttemptsFinite, FS_AddElement

\* Every step keeps the count: only Retry and GiveUp move it.
LEMMA NextAttemptsInv == AttemptsInv /\ [DeliveryNext]_allVars => AttemptsInv'
<1> SUFFICES ASSUME AttemptsInv, [DeliveryNext]_allVars PROVE AttemptsInv'
  OBVIOUS
<1>0. LogInv /\ LogInv' /\ TypeOK /\ ErrorInv
  BY NextLogInv DEF AttemptsInv, LogInv, ErrorInv, KeyInv
<1>1. ASSUME UNCHANGED <<attempt, send_errors>>,
             \A j \in Orders : task'[j] = "failed" <=> task[j] = "failed"
      PROVE  AttemptsInv'
  <2>1. FailedAttempts' = FailedAttempts
    BY <1>1 DEF FailedAttempts
  <2> QED
    BY <1>0, <1>1, <2>1 DEF AttemptsInv, ErrorsCountAttempts
<1>2. ASSUME NEW i \in pending, Retry(i) \/ GiveUp(i) PROVE AttemptsInv'
  <2>1. send_errors' = send_errors + 1
    BY <1>2 DEF Retry, GiveUp, ErrorsCounted
  <2> QED
    BY <1>0, <1>2, <2>1, ErrAddsOne DEF AttemptsInv, ErrorsCountAttempts
<1>3. ASSUME NEW i \in pending, NEW o \in Ended, EndTask(i, o), o # "failed",
             UNCHANGED <<attempt, send_errors>>
      PROVE  AttemptsInv'
  <2>1. \A j \in Orders : task'[j] = "failed" <=> task[j] = "failed"
    BY <1>0, <1>3 DEF EndTask, TypeOK
  <2> QED
    BY <1>1, <1>3, <2>1
<1>4. ASSUME NEW i \in pending, SendSucceeds(i) \/ Panic(i) PROVE AttemptsInv'
  BY <1>3, <1>4 DEF SendSucceeds, Panic, deliveryVars, Ended
<1>5. ASSUME NEW i \in pending, BrokerAppend(i) PROVE AttemptsInv'
  BY <1>1, <1>5 DEF BrokerAppend, vars
<1>6. CASE (Loop \/ Signal \/ Terminated) /\ UNCHANGED deliveryVars
  <2>1. \A j \in Orders : task'[j] = "failed" <=> task[j] = "failed"
    <3>1. CASE Admit
      <4>1. index \in Orders /\ task[index] = "unspawned"
        BY <1>0, <3>1, SchedulerAssumption DEF Admit, TypeOK, Orders, ErrorInv
      <4> QED
        BY <1>0, <3>1, <4>1 DEF Admit, TypeOK
    <3>2. CASE UNCHANGED task
      BY <3>2
    <3> QED
      BY <1>6, <3>1, <3>2 DEF Loop, PollShutdown, SkipJoin, ReportRates, SkipReporting,
         SkipTick, Return, Goto, JoinDelivery, JoinPanic, Drain, Signal, Terminated, vars
  <2> QED
    BY <1>1, <1>6, <2>1 DEF deliveryVars
<1>7. CASE UNCHANGED allVars
  BY <1>1, <1>7 DEF allVars, vars, deliveryVars
<1> QED
  BY <1>2, <1>4, <1>5, <1>6, <1>7 DEF DeliveryNext

\* pipeline_errors_total counts the failed attempts of all deliveries exactly,
\* whatever order the threads reach the counter in.
THEOREM ErrorsAreAttempts == DeliverySpec => []ErrorsCountAttempts
<1>1. DeliveryInit => AttemptsInv
  <2> SUFFICES ASSUME DeliveryInit PROVE AttemptsInv
    OBVIOUS
  <2>1. \A i \in Orders : task[i] = "unspawned" /\ attempt[i] = 1
    BY DEF DeliveryInit, Init
  <2>2. FailedAttempts = {}
    BY <2>1 DEF FailedAttempts
  <2> QED
    BY <2>2, InitLogInv, FS_EmptySet DEF AttemptsInv, ErrorsCountAttempts, DeliveryInit
<1> QED
  BY <1>1, NextAttemptsInv, PTL DEF DeliverySpec, AttemptsInv

-----------------------------------------------------------------------------
(* The counter of produced orders.                                         *)

\* The orders whose delivery ended well.
Acked == {i \in Orders : task[i] = "acked"}

\* The count and the types; only SendSucceeds moves either side of it.
ProducedInv == ErrorInv /\ ProducedCountsOrders

\* Every step keeps it: an order is acknowledged once, from running.
LEMMA NextProducedInv == ProducedInv /\ [DeliveryNext]_allVars => ProducedInv'
<1> SUFFICES ASSUME ProducedInv, [DeliveryNext]_allVars PROVE ProducedInv'
  OBVIOUS
<1>0. [Next]_vars
  BY DeliveryStep DEF allVars
<1>1. ErrorInv' /\ ErrorInv /\ KeyInv /\ TypeOK
  BY <1>0, NextErrorInv DEF ProducedInv, ErrorInv, KeyInv
<1>2. ASSUME UNCHANGED produced, \A j \in Orders : task'[j] = "acked" <=> task[j] = "acked"
      PROVE  ProducedInv'
  BY <1>1, <1>2 DEF ProducedInv, ProducedCountsOrders
<1>3. ASSUME NEW i \in pending, SendSucceeds(i) PROVE ProducedInv'
  <2>1. i \in Orders /\ task[i] = "running" /\ task' = [task EXCEPT ![i] = "acked"]
    BY <1>1, <1>3, PendingType DEF SendSucceeds, EndTask
  <2>2. Acked' = Acked \cup {i} /\ i \notin Acked
    BY <1>1, <2>1 DEF Acked, TypeOK
  <2>3. IsFiniteSet(Acked)
    <3>1. IsFiniteSet(Orders)
      BY FS_Interval, SchedulerAssumption DEF Orders
    <3> QED
      BY <3>1, FS_Subset DEF Acked
  <2>4. Cardinality(Acked') = Cardinality(Acked) + 1
    BY <2>2, <2>3, FS_AddElement
  <2>5. produced' = produced + 1
    BY <1>3 DEF SendSucceeds, ProducedCounted
  <2> QED
    BY <1>1, <2>4, <2>5 DEF ProducedInv, ProducedCountsOrders, Acked
<1>4. ASSUME NEW i \in pending, NEW o \in Ended, EndTask(i, o), o # "acked", UNCHANGED produced
      PROVE  ProducedInv'
  <2>1. \A j \in Orders : task'[j] = "acked" <=> task[j] = "acked"
    BY <1>1, <1>4 DEF EndTask, TypeOK
  <2> QED
    BY <1>2, <1>4, <2>1
<1>5. ASSUME NEW i \in pending, GiveUp(i) \/ Panic(i) PROVE ProducedInv'
  BY <1>4, <1>5 DEF GiveUp, Panic, deliveryVars, Ended
<1>6. ASSUME NEW i \in pending, BrokerAppend(i) \/ Retry(i) PROVE ProducedInv'
  BY <1>2, <1>6 DEF BrokerAppend, Retry, vars
<1>7. CASE (Loop \/ Signal \/ Terminated) /\ UNCHANGED deliveryVars
  <2>1. \A j \in Orders : task'[j] = "acked" <=> task[j] = "acked"
    <3>1. CASE Admit
      <4>1. index \in Orders /\ task[index] = "unspawned"
        BY <1>1, <3>1, SchedulerAssumption DEF Admit, TypeOK, Orders, ErrorInv
      <4> QED
        BY <1>1, <3>1, <4>1 DEF Admit, TypeOK
    <3>2. CASE UNCHANGED task
      BY <3>2
    <3> QED
      BY <1>7, <3>1, <3>2 DEF Loop, PollShutdown, SkipJoin, ReportRates, SkipReporting,
         SkipTick, Return, Goto, JoinDelivery, JoinPanic, Drain, Signal, Terminated, vars
  <2> QED
    BY <1>2, <1>7, <2>1 DEF deliveryVars
<1>8. CASE UNCHANGED allVars
  BY <1>2, <1>8 DEF allVars, vars, deliveryVars
<1> QED
  BY <1>3, <1>5, <1>6, <1>7, <1>8 DEF DeliveryNext

\* orders_produced_total counts each acknowledged order once, however many
\* attempts and copies it took.
THEOREM ProducedIsExact == DeliverySpec => []ProducedCountsOrders
<1>1. DeliveryInit => ProducedInv
  <2> SUFFICES ASSUME DeliveryInit PROVE ProducedInv
    OBVIOUS
  <2>1. Acked = {}
    BY DEF DeliveryInit, Init, Acked
  <2>2. ErrorInv /\ produced = 0
    BY InitLogInv DEF LogInv, DeliveryInit
  <2> QED
    BY <2>1, <2>2, FS_EmptySet DEF ProducedInv, ProducedCountsOrders, Acked
<1> QED
  BY <1>1, NextProducedInv, PTL DEF DeliverySpec, ProducedInv

\* The report of send_orders lags behind orders_produced_total by no more than
\* the deliveries in flight, and never runs ahead of it: the acknowledged orders
\* are those joined as such and some of the pending ones.
THEOREM ReportFollowsMetric == DeliverySpec => []ReportLagsMetric
<1>1. TallyInv /\ ProducedCountsOrders => ReportLagsMetric
  <2> SUFFICES ASSUME TallyInv, ProducedCountsOrders PROVE ReportLagsMetric
    OBVIOUS
  <2>1. TypeOK /\ ErrorInv /\ index \in Nat
    BY SchedulerAssumption DEF TallyInv, ErrorInv, KeyInv, TypeOK
  <2>2. 0 .. index - 1 \subseteq Orders
    BY <2>1, SchedulerAssumption DEF Orders, TypeOK
  <2>3. \A i \in Acked : i \in 0 .. index - 1
    BY <2>1, SchedulerAssumption DEF Acked, ErrorInv, TypeOK, Orders
  <2>4. Acked = Joined("acked") \cup (Acked \cap pending)
    BY <2>2, <2>3 DEF Acked, Joined
  <2>5. Joined("acked") \cap (Acked \cap pending) = {}
    BY DEF Joined
  <2>6. /\ IsFiniteSet(Joined("acked")) /\ IsFiniteSet(pending)
        /\ IsFiniteSet(Acked \cap pending)
    BY <2>1, AdmittedFinite DEF Joined, TypeOK
  <2>7. Cardinality(Acked) = Cardinality(Joined("acked")) + Cardinality(Acked \cap pending)
    BY <2>4, <2>5, <2>6, DisjointCardinality
  <2>8. Cardinality(Acked \cap pending) <= Cardinality(pending)
    BY <2>6, FS_Subset
  <2>9. /\ Cardinality(Joined("acked")) \in Nat /\ Cardinality(Acked \cap pending) \in Nat
        /\ Cardinality(pending) \in Nat
    BY <2>6, FS_CardinalityType
  <2>10. produced = Cardinality(Acked) /\ report.acknowledged = Cardinality(Joined("acked"))
    BY DEF ProducedCountsOrders, Acked, TallyInv, ReportTallies
  <2> QED
    BY <2>7, <2>8, <2>9, <2>10 DEF ReportLagsMetric
<1> QED
  BY <1>1, DeliveryRefines, TallyInvAlways, ProducedIsExact, PTL

-----------------------------------------------------------------------------
(* What the report says of the topic.                                      *)

\* The report never claims more than the topic has, and when send_orders
\* returns Ok the topic lacks no more than the report admits.
THEOREM LossesAreReported == DeliverySpec => []LossIsReported
<1>1. TallyInv /\ NothingAbandoned /\ AcknowledgedIsLogged => LossIsReported
  <2> SUFFICES ASSUME TallyInv, NothingAbandoned, AcknowledgedIsLogged PROVE LossIsReported
    OBVIOUS
  <2>1. TypeOK /\ index \in Nat /\ report \in [acknowledged : Nat, failed : Nat]
    BY SchedulerAssumption DEF TallyInv, ErrorInv, KeyInv, TypeOK
  <2>2. 0 .. index - 1 \subseteq Orders
    BY <2>1, SchedulerAssumption DEF Orders, TypeOK
  <2>3. Joined("acked") \subseteq InTopic
    BY <2>2 DEF Joined, InTopic, AcknowledgedIsLogged
  <2>4. InTopic \subseteq 0 .. index - 1
    BY DEF InTopic
  <2>5. Cardinality(InTopic) \in Nat /\ Cardinality(Joined("acked")) <= Cardinality(InTopic)
    BY <2>1, <2>3, <2>4, AdmittedFinite, FS_Subset, FS_CardinalityType
  <2>6. report.acknowledged <= Cardinality(InTopic)
    BY <2>5 DEF TallyInv, ReportTallies
  <2>7. ASSUME branch = "returned", ~task_error
        PROVE  index <= Cardinality(InTopic) + report.failed
    <3>1. Joined("panicked") = {}
      BY <2>7 DEF TallyInv, ErrorInv, Joined
    <3>2. index = report.acknowledged + report.failed
      BY <2>1, <2>7, <3>1, FS_EmptySet DEF NothingAbandoned
    <3> QED
      BY <2>1, <2>5, <2>6, <3>2
  <2> QED
    BY <2>6, <2>7 DEF LossIsReported
<1> QED
  BY <1>1, DeliveryRefines, TallyInvAlways, DrainIsComplete, AcknowledgedOrdersAreLogged, PTL
=============================================================================
