----------------------------- MODULE TickPacing ----------------------------
(***************************************************************************)
(* The pace at which send_orders admits orders (producer.rs 50-53, 80-89): *)
(* tokio's interval with the Skip behaviour, polled only while a delivery  *)
(* slot and the category of the next order are free.                       *)
(*                                                                         *)
(* Time is counted in ticks of a clock of any resolution, from the start.  *)
(* The loop may be late by any amount, because admission was closed or     *)
(* because its task, or a branch polled earlier, took its time.  External: *)
(* the interval, which fires once its deadline has passed, counts a tick   *)
(* as missed if it is later than a tolerance (5 ms), and then sets its     *)
(* next deadline as the behaviour chosen in the code says.                 *)
(***************************************************************************)
EXTENDS Naturals

CONSTANTS Period,    \* between two orders: 1 / --orders-per-sec, not 0 (main.rs 1020-1026)
          Tolerance, \* lateness up to which tokio does not take a tick for missed
          Horizon    \* bound on the clock

ASSUME PacingAssumption == Period \in Nat \ {0} /\ Tolerance \in Nat /\ Horizon \in Nat

VARIABLES now,       \* the clock
          open,      \* the guard of the tick branch holds
          deadline,  \* of the order interval
          admitted,  \* orders admitted, which is `index`
          free,      \* history: the first period in which none was admitted yet
          prompt     \* history: none was admitted a whole period late

vars == <<now, open, deadline, admitted, free, prompt>>

-----------------------------------------------------------------------------
(* Slips for the mutation checks: tokio's other behaviours.                *)

Burst(due, at) == due + Period
Delay(due, at) == at + Period
SkipToCurrent(due, at) == at - ((at - due) % Period)

-----------------------------------------------------------------------------

\* Line 53 chooses MissedTickBehavior::Skip, by tokio's rule the next deadline of
\* the original schedule.
MissedTick(due, at) == at + Period - ((at - due) % Period)

\* External: Interval::tick() that completes at this time sets its deadline anew.
NextDeadline(due, at) == IF at > due + Tolerance THEN MissedTick(due, at) ELSE due + Period

\* interval(period) fires for the first time at once.
Init == /\ now = 0
        /\ open = TRUE
        /\ deadline = 0
        /\ admitted = 0
        /\ free = 0
        /\ prompt = TRUE

Elapse == /\ now < Horizon
          /\ now' = now + 1
          /\ UNCHANGED <<open, deadline, admitted, free, prompt>>

\* The select polls the tick, which is due: the order is admitted, and takes
\* the last slot or is followed by one whose category is taken, or not.
Admit == /\ open
         /\ now >= deadline
         /\ deadline' = NextDeadline(deadline, now)
         /\ admitted' = admitted + 1
         /\ open' \in BOOLEAN
         /\ free' = now \div Period + 1
         /\ prompt' = (prompt /\ now < deadline + Period)
         /\ UNCHANGED now

\* A join frees the slot and the category.
Release == /\ ~open
           /\ open' = TRUE
           /\ UNCHANGED <<now, deadline, admitted, free, prompt>>

\* The bound on the clock ends the model.
End == now = Horizon /\ UNCHANGED vars

Next == Elapse \/ Admit \/ Release \/ End

Spec == Init /\ [][Next]_vars

-----------------------------------------------------------------------------
(* Properties.                                                             *)

TypeOK == /\ now \in Nat
          /\ open \in BOOLEAN
          /\ deadline \in Nat
          /\ admitted \in Nat
          /\ free \in Nat
          /\ prompt \in BOOLEAN

\* "Backpressure must not cause a burst of catch-up orders" (producer.rs:52):
\* however long admission was closed, no period sees two orders admitted.
OneOrderPerPeriod == [][admitted' # admitted => now \div Period >= free]_vars

\* As long as no order was a whole period late the requested rate is kept to
\* the order, late ticks or not: none is skipped and the schedule does not drift
\* (the test at producer.rs:139 measures it for one rate).
RateIsKept == prompt => deadline = admitted * Period

\* Nor is the rate ever exceeded from the start on, whatever was late and also
\* where late ticks may come in a burst: at no time were more orders admitted
\* than periods have begun.
RateIsNotExceeded == admitted <= now \div Period + 1

\* What a burst may amount to at rates so high that the tolerance covers several
\* periods: an order leaves the interval behind by less than the tolerance.
BacklogIsBounded == [][admitted' # admitted => deadline' + Tolerance > now]_vars

=============================================================================
