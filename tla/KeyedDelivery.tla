--------------------------- MODULE KeyedDelivery ---------------------------
(***************************************************************************)
(* What the producer promises to whoever reads the orders topic: orders    *)
(* are started in generator order, at most Bound at a time, never two of   *)
(* one category at a time, and once admission has closed every started     *)
(* order is settled before the producer is finished.  How a scheduler      *)
(* reaches this (select loop, key set, drain) is left to the modules that  *)
(* implement it.                                                           *)
(***************************************************************************)
EXTENDS Naturals, FiniteSets

CONSTANTS Bound,         \* pending deliveries at any time
          NumCategories, \* distinct record keys
          MaxOrders      \* orders considered

VARIABLES started,   \* orders 0 .. started-1 have been handed to the client
          unsettled, \* started orders whose delivery has not been settled
          phase      \* "open" admits, "closing" only settles, "finished"

vars == <<started, unsettled, phase>>

Key(i) == i % NumCategories

Init == /\ started = 0
        /\ unsettled = {}
        /\ phase = "open"

Start == /\ phase = "open"
         /\ started < MaxOrders
         /\ Cardinality(unsettled) < Bound
         /\ \A i \in unsettled : Key(i) # Key(started)
         /\ started' = started + 1
         /\ unsettled' = unsettled \cup {started}
         /\ UNCHANGED phase

Settle(i) == /\ i \in unsettled
             /\ unsettled' = unsettled \ {i}
             /\ \/ UNCHANGED phase
                \/ phase = "open" /\ phase' = "closing" \* a crashed delivery closes
             /\ UNCHANGED started

Close == /\ phase = "open"
         /\ phase' = "closing"
         /\ UNCHANGED <<started, unsettled>>

Finish == /\ phase = "closing"
          /\ unsettled = {}
          /\ phase' = "finished"
          /\ UNCHANGED <<started, unsettled>>

Next == \/ Start
        \/ \E i \in unsettled : Settle(i)
        \/ Close
        \/ Finish

\* Settling and finishing are the producer's obligations; closing is not.
Fairness == /\ WF_vars(\E i \in unsettled : Settle(i))
            /\ WF_vars(Finish)

Spec == Init /\ [][Next]_vars /\ Fairness
=============================================================================
