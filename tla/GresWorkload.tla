---------------------------- MODULE GresWorkload ----------------------------
(***************************************************************************)
(* gres/workload.sh: the SQL loop that keeps gres busy, across the         *)
(* restarts of its container and failures of gres.                         *)
(*                                                                         *)
(* Time is the wall clock's second, which date +%s reads.  Rows are their  *)
(* primary keys.  The statements that only read, the regions, the amounts  *)
(* and the trace contexts are left out.  External: gres, which executes a  *)
(* statement or fails it, and Docker, which kills the container and starts *)
(* it again.                                                               *)
(***************************************************************************)
EXTENDS Integers, FiniteSets

CONSTANTS Interval,     \* KRABKA_GRES_WORKLOAD_INTERVAL, seconds; 0 does not sleep
          Retain,       \* KRABKA_GRES_WORKLOAD_RETAIN
          PruneEvery,   \* the 25 of the periodic prune
          RestartTakes, \* seconds until a killed container runs again, at least
          MaxClock,     \* bound on the clock
          MaxId         \* bound on the ids

ASSUME WorkloadAssumption == /\ Interval \in Nat /\ Retain \in Nat /\ RestartTakes \in Nat
                             /\ PruneEvery \in Nat \ {0}
                             /\ MaxClock \in Nat /\ MaxId \in Nat

VARIABLES clock,
          phase,    \* "down", or what the loop does next: "insert", "prune", "sleep"
          wake,     \* when the sleep, or the restart, is over at the earliest
          id,
          table,    \* the keys in demo_orders
          collided, \* history: an INSERT met a key that was in the table
          missed    \* history: since the last prune that worked, one failed or the
                    \* container was killed

vars == <<clock, phase, wake, id, table, collided, missed>>

-----------------------------------------------------------------------------
(* Slips for the mutation checks.                                          *)

SeedFromZero == 0
PrunedBelowRetain == {r \in table : r >= Retain}

-----------------------------------------------------------------------------

\* date +%s, when the loop starts.
Seed == clock

\* The rows that DELETE ... WHERE id < $((id - RETAIN)) leaves.
Pruned == {r \in table : r >= id - Retain}

\* When the sleep that begins now is over.
AfterSleep == clock + Interval

Init == /\ clock = 0
        /\ phase = "down" /\ wake = 0
        /\ id = 0
        /\ table = {}
        /\ collided = FALSE /\ missed = FALSE

Tick == /\ clock < MaxClock
        /\ clock' = clock + 1
        /\ UNCHANGED <<phase, wake, id, table, collided, missed>>

\* The container starts; gres answers; the table exists; the ids are seeded.
Start == /\ phase = "down"
         /\ clock >= wake
         /\ phase' = "insert"
         /\ id' = Seed
         /\ UNCHANGED <<clock, wake, table, collided, missed>>

\* The next id and its INSERT: executed, refused for its key, or not executed
\* at all; the loop goes on in any case.
Insert == /\ phase = "insert"
          /\ id < MaxId
          /\ id' = id + 1
          /\ \/ table' = table \cup {id'} /\ collided' = (collided \/ id' \in table)
             \/ UNCHANGED <<table, collided>>
          /\ phase' = "prune"
          /\ UNCHANGED <<clock, wake, missed>>

\* The periodic prune, which may fail, and the way to the sleep.
Prune == /\ phase = "prune"
         /\ IF id % PruneEvery = 0
              THEN \/ table' = Pruned /\ missed' = FALSE
                   \/ UNCHANGED table /\ missed' = TRUE
              ELSE UNCHANGED <<table, missed>>
         /\ phase' = "sleep"
         /\ wake' = AfterSleep
         /\ UNCHANGED <<clock, id, collided>>

WakeUp == /\ phase = "sleep"
          /\ clock >= wake
          /\ phase' = "insert"
          /\ UNCHANGED <<clock, wake, id, table, collided, missed>>

\* The container is killed or recreated, at any point of the loop.
Kill == /\ phase # "down"
        /\ phase' = "down"
        /\ wake' = clock + RestartTakes
        /\ missed' = TRUE
        /\ UNCHANGED <<clock, id, table, collided>>

\* The bound on the clock, where the model stops and the program would not.
Horizon == clock = MaxClock /\ UNCHANGED vars

Next == Tick \/ Start \/ Insert \/ Prune \/ WakeUp \/ Kill \/ Horizon

Spec == Init /\ [][Next]_vars

-----------------------------------------------------------------------------

\* The variables stay in their domains; the keys in the table are numbers.
TypeOK == /\ clock \in Nat /\ wake \in Nat
          /\ id \in Nat
          /\ phase \in {"down", "insert", "prune", "sleep"}
          /\ table \subseteq Nat
          /\ collided \in BOOLEAN /\ missed \in BOOLEAN

\* "Seed from the wall clock so a restart does not collide with the primary
\* keys already in the table": no INSERT ever meets its own key.
NoCollision == ~collided

\* "a periodic prune that keeps the table bounded": as long as no prune was
\* missed, the table holds the rows retained, those since the last prune and
\* the one just inserted.
TableBounded == ~missed => Cardinality(table) <= Retain + PruneEvery + 1
=============================================================================
