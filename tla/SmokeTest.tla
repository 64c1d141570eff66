----------------------------- MODULE SmokeTest -----------------------------
(***************************************************************************)
(* smoke.sh and the gate it calls in each pass, check-services.sh, of      *)
(* demo/observability, beside the containers of the Compose project.       *)
(*                                                                         *)
(* The gate lists the containers with one command and inspects them one    *)
(* after the other with another, and the containers move on meanwhile.  A  *)
(* target (ready, metrics, logs, ...) is a query that succeeds or not.     *)
(* External: what a container does, with the restart policies of the       *)
(* Compose file.  Docker's own commands are taken to succeed.  Removal and *)
(* the states a command of a user leads to (paused, dead) are left out, as *)
(* are the reports' fields.                                                *)
(***************************************************************************)
EXTENDS FiniteSets, Naturals

CONSTANTS LongRunning,   \* services that are to keep running
          HealthChecked, \* those of them that have a healthcheck
          OneShots,      \* services with restart: "no"
          Expectations,  \* the sets of services that may be expected
          Targets        \* smoke targets

ASSUME ServicesAssumption == /\ HealthChecked \subseteq LongRunning
                             /\ LongRunning \cap OneShots = {}
                             /\ Expectations \subseteq SUBSET LongRunning

VARIABLES expected,      \* long-running services that must have a container
          container,     \* external: what docker inspect says of each service
          deadline,      \* the deadline has passed
          pc,            \* where smoke.sh has got to
          last_gate,     \* the gate that runs is the one after the last target
          listed,        \* containers listed by this gate
          uninspected,   \* those of them still to inspect
          result,        \* the gate's verdict so far: 0 good, 1 failed, 2 pending
          services_ready,
          pending,       \* targets that have not succeeded
          unchecked,     \* pending targets still to check in this pass
          failed_before, \* history: services that had failed when the gate began
          unstarted      \* history: long-running ones not started when it began,
                         \* of those without a container only the expected ones

gateVars == <<expected, last_gate, listed, uninspected, result, failed_before, unstarted>>
smokeVars == <<pc, services_ready, pending, unchecked>>
vars == <<container, deadline, gateVars, smokeVars>>

Services == LongRunning \cup OneShots
State == {"missing", "created", "running", "restarting", "exited"}
Health == {"none", "starting", "healthy", "unhealthy"}
Ended == pc \in {"passed", "failed"}

-----------------------------------------------------------------------------
(* Slips for the mutation checks.                                          *)

LastVerdictWins(r, verdict) ==
  IF verdict = "good" THEN r ELSE IF verdict = "FAILED" THEN 1 ELSE 2
RecheckAll == Targets
TargetsOnly == pending = {}
PendingIsFailed(r) == r # 0
GateAgain == "list"

-----------------------------------------------------------------------------
(* check-services.sh                                                       *)

\* How the gate classifies the container of service s.
Classify(s) ==
  LET c == container[s] IN
    IF s \in OneShots
      THEN CASE c.state = "exited" -> IF c.exit_code = 0 THEN "good" ELSE "FAILED"
             [] c.state \in {"created", "running"} -> "PENDING"
             [] OTHER -> "FAILED"
      ELSE CASE c.restarted \/ c.state # "running" -> "FAILED"
             [] OTHER -> IF c.health \in {"none", "healthy"} THEN "good" ELSE "PENDING"

\* report(): a failure outranks what is pending, whichever comes first.
Report(r, verdict) == CASE verdict = "FAILED" -> 1
                        [] verdict = "PENDING" /\ r = 0 -> 2
                        [] OTHER -> r

\* The exit status: an expected service without a container has failed.
ExitStatus == IF expected \subseteq listed THEN result ELSE 1

-----------------------------------------------------------------------------
(* smoke.sh                                                                *)

\* Exit statuses other than 0 and 2 end the smoke test.
GateFails(r) == r \notin {0, 2}

\* What a pass checks.
TargetsToCheck == pending

\* After the last gate: the loop is left only with every service ready.
AfterNotReady == "sleep"

\* The verdict after the loop.
Passes == pending = {} /\ services_ready

HasFailed(s) == LET c == container[s] IN
                  IF s \in OneShots THEN c.state = "exited" /\ c.exit_code # 0
                                    ELSE c.restarted \/ c.state = "exited"

\* KRABKA_SMOKE_SERVICES may narrow the services that must have a container;
\* unset or empty, each long-running service of the Compose file must.
ExpectedServices == Expectations \cup {LongRunning}

Init == /\ expected \in ExpectedServices
        /\ container = [s \in Services |-> [state |-> "missing", exit_code |-> 0,
                                            health |-> "none", restarted |-> FALSE]]
        /\ deadline = FALSE
        /\ pc = "before"
        /\ last_gate = FALSE
        /\ listed = {} /\ uninspected = {} /\ result = 0
        /\ services_ready = FALSE
        /\ pending = Targets /\ unchecked = {}
        /\ failed_before = {} /\ unstarted = {}

\* smoke.sh is started, after docker compose up or beside it.
StartTest == /\ pc = "before"
             /\ pc' = "loop"
             /\ UNCHANGED <<container, deadline, gateVars, services_ready, pending, unchecked>>

\* The loop's condition.
TestDeadline == /\ pc = "loop"
                /\ pc' = IF deadline THEN "verdict" ELSE "list"
                /\ last_gate' = FALSE
                /\ UNCHANGED <<expected, container, deadline, listed, uninspected, result,
                               services_ready, pending, unchecked, failed_before, unstarted>>

\* docker compose ps --all: the containers there are now.
ListContainers ==
  /\ pc = "list"
  /\ pc' = "inspect"
  /\ listed' = {s \in Services : container[s].state # "missing"}
  /\ uninspected' = listed'
  /\ result' = 0
  /\ failed_before' = {s \in Services : HasFailed(s)}
  /\ unstarted' = {s \in LongRunning : \/ container[s].state = "created"
                                       \/ container[s].state = "missing" /\ s \in expected}
  /\ UNCHANGED <<expected, container, deadline, last_gate, services_ready, pending, unchecked>>

\* docker inspect gets to the next container.
Inspect(s) == /\ pc = "inspect"
              /\ s \in uninspected
              /\ uninspected' = uninspected \ {s}
              /\ result' = Report(result, Classify(s))
              /\ UNCHANGED <<expected, container, deadline, smokeVars, last_gate, listed,
                             failed_before, unstarted>>

\* The gate exits and check_services takes its status: a failure ends the test;
\* else the first gate of a pass leads to the targets, and the one after the
\* last target ends the loop or leads to another pass.
GateExits ==
  /\ pc = "inspect"
  /\ uninspected = {}
  /\ IF GateFails(ExitStatus)
       THEN pc' = "failed" /\ UNCHANGED <<services_ready, unchecked>>
       ELSE /\ services_ready' = (ExitStatus = 0)
            /\ IF last_gate
                 THEN /\ pc' = IF services_ready' THEN "verdict" ELSE AfterNotReady
                      /\ UNCHANGED unchecked
                 ELSE /\ pc' = "targets"
                      /\ unchecked' = TargetsToCheck
  /\ UNCHANGED <<container, deadline, gateVars, pending>>

\* check(): one target; what fails stays pending.
CheckTarget(t, succeeds) ==
  /\ pc = "targets"
  /\ t \in unchecked
  /\ unchecked' = unchecked \ {t}
  /\ pending' = IF succeeds THEN pending \ {t} ELSE pending
  /\ UNCHANGED <<container, deadline, gateVars, pc, services_ready>>

\* All targets of the pass were checked: with none left, the services are
\* checked once more.
TargetsChecked ==
  /\ pc = "targets"
  /\ unchecked = {}
  /\ pc' = IF pending = {} THEN "list" ELSE "sleep"
  /\ last_gate' = (pending = {})
  /\ UNCHANGED <<expected, container, deadline, listed, uninspected, result, services_ready,
                 pending, unchecked, failed_before, unstarted>>

Sleep == /\ pc = "sleep"
         /\ pc' = "loop"
         /\ UNCHANGED <<container, deadline, gateVars, services_ready, pending, unchecked>>

Verdict == /\ pc = "verdict"
           /\ pc' = IF Passes THEN "passed" ELSE "failed"
           /\ UNCHANGED <<container, deadline, gateVars, services_ready, pending, unchecked>>

Smoke == \/ TestDeadline \/ ListContainers \/ GateExits \/ TargetsChecked \/ Sleep \/ Verdict
         \/ \E s \in uninspected : Inspect(s)
         \/ \E t \in unchecked : \E succeeds \in BOOLEAN : CheckTarget(t, succeeds)

-----------------------------------------------------------------------------
(* The containers.                                                         *)

\* Container s changes from a state to the record c.
Becomes(s, from, c) == /\ ~Ended
                       /\ container[s].state = from
                       /\ container' = [container EXCEPT ![s] = c]
                       /\ UNCHANGED <<deadline, gateVars, smokeVars>>

With(s, state, health) == [container[s] EXCEPT !.state = state, !.health = health]
StartHealth(s) == IF s \in HealthChecked THEN "starting" ELSE "none"

Create(s) == Becomes(s, "missing", With(s, "created", "none"))
StartContainer(s) == Becomes(s, "created", With(s, "running", StartHealth(s)))

\* A healthcheck reports.
ReportHealth(s, health) == s \in HealthChecked /\ Becomes(s, "running", With(s, "running", health))

\* A one-shot ends.
Finish(s, code) ==
  s \in OneShots /\ Becomes(s, "running", [With(s, "exited", "none") EXCEPT !.exit_code = code])

\* A long-running service ends, and restart: unless-stopped starts it again,
\* but not where it was stopped.
Exit(s) == /\ s \in LongRunning
           /\ \/ Becomes(s, "running", [With(s, "restarting", "none") EXCEPT !.restarted = TRUE])
              \/ Becomes(s, "running", With(s, "exited", "none"))
Restart(s) == Becomes(s, "restarting", With(s, "running", StartHealth(s)))

Deadline == /\ ~deadline
            /\ pc # "before"
            /\ ~Ended
            /\ deadline' = TRUE
            /\ UNCHANGED <<container, gateVars, smokeVars>>

Terminated == Ended /\ UNCHANGED vars

Next == \/ StartTest \/ Smoke \/ Deadline \/ Terminated
        \/ \E s \in Services : \/ Create(s) \/ StartContainer(s) \/ Exit(s) \/ Restart(s)
                               \/ \E health \in {"healthy", "unhealthy"} : ReportHealth(s, health)
                               \/ \E code \in 0 .. 1 : Finish(s, code)

(***************************************************************************)
(* Fairness: the script runs, and a target that is asked again and again   *)
(* answers in the end.  Neither the deadline nor the containers are fair.  *)
(***************************************************************************)
Fairness == /\ WF_vars(Smoke)
            /\ \A t \in Targets : SF_vars(CheckTarget(t, TRUE))

Spec == Init /\ [][Next]_vars
FairSpec == Spec /\ Fairness

-----------------------------------------------------------------------------

\* The variables stay in their domains; a pass checks pending targets only.
TypeOK == /\ expected \subseteq LongRunning
          /\ container \in [Services -> [state : State, exit_code : 0 .. 1, health : Health,
                                         restarted : BOOLEAN]]
          /\ deadline \in BOOLEAN /\ last_gate \in BOOLEAN /\ services_ready \in BOOLEAN
          /\ pc \in {"before", "loop", "list", "inspect", "targets", "sleep", "verdict",
                     "passed", "failed"}
          /\ listed \subseteq Services /\ uninspected \subseteq listed
          /\ result \in 0 .. 2
          /\ pending \subseteq Targets /\ unchecked \subseteq pending
          /\ failed_before \subseteq Services /\ unstarted \subseteq LongRunning

\* "An exit or a restart stops the smoke test at once" (smoke.sh): no gate that
\* begins after a service has failed lets the test go on, however many other
\* services are pending and in whatever order they are inspected.
FailuresEndTheTest == pc \in {"targets", "sleep", "passed"} => failed_before = {}

\* What a passed test says of the stack, though targets and services were
\* looked at one by one while it moved: every target has succeeded, every
\* long-running service that is expected or that the last gate listed has been
\* started, and every one-shot it listed has completed.  A service that
\* KRABKA_SMOKE_SERVICES leaves out may have no container at all.
PassMeansSettled ==
  pc = "passed" => /\ pending = {}
                   /\ \A s \in expected \cup (LongRunning \cap listed) :
                        container[s].state \notin {"missing", "created"}
                   /\ \A s \in OneShots \cap listed : container[s].state = "exited" /\ ~HasFailed(s)

\* "A service that is not healthy yet keeps the test waiting until the deadline"
\* (smoke.sh): before the deadline the test fails only for a service that has
\* failed, or that was expected or had a container and was not started when the
\* gate began.
SlowIsNotFailed ==
  pc = "failed" => deadline \/ unstarted # {} \/ \E s \in Services : HasFailed(s)

\* check-services.sh lists what makes its exit status 1: "a service exited,
\* restarted, or has no container"; one "still starting" is status 2.  A
\* long-running service whose container is created but not started yet is none
\* of the former and yet ends the test.
OnlyFailuresFail ==
  pc = "failed" => \/ deadline
                   \/ \E s \in Services : HasFailed(s)
                   \/ ~(expected \subseteq listed)

AllGood == \A s \in Services : IF container[s].state = "missing"
                                THEN s \notin expected
                                ELSE Classify(s) = "good"

\* The test ends: once the deadline has passed, or once the services stay as
\* they should be, whatever happened before; those without a container that are
\* not expected do not keep it waiting.
TestEnds == <>[](pc # "before" /\ (deadline \/ AllGood)) => <>[]Ended
=============================================================================
