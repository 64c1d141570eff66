-------------------------- MODULE SmokeTest_proofs --------------------------
(***************************************************************************)
(* Theorems about the smoke test, for every set of services and targets.   *)
(***************************************************************************)
EXTENDS SmokeTest, TLAPS

Records == [state : State, exit_code : 0 .. 1, health : Health, restarted : BOOLEAN]

\* The fields of the records the containers take on.
LEMMA WithFields ==
  ASSUME NEW s \in Services, container \in [Services -> Records],
         NEW state \in State, NEW health \in Health
  PROVE  /\ With(s, state, health) \in Records
         /\ With(s, state, health).state = state
         /\ With(s, state, health).exit_code = container[s].exit_code
         /\ With(s, state, health).restarted = container[s].restarted
<1>1. container[s] \in Records
  OBVIOUS
<1> QED
  BY <1>1 DEF With, Records

\* A new exit code leaves the other fields of a container's record as they are.
LEMMA CodeUpdate ==
  ASSUME NEW w \in Records, NEW code \in 0 .. 1
  PROVE  /\ [w EXCEPT !.exit_code = code] \in Records
         /\ [w EXCEPT !.exit_code = code].state = w.state
         /\ [w EXCEPT !.exit_code = code].exit_code = code
  BY DEF Records

\* So does the mark that Docker has restarted it.
LEMMA RestartedUpdate ==
  ASSUME NEW w \in Records
  PROVE  /\ [w EXCEPT !.restarted = TRUE] \in Records
         /\ [w EXCEPT !.restarted = TRUE].state = w.state
         /\ [w EXCEPT !.restarted = TRUE].restarted
  BY DEF Records

\* What a step of the containers does to the one it changes: a service that has
\* failed stays failed, and one that has a container keeps it.
Moves(s) == /\ container' \in [Services -> Records]
            /\ \A r \in Services \ {s} : container'[r] = container[r]
            /\ HasFailed(s) => HasFailed(s)'
            /\ container'[s].state = "missing" => container'[s] = container[s]
            /\ UNCHANGED <<deadline, gateVars, smokeVars>>

\* The container of s changes to a typed record that keeps its failure.
LEMMA BecomesMoves ==
  ASSUME container \in [Services -> Records], NEW s \in Services, NEW from, NEW c \in Records,
         Becomes(s, from, c),
         c.state # "missing",
         HasFailed(s) => IF s \in OneShots THEN c.state = "exited" /\ c.exit_code # 0
                                           ELSE c.restarted \/ c.state = "exited"
  PROVE  Moves(s)
<1>1. container' = [container EXCEPT ![s] = c] /\ UNCHANGED <<deadline, gateVars, smokeVars>>
  BY DEF Becomes
<1>2. container'[s] = c
  BY <1>1
<1>3. HasFailed(s) => HasFailed(s)'
  BY <1>2 DEF HasFailed
<1> QED
  BY <1>1, <1>2, <1>3 DEF Moves

\* The actions of a container.
ContainerStep(s) == \/ Create(s) \/ StartContainer(s) \/ Exit(s) \/ Restart(s)
                    \/ \E health \in {"healthy", "unhealthy"} : ReportHealth(s, health)
                    \/ \E code \in 0 .. 1 : Finish(s, code)

\* Each action of a container keeps its failure, if it has failed.
LEMMA ContainersMove ==
  ASSUME container \in [Services -> Records], NEW s \in Services, ContainerStep(s)
  PROVE  Moves(s)
<1>1. StartHealth(s) \in Health \ {"unhealthy", "healthy"}
  BY DEF StartHealth, Health
<1>2. CASE Create(s)
  <2>1. container[s].state = "missing" /\ Becomes(s, "missing", With(s, "created", "none"))
    BY <1>2 DEF Create, Becomes
  <2> QED
    BY <2>1, BecomesMoves, WithFields DEF HasFailed, State, Health
<1>3. CASE StartContainer(s)
  <2>1. container[s].state = "created" /\ Becomes(s, "created", With(s, "running", StartHealth(s)))
    BY <1>3 DEF StartContainer, Becomes
  <2> QED
    BY <1>1, <2>1, BecomesMoves, WithFields DEF HasFailed, State
<1>4. CASE Restart(s)
  <2>1. /\ container[s].state = "restarting"
        /\ Becomes(s, "restarting", With(s, "running", StartHealth(s)))
    BY <1>4 DEF Restart, Becomes
  <2> QED
    BY <1>1, <2>1, BecomesMoves, WithFields DEF HasFailed, State
<1>5. ASSUME NEW health \in {"healthy", "unhealthy"}, ReportHealth(s, health) PROVE Moves(s)
  <2>1. container[s].state = "running" /\ Becomes(s, "running", With(s, "running", health))
    BY <1>5 DEF ReportHealth, Becomes
  <2> QED
    BY <2>1, BecomesMoves, WithFields DEF HasFailed, State, Health
<1>6. ASSUME NEW code \in 0 .. 1, Finish(s, code) PROVE Moves(s)
  <2> DEFINE c == [With(s, "exited", "none") EXCEPT !.exit_code = code]
  <2>1. container[s].state = "running" /\ Becomes(s, "running", c) /\ s \in OneShots
    BY <1>6 DEF Finish, Becomes
  <2>2. c \in Records /\ c.state = "exited" /\ c.exit_code = code
    <3>1. /\ With(s, "exited", "none") \in Records
          /\ With(s, "exited", "none").state = "exited"
      BY WithFields DEF State, Health
    <3> QED
      BY <3>1, CodeUpdate
  <2> HIDE DEF c
  <2> QED
    BY <2>1, <2>2, BecomesMoves DEF HasFailed
<1>7. CASE Exit(s)
  <2> DEFINE c == [With(s, "restarting", "none") EXCEPT !.restarted = TRUE]
  <2>1. s \in LongRunning /\ s \notin OneShots
    BY <1>7, ServicesAssumption DEF Exit
  <2>2. c \in Records /\ c.state = "restarting" /\ c.restarted
    <3>1. /\ With(s, "restarting", "none") \in Records
          /\ With(s, "restarting", "none").state = "restarting"
      BY WithFields DEF State, Health
    <3> QED
      BY <3>1, RestartedUpdate
  <2>3. With(s, "exited", "none") \in Records /\ With(s, "exited", "none").state = "exited"
    BY WithFields DEF State, Health
  <2>4. CASE Becomes(s, "running", c)
    <3> HIDE DEF c
    <3> QED
      BY <2>1, <2>2, <2>4, BecomesMoves
  <2>5. CASE Becomes(s, "running", With(s, "exited", "none"))
    BY <2>1, <2>3, <2>5, BecomesMoves
  <2> QED
    BY <1>7, <2>4, <2>5 DEF Exit
<1> QED
  BY <1>2, <1>3, <1>4, <1>5, <1>6, <1>7 DEF ContainerStep

-----------------------------------------------------------------------------
(* Type correctness.                                                       *)

\* No container, no gate and nothing checked at first.
LEMMA InitTypeOK == Init => TypeOK
<1> SUFFICES ASSUME Init PROVE TypeOK
  OBVIOUS
<1>1. container \in [Services -> Records]
  BY DEF Init, Records, State, Health
<1>6. expected \subseteq LongRunning
  BY ServicesAssumption DEF Init, ExpectedServices
<1>2. /\ deadline = FALSE /\ pc = "before" /\ last_gate = FALSE /\ listed = {}
      /\ uninspected = {} /\ result = 0 /\ services_ready = FALSE /\ pending = Targets
      /\ unchecked = {} /\ failed_before = {} /\ unstarted = {}
  BY DEF Init
<1>3. deadline \in BOOLEAN /\ last_gate \in BOOLEAN /\ services_ready \in BOOLEAN
  BY <1>2, Zenon
<1>5. result \in 0 .. 2
  BY <1>2
<1>4. /\ listed \subseteq Services /\ uninspected \subseteq listed
      /\ pending \subseteq Targets /\ unchecked \subseteq pending
      /\ failed_before \subseteq Services /\ unstarted \subseteq LongRunning
  BY <1>2
<1> QED
  BY <1>1, <1>2, <1>3, <1>4, <1>5, <1>6 DEF TypeOK, Records

\* Every step of the script and of the containers keeps the types.
LEMMA NextTypeOK == TypeOK /\ [Next]_vars => TypeOK'
<1> SUFFICES ASSUME TypeOK, [Next]_vars PROVE TypeOK'
  OBVIOUS
<1>1. ASSUME NEW s \in Services, ContainerStep(s) PROVE TypeOK'
  BY <1>1, ContainersMove DEF TypeOK, Moves, Records, gateVars, smokeVars
<1>2. CASE StartTest \/ Deadline \/ Terminated \/ UNCHANGED vars
  BY <1>2 DEF StartTest, Deadline, Terminated, vars, gateVars, smokeVars, TypeOK
<1>3. CASE TestDeadline \/ TargetsChecked \/ Sleep \/ Verdict
  BY <1>3 DEF TestDeadline, TargetsChecked, Sleep, Verdict, gateVars, TypeOK
<1>4. CASE ListContainers
  BY <1>4 DEF ListContainers, TypeOK, Services
<1>5. CASE GateExits
  BY <1>5 DEF GateExits, TargetsToCheck, AfterNotReady, gateVars, TypeOK
<1>6. ASSUME NEW s \in uninspected, Inspect(s) PROVE TypeOK'
  <2>1. result' \in 0 .. 2
    BY <1>6 DEF Inspect, Report, TypeOK
  <2> QED
    BY <1>6, <2>1 DEF Inspect, smokeVars, TypeOK
<1>7. ASSUME NEW t \in unchecked, NEW succeeds \in BOOLEAN, CheckTarget(t, succeeds) PROVE TypeOK'
  BY <1>7 DEF CheckTarget, gateVars, TypeOK
<1> QED
  BY <1>1, <1>2, <1>3, <1>4, <1>5, <1>6, <1>7 DEF Next, Smoke, ContainerStep

\* The variables of the smoke test stay in their domains.
THEOREM SmokeTypeCorrect == Spec => []TypeOK
  BY InitTypeOK, NextTypeOK, PTL DEF Spec

-----------------------------------------------------------------------------
(* No failure is overlooked.                                               *)

\* A service that had failed when the gate began still has, and was listed; the
\* gate has either to inspect it yet or has settled on failure.  Between two
\* gates nothing had failed at the start of the last one.
FailureInv ==
  /\ TypeOK
  /\ \A s \in Services : container[s].state = "missing" => ~container[s].restarted
  /\ pc = "inspect" => \A s \in failed_before : /\ HasFailed(s)
                                                /\ s \in uninspected \/ result = 1
  /\ pc \notin {"inspect", "failed"} => failed_before = {}

\* Inspecting a service that has failed settles the verdict, and nothing that is
\* inspected later changes it.
LEMMA FailureIsReported ==
  ASSUME NEW s \in Services, NEW r \in 0 .. 2
  PROVE  /\ HasFailed(s) => Report(r, Classify(s)) = 1
         /\ Report(1, Classify(s)) = 1
<1>1. HasFailed(s) => Classify(s) = "FAILED"
  BY DEF HasFailed, Classify
<1> QED
  BY <1>1 DEF Report

\* Every step of the script and of the containers keeps the invariant.
LEMMA NextFailureInv == FailureInv /\ [Next]_vars => FailureInv'
<1> SUFFICES ASSUME FailureInv, [Next]_vars PROVE FailureInv'
  OBVIOUS
<1>0. TypeOK /\ TypeOK'
  BY NextTypeOK DEF FailureInv
<1>1. ASSUME NEW s \in Services, ContainerStep(s) PROVE FailureInv'
  <2>1. Moves(s)
    BY <1>0, <1>1, ContainersMove DEF TypeOK, Records
  <2>2. \A r \in Services : HasFailed(r) => HasFailed(r)'
    BY <2>1 DEF Moves, HasFailed
  <2>3. \A r \in Services : container'[r].state = "missing" => ~container'[r].restarted
    BY <2>1 DEF Moves, FailureInv
  <2>4. UNCHANGED <<pc, failed_before, uninspected, result>> /\ failed_before \subseteq Services
    BY <1>0, <2>1 DEF Moves, gateVars, smokeVars, TypeOK
  <2> QED
    BY <1>0, <2>2, <2>3, <2>4 DEF FailureInv
<1>2. CASE StartTest \/ Deadline \/ Terminated \/ UNCHANGED vars
  BY <1>0, <1>2 DEF StartTest, Deadline, Terminated, vars, gateVars, smokeVars, FailureInv,
                    HasFailed, Ended
<1>3. CASE TestDeadline \/ TargetsChecked \/ Sleep \/ Verdict
  BY <1>0, <1>3 DEF TestDeadline, TargetsChecked, Sleep, Verdict, gateVars, FailureInv
<1>4. CASE ListContainers
  <2>1. \A s \in failed_before' : s \in Services /\ HasFailed(s)
    BY <1>4 DEF ListContainers
  <2>2. \A s \in failed_before' : container[s].state # "missing"
    BY <2>1 DEF FailureInv, HasFailed
  <2>3. failed_before' \subseteq uninspected'
    BY <1>4, <2>1, <2>2 DEF ListContainers
  <2>4. UNCHANGED container /\ pc' = "inspect"
    BY <1>4 DEF ListContainers
  <2> QED
    BY <1>0, <2>1, <2>3, <2>4 DEF FailureInv, HasFailed
<1>5. CASE GateExits
  <2>1. CASE failed_before = {}
    BY <1>0, <1>5, <2>1 DEF GateExits, gateVars, FailureInv, AfterNotReady
  <2>2. CASE failed_before # {}
    <3>1. result = 1
      BY <1>5, <2>2 DEF GateExits, FailureInv
    <3>2. pc' = "failed" /\ UNCHANGED container
      BY <1>5, <3>1 DEF GateExits, ExitStatus, GateFails
    <3> QED
      BY <1>0, <3>2 DEF FailureInv
  <2> QED
    BY <2>1, <2>2
<1>6. ASSUME NEW s \in uninspected, Inspect(s) PROVE FailureInv'
  <2>1. s \in Services /\ result \in 0 .. 2 /\ failed_before \subseteq Services
    BY <1>0 DEF TypeOK
  <2>2. \A r \in failed_before : HasFailed(r) /\ (r \in uninspected' \/ result' = 1)
    <3>1. TAKE r \in failed_before
    <3>2. HasFailed(r) /\ (r \in uninspected \/ result = 1)
      BY <1>6 DEF FailureInv, Inspect
    <3> QED
      BY <1>6, <2>1, <3>2, FailureIsReported DEF Inspect
  <2> QED
    BY <1>0, <1>6, <2>2 DEF Inspect, FailureInv, HasFailed, smokeVars
<1>7. ASSUME NEW t \in unchecked, NEW succeeds \in BOOLEAN, CheckTarget(t, succeeds)
      PROVE  FailureInv'
  BY <1>0, <1>7 DEF CheckTarget, gateVars, FailureInv
<1> QED
  BY <1>1, <1>2, <1>3, <1>4, <1>5, <1>6, <1>7 DEF Next, Smoke, ContainerStep

\* No gate that begins after a service has failed lets the smoke test go on.
THEOREM NoFailureIsOverlooked == Spec => []FailuresEndTheTest
<1>1. Init => FailureInv
  BY InitTypeOK DEF Init, FailureInv
<1>2. FailureInv => FailuresEndTheTest
  BY DEF FailureInv, FailuresEndTheTest
<1> QED
  BY <1>1, <1>2, NextFailureInv, PTL DEF Spec

-----------------------------------------------------------------------------
(* What the verdict means.                                                 *)

\* Containers go forward: what has ended stays ended, what was started is not
\* unstarted again, and only a long-running service is ever restarted.
Forward(s) == /\ container[s].state # "exited"
              /\ container'[s].state # "missing"
              /\ container'[s].state = "created" => container[s].state = "missing"
              /\ container'[s].state = "restarting" => container'[s].restarted /\ s \notin OneShots
              /\ container[s].restarted => container'[s].restarted

\* A step of a container does.
LEMMA ContainersGoForward ==
  ASSUME container \in [Services -> Records], NEW s \in Services, ContainerStep(s)
  PROVE  Forward(s)
<1>1. StartHealth(s) \in Health
  BY DEF StartHealth, Health
<1>2. ASSUME NEW from \in State \ {"exited"}, NEW c \in Records, Becomes(s, from, c),
             c.state # "missing", c.state = "created" => from = "missing",
             c.state = "restarting" => c.restarted /\ s \notin OneShots,
             container[s].restarted => c.restarted
      PROVE  Forward(s)
  <2>1. container'[s] = c /\ container[s].state = from
    BY <1>2 DEF Becomes
  <2> QED
    BY <1>2, <2>1 DEF Forward
<1>3. CASE Create(s)
  BY <1>2, <1>3, WithFields DEF Create, State, Health
<1>4. CASE StartContainer(s)
  BY <1>1, <1>2, <1>4, WithFields DEF StartContainer, State
<1>5. CASE Restart(s)
  BY <1>1, <1>2, <1>5, WithFields DEF Restart, State
<1>6. ASSUME NEW health \in {"healthy", "unhealthy"}, ReportHealth(s, health) PROVE Forward(s)
  BY <1>2, <1>6, WithFields DEF ReportHealth, State, Health
<1>7. ASSUME NEW code \in 0 .. 1, Finish(s, code) PROVE Forward(s)
  <2> DEFINE w == With(s, "exited", "none")
             c == [w EXCEPT !.exit_code = code]
  <2>1. w \in Records /\ w.state = "exited" /\ w.restarted = container[s].restarted
    BY WithFields DEF State, Health
  <2>2. c \in Records /\ c.state = "exited" /\ c.restarted = w.restarted
    <3> HIDE DEF w
    <3> QED
      BY <2>1 DEF Records
  <2>3. Becomes(s, "running", c)
    BY <1>7 DEF Finish
  <2> HIDE DEF w, c
  <2> QED
    BY <1>2, <2>1, <2>2, <2>3 DEF State
<1>8. CASE Exit(s)
  <2> DEFINE c == [With(s, "restarting", "none") EXCEPT !.restarted = TRUE]
  <2>1. s \notin OneShots
    BY <1>8, ServicesAssumption DEF Exit
  <2>2. c \in Records /\ c.state = "restarting" /\ c.restarted
    <3>1. /\ With(s, "restarting", "none") \in Records
          /\ With(s, "restarting", "none").state = "restarting"
      BY WithFields DEF State, Health
    <3> QED
      BY <3>1, RestartedUpdate
  <2>3. /\ With(s, "exited", "none") \in Records /\ With(s, "exited", "none").state = "exited"
        /\ With(s, "exited", "none").restarted = container[s].restarted
    BY WithFields DEF State, Health
  <2>4. CASE Becomes(s, "running", c)
    <3> HIDE DEF c
    <3> QED
      BY <1>2, <2>1, <2>2, <2>4 DEF State
  <2>5. CASE Becomes(s, "running", With(s, "exited", "none"))
    BY <1>2, <2>3, <2>5 DEF State
  <2> QED
    BY <1>8, <2>4, <2>5 DEF Exit
<1> QED
  BY <1>3, <1>4, <1>5, <1>6, <1>7, <1>8 DEF ContainerStep

\* What a gate that finds s good knows of it for good.
Settled(s) == IF s \in OneShots THEN container[s].state = "exited" /\ ~HasFailed(s)
                                ELSE container[s].state \notin {"missing", "created"}

\* Someone is to blame for a test that fails before its deadline.
Blamed == unstarted # {} \/ \E s \in Services : HasFailed(s)

\* What a verdict of the gate says of the service it was given to.
LEMMA ClassifyMeans ==
  ASSUME NEW s \in Services, container[s] \in Records, container[s].state # "missing",
         container[s].state = "restarting" => container[s].restarted /\ s \notin OneShots,
         s \in LongRunning /\ container[s].state = "created" => s \in unstarted
  PROVE  /\ Classify(s) \in {"good", "PENDING", "FAILED"}
         /\ Classify(s) = "FAILED" => Blamed
         /\ Classify(s) = "good" => Settled(s)
<1>1. s \in LongRunning <=> s \notin OneShots
  BY ServicesAssumption DEF Services
<1>2. container[s].state \in State /\ container[s].exit_code \in 0 .. 1
  BY DEF Records
<1>3. CASE s \in OneShots
  BY <1>2, <1>3 DEF Classify, HasFailed, Blamed, Settled, State
<1>4. CASE s \notin OneShots
  BY <1>1, <1>2, <1>4 DEF Classify, HasFailed, Blamed, Settled, State
<1> QED
  BY <1>3, <1>4

\* The gate in progress: what its verdict so far rests on.
GateInv ==
  /\ \A s \in listed : container[s].state # "missing"
  /\ \A s \in LongRunning \cap listed : container[s].state = "created" => s \in unstarted
  /\ expected \ listed \subseteq unstarted
  /\ result = 1 => Blamed
  /\ result = 0 => \A s \in listed \ uninspected : Settled(s)

\* The script: what it has concluded from its gates.  The gate is not atomic, so
\* its conclusions last only because Forward does.
VerdictInv ==
  /\ TypeOK
  /\ \A s \in Services : container[s].state = "restarting" =>
                          container[s].restarted /\ s \notin OneShots
  /\ pc = "inspect" => GateInv
  /\ pc \in {"list", "inspect"} /\ last_gate => pending = {}
  /\ pc = "verdict" => deadline \/ (pending = {} /\ services_ready)
  /\ services_ready /\ pc \notin {"inspect", "failed"} =>
       \A s \in expected \cup listed : Settled(s)
  /\ pc = "failed" => deadline \/ Blamed
  /\ pc = "passed" => pending = {} /\ services_ready

\* A step of a container takes nothing back.
LEMMA ContainersKeepVerdict ==
  ASSUME VerdictInv, TypeOK', NEW s \in Services, ContainerStep(s)
  PROVE  VerdictInv'
<1>1. container \in [Services -> Records]
  BY DEF VerdictInv, TypeOK, Records
<1>2. Moves(s) /\ Forward(s)
  BY <1>1, ContainersMove, ContainersGoForward
<1>3. UNCHANGED <<expected, deadline, last_gate, listed, uninspected, result, unstarted, pc,
                  services_ready, pending, unchecked>>
  BY <1>2 DEF Moves, gateVars, smokeVars
<1>4. \A r \in Services : (HasFailed(r) => HasFailed(r)') /\ (Settled(r) => Settled(r)')
  <2> SUFFICES ASSUME NEW r \in Services
               PROVE  (HasFailed(r) => HasFailed(r)') /\ (Settled(r) => Settled(r)')
    OBVIOUS
  <2>1. CASE r # s
    <3>1. container'[r] = container[r]
      BY <1>2, <2>1 DEF Moves
    <3> QED
      BY <3>1 DEF HasFailed, Settled
  <2>2. CASE r = s
    BY <1>2, <2>2 DEF Moves, Forward, Settled
  <2> QED
    BY <2>1, <2>2
<1>5. Blamed => Blamed'
  BY <1>3, <1>4 DEF Blamed
<1>6. \A r \in Services : /\ container'[r].state = "missing" => container[r].state = "missing"
                          /\ container'[r].state = "created" =>
                               container[r].state \in {"missing", "created"}
                          /\ container'[r].state = "restarting" =>
                               container'[r].restarted /\ r \notin OneShots
  BY <1>2 DEF Moves, Forward, VerdictInv
<1>7. /\ listed \subseteq Services /\ expected \subseteq Services
      /\ LongRunning \subseteq Services
  BY DEF VerdictInv, TypeOK, Services
<1>8. GateInv => GateInv'
  BY <1>3, <1>4, <1>5, <1>6, <1>7 DEF GateInv
<1> QED
  BY <1>3, <1>4, <1>5, <1>6, <1>7, <1>8 DEF VerdictInv

\* Every step keeps it.
LEMMA NextVerdictInv == VerdictInv /\ [Next]_vars => VerdictInv'
<1> SUFFICES ASSUME VerdictInv, [Next]_vars PROVE VerdictInv'
  OBVIOUS
<1>0. TypeOK /\ TypeOK'
  BY NextTypeOK DEF VerdictInv
<1>s. LongRunning \subseteq Services /\ OneShots \subseteq Services
  BY DEF Services
<1>1. ASSUME NEW s \in Services, ContainerStep(s) PROVE VerdictInv'
  BY <1>0, <1>1, ContainersKeepVerdict
<1>c. ASSUME container' = container PROVE \A s : /\ HasFailed(s)' <=> HasFailed(s)
                                                 /\ Settled(s)' <=> Settled(s)
  BY <1>c DEF HasFailed, Settled
<1>2. ASSUME UNCHANGED <<container, gateVars, services_ready, pending>> PROVE
        (Blamed' <=> Blamed) /\ (GateInv' <=> GateInv)
  BY <1>c, <1>2 DEF Blamed, GateInv, gateVars
<1>3. CASE StartTest \/ Deadline \/ Sleep \/ Terminated \/ UNCHANGED vars
  <2>1. UNCHANGED <<container, gateVars, services_ready, pending>>
    BY <1>3 DEF StartTest, Deadline, Sleep, Terminated, vars, smokeVars
  <2>2. /\ deadline => deadline'
        /\ pc' = pc \/ (pc' = "loop" /\ pc \in {"before", "sleep"})
    BY <1>3 DEF StartTest, Deadline, Sleep, Terminated, vars, smokeVars
  <2> QED
    BY <1>0, <1>c, <1>2, <2>1, <2>2 DEF VerdictInv, gateVars
<1>4. CASE TestDeadline \/ TargetsChecked
  <2>1. UNCHANGED <<expected, container, deadline, listed, uninspected, result, services_ready,
                    pending, unstarted>>
    BY <1>4 DEF TestDeadline, TargetsChecked
  <2>2. \/ pc' \in {"verdict", "list", "sleep"} /\ pc \in {"loop", "targets"}
    BY <1>4 DEF TestDeadline, TargetsChecked
  <2>3. /\ pc' = "verdict" => deadline
        /\ last_gate' => pending = {}
    BY <1>4 DEF TestDeadline, TargetsChecked
  <2> QED
    BY <1>0, <1>c, <2>1, <2>2, <2>3 DEF VerdictInv
<1>5. CASE Verdict
  <2>1. /\ pc = "verdict" /\ UNCHANGED <<container, deadline, gateVars, services_ready, pending>>
        /\ pc' = IF pending = {} /\ services_ready THEN "passed" ELSE "failed"
    BY <1>5 DEF Verdict, Passes
  <2> QED
    BY <1>0, <1>c, <1>2, <2>1 DEF VerdictInv, gateVars
<1>6. CASE ListContainers
  <2>1. /\ pc = "list" /\ pc' = "inspect" /\ UNCHANGED <<expected, container, last_gate, pending>>
        /\ listed' = {s \in Services : container[s].state # "missing"}
        /\ uninspected' = listed' /\ result' = 0
        /\ unstarted' = {s \in LongRunning : \/ container[s].state = "created"
                                             \/ container[s].state = "missing" /\ s \in expected}
        /\ expected \subseteq LongRunning
    BY <1>0, <1>6 DEF ListContainers, TypeOK
  <2>2. GateInv'
    BY <1>s, <2>1 DEF GateInv
  <2> QED
    BY <1>0, <2>1, <2>2 DEF VerdictInv
<1>7. ASSUME NEW s \in uninspected, Inspect(s) PROVE VerdictInv'
  <2>1. /\ pc = "inspect" /\ pc' = "inspect" /\ GateInv
        /\ UNCHANGED <<expected, container, last_gate, listed, unstarted, pending>>
        /\ uninspected' = uninspected \ {s} /\ result' = Report(result, Classify(s))
    BY <1>7 DEF Inspect, VerdictInv, smokeVars
  <2>2. s \in Services /\ s \in listed /\ container[s] \in Records /\ result \in 0 .. 2
    BY <1>0 DEF TypeOK, Records
  <2>3. /\ Classify(s) \in {"good", "PENDING", "FAILED"}
        /\ Classify(s) = "FAILED" => Blamed
        /\ Classify(s) = "good" => Settled(s)
    BY <2>1, <2>2, ClassifyMeans DEF GateInv, VerdictInv
  <2>4. Blamed' <=> Blamed
    BY <1>c, <2>1 DEF Blamed
  <2>5. result' = 1 => Blamed
    BY <2>1, <2>2, <2>3 DEF Report, GateInv
  <2>6. result' = 0 => \A r \in listed \ uninspected' : Settled(r)
    BY <2>1, <2>2, <2>3 DEF Report, GateInv
  <2>7. GateInv'
    BY <1>c, <2>1, <2>4, <2>5, <2>6 DEF GateInv
  <2> QED
    BY <1>0, <2>1, <2>7 DEF VerdictInv
<1>8. CASE GateExits
  <2>1. /\ pc = "inspect" /\ uninspected = {} /\ GateInv
        /\ UNCHANGED <<container, deadline, gateVars, pending>> /\ result \in 0 .. 2
    BY <1>0, <1>8 DEF GateExits, VerdictInv, TypeOK
  <2>2. ~(expected \subseteq listed) => Blamed
    BY <2>1 DEF GateInv, Blamed
  <2>3. Blamed' <=> Blamed
    BY <1>c, <2>1 DEF Blamed, gateVars
  <2>4. CASE GateFails(ExitStatus)
    <3>1. Blamed
      BY <2>1, <2>2, <2>4 DEF GateFails, ExitStatus, GateInv
    <3>2. pc' = "failed"
      BY <1>8, <2>4 DEF GateExits
    <3> QED
      BY <1>0, <2>1, <2>3, <3>1, <3>2 DEF VerdictInv
  <2>5. CASE ~GateFails(ExitStatus)
    <3>1. /\ services_ready' <=> ExitStatus = 0
          /\ pc' \in {"verdict", "sleep", "targets"}
          /\ pc' = "verdict" => last_gate /\ services_ready'
      BY <1>8, <2>5 DEF GateExits, AfterNotReady
    <3>2. ExitStatus = 0 => result = 0 /\ expected \subseteq listed
      BY DEF ExitStatus
    <3>3. services_ready' => \A s \in expected \cup listed : Settled(s)
      BY <2>1, <3>1, <3>2 DEF GateInv
    <3>4. last_gate => pending = {}
      BY <2>1 DEF VerdictInv
    <3> QED
      BY <1>0, <1>c, <2>1, <3>1, <3>3, <3>4 DEF VerdictInv, gateVars
  <2> QED
    BY <2>4, <2>5
<1>9. ASSUME NEW t \in unchecked, NEW succeeds \in BOOLEAN, CheckTarget(t, succeeds)
      PROVE  VerdictInv'
  <2>1. pc = "targets" /\ UNCHANGED <<container, deadline, gateVars, pc, services_ready>>
    BY <1>9 DEF CheckTarget
  <2> QED
    BY <1>0, <1>c, <2>1 DEF VerdictInv, gateVars
<1> QED
  BY <1>1, <1>3, <1>4, <1>5, <1>6, <1>7, <1>8, <1>9 DEF Next, Smoke, ContainerStep

\* VerdictInv holds of every reachable state.
LEMMA VerdictInvAlways == Spec => []VerdictInv
<1>1. Init => VerdictInv
  BY InitTypeOK DEF Init, VerdictInv
<1> QED
  BY <1>1, NextVerdictInv, PTL DEF Spec

\* When the smoke test has passed, every target has succeeded, every
\* long-running service that was expected or listed was started and every
\* one-shot listed has completed, although no two of them were looked at
\* together, and whichever services are expected.
THEOREM PassedMeansSettled == Spec => []PassMeansSettled
<1>1. VerdictInv => PassMeansSettled
  <2> SUFFICES ASSUME VerdictInv, pc = "passed" PROVE PassMeansSettled
    BY DEF PassMeansSettled
  <2>1. pending = {} /\ \A s \in expected \cup listed : Settled(s)
    BY DEF VerdictInv
  <2>2. expected \subseteq LongRunning /\ \A s \in LongRunning : s \notin OneShots
    BY ServicesAssumption DEF VerdictInv, TypeOK
  <2> QED
    BY <2>1, <2>2 DEF PassMeansSettled, Settled
<1> QED
  BY <1>1, VerdictInvAlways, PTL

\* Before the deadline the test fails only for a service that has failed or had
\* not been started when the gate began: one that is slow never ends it.
THEOREM SlowServicesAreAwaited == Spec => []SlowIsNotFailed
<1>1. VerdictInv => SlowIsNotFailed
  BY DEF VerdictInv, SlowIsNotFailed, Blamed
<1> QED
  BY <1>1, VerdictInvAlways, PTL
=============================================================================
