------------------------- MODULE DemoProcess_proofs -------------------------
(***************************************************************************)
(* Theorems about the process, for any number of flags of any rank.        *)
(***************************************************************************)
EXTENDS DemoProcess, TLAPS

\* The arguments are well formed.
ArgumentsOK == /\ cli.role \in Role /\ cli.paused \in BOOLEAN
               /\ Given \subseteq Flags /\ \A f \in Given : cli.flags[f] \in Ranks

\* What the process is doing is well formed.
ProcessOK ==
  /\ pc \in {"down", "arguments", "telemetry", "admin", "connect", "run", "stopping", "failing",
             "flush"}
  /\ exit \in {"none", "ok", "error", "killed"}
  /\ handler \in BOOLEAN /\ heard \in BOOLEAN /\ signalled \in BOOLEAN /\ stopped \in BOOLEAN
  /\ member \in BOOLEAN /\ in_flight \in BOOLEAN /\ touched \in BOOLEAN
  /\ flushed \in BOOLEAN
  /\ handler <=> pc \in {"run", "stopping", "failing", "flush"}

\* No process runs at first, whatever its arguments will be.
LEMMA InitTypeOK == Init => TypeOK
<1> SUFFICES ASSUME Init PROVE TypeOK
  OBVIOUS
<1>1. ArgumentsOK
  <2>1. PICK role \in Role, paused \in BOOLEAN, some \in [1 .. MaxGiven -> Flags] :
          \E given \in {{}, {some[i] : i \in 1 .. MaxGiven}} : \E flags \in [given -> Ranks] :
            cli = [role |-> role, paused |-> paused, flags |-> flags]
    BY DEF Init
  <2>2. PICK given \in {{}, {some[i] : i \in 1 .. MaxGiven}} : \E flags \in [given -> Ranks] :
          cli = [role |-> role, paused |-> paused, flags |-> flags]
    BY <2>1
  <2>3. PICK flags \in [given -> Ranks] : cli = [role |-> role, paused |-> paused, flags |-> flags]
    BY <2>2
  <2>4. given \subseteq Flags
    BY <2>2
  <2>5. cli.role = role /\ cli.paused = paused /\ cli.flags = flags
    BY <2>3
  <2>6. Given = given
    BY <2>5 DEF Given
  <2> QED
    BY <2>4, <2>5, <2>6 DEF ArgumentsOK
<1>2. ProcessOK
  <2>1. /\ handler \in BOOLEAN /\ heard \in BOOLEAN /\ signalled \in BOOLEAN /\ stopped \in BOOLEAN
        /\ member \in BOOLEAN /\ in_flight \in BOOLEAN /\ touched \in BOOLEAN
        /\ flushed \in BOOLEAN
    BY Zenon DEF Init
  <2> QED
    BY <2>1 DEF Init, ProcessOK
<1> QED
  BY <1>1, <1>2 DEF ArgumentsOK, ProcessOK, TypeOK

\* Every step keeps the types.
LEMMA NextTypeOK == TypeOK /\ [Next]_vars => TypeOK'
<1> SUFFICES ASSUME TypeOK, [Next]_vars PROVE TypeOK'
  OBVIOUS
<1> USE DEF givenVars, lifeVars, workVars
<1>1. cli' = cli
  BY DEF Next, Main, StartProcess, CheckArguments, Serve, Connect, Admit, Settle, RoleFails,
         TakeSignal, StopRole, Fail, Flush, Signal, DockerStop, Kill, Stopped, vars
<1>2. ArgumentsOK'
  BY <1>1 DEF TypeOK, ArgumentsOK, Given
<1>3. ProcessOK
  BY DEF TypeOK, ProcessOK
<1>4. ProcessOK'
  <2>1. CASE StartProcess
    BY <1>3, <2>1 DEF StartProcess, ProcessOK
  <2>2. CASE CheckArguments \/ Serve \/ Fail
    <3>1. CASE CheckArguments
      <4>1. CASE Accepted
        BY <1>3, <3>1, <4>1 DEF CheckArguments, ProcessOK
      <4>2. CASE ~Accepted
        BY <1>3, <3>1, <4>2 DEF CheckArguments, End, ProcessOK
      <4> QED
        BY <4>1, <4>2
    <3>2. CASE Serve
      <4>1. CASE End("error")
        BY <1>3, <3>2, <4>1 DEF Serve, End, ProcessOK
      <4>2. CASE ~End("error")
        BY <1>3, <3>2, <4>2 DEF Serve, ProcessOK
      <4> QED
        BY <4>1, <4>2
    <3>3. CASE Fail
      BY <1>3, <3>3 DEF Fail, End, ProcessOK
    <3> QED
      BY <2>2, <3>1, <3>2, <3>3
  <2>3. CASE Connect
    BY <1>3, <2>3 DEF Connect, End, ProcessOK
  <2>4. CASE Admit \/ Settle \/ RoleFails \/ TakeSignal
    BY <1>3, <2>4 DEF Admit, Settle, RoleFails, TakeSignal, Listens, ProcessOK
  <2>5. CASE StopRole \/ Flush \/ Kill
    BY <1>3, <2>5 DEF StopRole, Flush, Kill, End, ProcessOK
  <2>6. ASSUME Signal, stopped' \in BOOLEAN PROVE ProcessOK'
    <3>1. heard' \in BOOLEAN
      BY <1>3, <2>6, Zenon DEF Signal, Takes, ProcessOK
    <3> QED
      BY <1>3, <2>6, <3>1 DEF Signal, ProcessOK
  <2>7. CASE DockerStop
    <3>1. CASE Signal
      BY <2>6, <2>7, <3>1 DEF DockerStop
    <3>2. CASE ~Signal
      BY <1>3, <2>7, <3>2 DEF DockerStop, ProcessOK
    <3> QED
      BY <3>1, <3>2
  <2>8. CASE Signal /\ UNCHANGED stopped
    BY <1>3, <2>6, <2>8 DEF ProcessOK
  <2>9. CASE UNCHANGED vars
    BY <1>3, <2>9 DEF vars, ProcessOK
  <2> QED
    BY <2>1, <2>2, <2>3, <2>4, <2>5, <2>7, <2>8, <2>9 DEF Next, Main, Stopped
<1> QED
  BY <1>2, <1>4 DEF ArgumentsOK, ProcessOK, TypeOK

\* The variables of the process stay in their domains.
THEOREM ProcessTypeCorrect == Spec => []TypeOK
  BY InitTypeOK, NextTypeOK, PTL DEF Spec

-----------------------------------------------------------------------------

\* Why telemetry is flushed: a signal was heard, the role stopped, and it has
\* neither a delivery nor a membership left.
FlushInv ==
  /\ heard => handler /\ signalled
  /\ pc \in {"stopping", "flush"} => signalled
  /\ pc = "flush" => ~in_flight /\ ~member
  /\ flushed => pc = "down" /\ signalled /\ ~in_flight /\ ~member

\* A role stops only for a signal, and reaches the flush only drained and left.
LEMMA NextFlushInv == TypeOK /\ FlushInv /\ [Next]_vars => FlushInv'
<1> SUFFICES ASSUME TypeOK, FlushInv, [Next]_vars PROVE FlushInv'
  OBVIOUS
<1> USE DEF givenVars, lifeVars, workVars
<1>1. ProcessOK
  BY DEF TypeOK, ProcessOK
<1>2. CASE StartProcess
  BY <1>1, <1>2 DEF StartProcess, FlushInv, ProcessOK
<1>3. CASE CheckArguments
  <2>1. CASE Accepted
    BY <1>1, <1>3, <2>1 DEF CheckArguments, FlushInv, ProcessOK
  <2>2. CASE ~Accepted
    BY <1>1, <1>3, <2>2 DEF CheckArguments, End, FlushInv, ProcessOK
  <2> QED
    BY <2>1, <2>2
<1>4. CASE Serve
  <2>1. CASE End("error")
    BY <1>1, <1>4, <2>1 DEF Serve, End, FlushInv, ProcessOK
  <2>2. CASE ~End("error")
    BY <1>1, <1>4, <2>2 DEF Serve, FlushInv, ProcessOK
  <2> QED
    BY <2>1, <2>2
<1>5. CASE Connect
  <2>1. CASE pc' = "run" /\ handler' = TRUE /\ UNCHANGED heard
    BY <1>1, <1>5, <2>1 DEF Connect, FlushInv, ProcessOK
  <2>2. CASE End("error")
    <3>1. ~flushed
      BY <1>5 DEF Connect, FlushInv
    <3> QED
      BY <1>1, <1>5, <2>2, <3>1 DEF Connect, End, FlushInv, ProcessOK
  <2> QED
    BY <1>5, <2>1, <2>2 DEF Connect
<1>6. CASE Admit \/ Settle \/ RoleFails
  BY <1>1, <1>6 DEF Admit, Settle, RoleFails, FlushInv, ProcessOK
<1>7. CASE TakeSignal
  BY <1>1, <1>7 DEF TakeSignal, Listens, FlushInv, ProcessOK
<1>8. CASE StopRole
  <2>1. CASE pc' = "flush" /\ member' = FALSE /\ UNCHANGED lifeVars
    BY <1>1, <1>8, <2>1 DEF StopRole, Drained, FlushInv, ProcessOK
  <2>2. CASE End("error")
    BY <1>1, <1>8, <2>2 DEF StopRole, End, FlushInv, ProcessOK
  <2> QED
    BY <1>8, <2>1, <2>2 DEF StopRole
<1>9. CASE Fail \/ Kill
  BY <1>1, <1>9 DEF Fail, Kill, End, FlushInv, ProcessOK
<1>10. CASE Flush
  BY <1>1, <1>10 DEF Flush, End, FlushInv, ProcessOK
<1>11. CASE Signal
  <2>1. ~handler => heard' = heard
    BY <1>11 DEF Signal
  <2>2. signalled' = TRUE /\ pc' = pc /\ UNCHANGED handler /\ UNCHANGED flushed /\ pc # "down"
    BY <1>11 DEF Signal
  <2> QED
    BY <1>1, <2>1, <2>2, <1>11 DEF Signal, FlushInv, ProcessOK
<1>12. CASE DockerStop /\ ~Signal
  BY <1>1, <1>12 DEF DockerStop, FlushInv, ProcessOK
<1>13. CASE UNCHANGED vars
  BY <1>1, <1>13 DEF vars, FlushInv, ProcessOK
<1> QED
  BY <1>2, <1>3, <1>4, <1>5, <1>6, <1>7, <1>8, <1>9, <1>10, <1>11, <1>12, <1>13
     DEF Next, Main, Stopped

\* Telemetry is flushed last: after a signal, with no delivery pending and no
\* group membership left.
THEOREM TelemetryFlushesLast == Spec => []FlushIsLast
<1>1. Init => FlushInv
  BY DEF Init, FlushInv
<1>2. FlushInv => FlushIsLast
  BY DEF FlushInv, FlushIsLast
<1> QED
  BY <1>1, <1>2, ProcessTypeCorrect, NextFlushInv, PTL DEF Spec

-----------------------------------------------------------------------------

\* A role that has begun to stop, without failing, has heard of it.
HeardInv == /\ heard => handler
            /\ pc \in {"stopping", "flush"} => heard

\* Every step keeps it: only the end of the process clears what was heard.
LEMMA NextHeardInv == TypeOK /\ HeardInv /\ [Next]_vars => HeardInv'
<1> SUFFICES ASSUME TypeOK, HeardInv, [Next]_vars PROVE HeardInv'
  OBVIOUS
<1> USE DEF givenVars, lifeVars, workVars
<1>1. ProcessOK
  BY DEF TypeOK, ProcessOK
<1>2. CASE pc' = "down" /\ handler' = FALSE /\ heard' = FALSE
  BY <1>2 DEF HeardInv
<1>3. CASE pc' \notin {"stopping", "flush"} /\ heard' = heard /\ (handler => handler')
  BY <1>1, <1>3 DEF HeardInv, ProcessOK
<1>4. CASE StartProcess \/ CheckArguments \/ Serve \/ Connect \/ Fail \/ Flush \/ Kill
  <2>1. \/ pc' = "down" /\ handler' = FALSE /\ heard' = FALSE
        \/ pc' \notin {"stopping", "flush"} /\ heard' = heard /\ (handler => handler')
    BY <1>4 DEF StartProcess, CheckArguments, Serve, Connect, Fail, Flush, Kill, End
  <2> QED
    BY <1>2, <1>3, <2>1
<1>5. CASE Admit \/ Settle \/ RoleFails \/ (DockerStop /\ ~Signal) \/ UNCHANGED vars
  BY <1>1, <1>5 DEF Admit, Settle, RoleFails, DockerStop, vars, HeardInv, ProcessOK
<1>6. CASE TakeSignal
  BY <1>1, <1>6 DEF TakeSignal, Listens, HeardInv, ProcessOK
<1>7. CASE StopRole
  <2>1. CASE pc' = "flush" /\ UNCHANGED lifeVars
    BY <1>1, <1>7, <2>1 DEF StopRole, HeardInv, ProcessOK
  <2>2. CASE End("error")
    BY <1>2, <2>2 DEF End
  <2> QED
    BY <1>7, <2>1, <2>2 DEF StopRole
<1>8. CASE Signal
  <2>1. ~handler => heard' = heard
    BY <1>8 DEF Signal
  <2>2. heard => heard' = TRUE
    BY <1>1, <1>8, Zenon DEF Signal, Takes, ProcessOK
  <2> QED
    BY <1>1, <1>8, <2>1, <2>2 DEF Signal, HeardInv, ProcessOK
<1> QED
  BY <1>4, <1>5, <1>6, <1>7, <1>8 DEF Next, Main, Stopped

\* No step of the role or of its surroundings takes back a signal it has heard.
THEOREM SignalsAreKept == Spec => HeardIsKept
<1> DEFINE Kept == /\ heard => heard' \/ pc' = "down"
                   /\ pc \in {"stopping", "failing", "flush"} => pc' # "run"
                   /\ exit # "ok" /\ exit' = "ok" => heard
<1>1. Init => HeardInv
  BY DEF Init, HeardInv
<1>2. TypeOK /\ HeardInv /\ [Next]_vars => [Kept]_vars
  <2> SUFFICES ASSUME TypeOK, HeardInv, Next PROVE Kept
    OBVIOUS
  <2> USE DEF givenVars, lifeVars, workVars
  <2>1. ProcessOK
    BY DEF TypeOK, ProcessOK
  <2>2. CASE StartProcess \/ CheckArguments \/ Serve \/ Connect \/ Fail \/ Kill \/ StopRole
    BY <2>1, <2>2
       DEF StartProcess, CheckArguments, Serve, Connect, Fail, Kill, StopRole, End, ProcessOK
  <2>3. CASE Flush
    BY <2>1, <2>3 DEF Flush, End, HeardInv, ProcessOK
  <2>4. CASE Admit \/ Settle \/ RoleFails \/ TakeSignal \/ (DockerStop /\ ~Signal) \/ Stopped
    BY <2>1, <2>4 DEF Admit, Settle, RoleFails, TakeSignal, DockerStop, Stopped, vars, ProcessOK
  <2>5. CASE Signal
    <3>1. heard => heard' = TRUE
      BY <2>1, <2>5, Zenon DEF Signal, Takes, ProcessOK
    <3> QED
      BY <2>5, <3>1 DEF Signal
  <2> QED
    BY <2>2, <2>3, <2>4, <2>5 DEF Next, Main
<1> QED
  BY <1>1, <1>2, ProcessTypeCorrect, NextHeardInv, PTL DEF Spec, HeardIsKept

-----------------------------------------------------------------------------

\* The policies built one after the other refuse just what the flags'
\* documentation does, whichever flags are given.
LEMMA AcceptedIsSound == ArgumentsOK => (Accepted <=> Sound)
<1> SUFFICES ASSUME ArgumentsOK PROVE Accepted <=> Sound
  OBVIOUS
<1>1. \A f : Effective(f) = TooLarge <=> f \in Given /\ cli.flags[f] = TooLarge
  BY FlagsAssumption DEF Effective, Default
<1>2. \A f \in Given : cli.flags[f] \in Nat /\ f \in Flags
  BY FlagsAssumption DEF ArgumentsOK, Ranks
<1>3. ASSUME Accepted PROVE Sound
  <2>1. ASSUME NEW f \in Given
        PROVE  /\ f \in StreamFlags => cli.role = "stream"
               /\ f \in ConsumerFlags => cli.role = "consume"
    BY <1>3 DEF Accepted, consumer_runtime, effective_streams, effective_consumer_fetch_policy,
            effective_consumer_timing, effective_consumer_behavior, effective_consumer_group,
            effective_consumer_retry_policy, OwnRole, ConsumerFlags
  <2>2. ASSUME NEW f \in Given, cli.flags[f] = 0 PROVE f = "state-store-cache-max"
    BY <1>2, <1>3, <2>2 DEF Accepted, Parsed
  <2>3. ASSUME NEW f \in Given, cli.flags[f] = TooLarge
        PROVE  f \in TimingFlags \cup BehaviorFlags \cup SchemaFlags
    <3>1. f \notin StreamFlags /\ f \notin GroupFlags /\ f \notin RetryFlags /\ f \notin FetchFlags
      BY <1>1, <1>3, <2>3
         DEF Accepted, consumer_runtime, effective_streams, effective_consumer_fetch_policy,
             effective_consumer_group, effective_consumer_retry_policy, Built
    <3> QED
      BY <1>2, <3>1 DEF Flags, ConsumerFlags
  <2>4. \A limit \in {<<"startup-attempt-timeout", "startup-deadline">>,
                      <<"startup-initial-backoff", "startup-max-backoff">>,
                      <<"coordinator-initial-backoff", "coordinator-max-backoff">>,
                      <<"fetch-min", "fetch-max">>,
                      <<"schema-initial-backoff", "schema-max-backoff">>} :
          Effective(limit[1]) <= Effective(limit[2])
    BY <1>3 DEF Accepted, consumer_runtime, effective_consumer_fetch_policy,
            effective_consumer_retry_policy, schema_fetch_retry_policy, InOrder
  <2> QED
    BY <2>1, <2>2, <2>3, <2>4 DEF Sound
<1>4. ASSUME Sound PROVE Accepted
  <2>1. /\ InOrder("startup-attempt-timeout", "startup-deadline")
        /\ InOrder("startup-initial-backoff", "startup-max-backoff")
        /\ InOrder("coordinator-initial-backoff", "coordinator-max-backoff")
        /\ InOrder("fetch-min", "fetch-max")
        /\ InOrder("schema-initial-backoff", "schema-max-backoff")
    <3>1. ASSUME NEW low, NEW high,
                 <<low, high>> \in {<<"startup-attempt-timeout", "startup-deadline">>,
                                    <<"startup-initial-backoff", "startup-max-backoff">>,
                                    <<"coordinator-initial-backoff", "coordinator-max-backoff">>,
                                    <<"fetch-min", "fetch-max">>,
                                    <<"schema-initial-backoff", "schema-max-backoff">>}
          PROVE  InOrder(low, high)
      BY <1>4, <3>1 DEF Sound, InOrder
    <3> QED
      BY <3>1
  <2>2. /\ OwnRole("stream", StreamFlags) /\ OwnRole("consume", GroupFlags)
        /\ OwnRole("consume", RetryFlags) /\ OwnRole("consume", FetchFlags)
        /\ OwnRole("consume", TimingFlags) /\ OwnRole("consume", BehaviorFlags)
    BY <1>4 DEF Sound, OwnRole, ConsumerFlags
  <2>3. ASSUME NEW f \in StreamFlags \cup GroupFlags \cup RetryFlags \cup FetchFlags
        PROVE  Effective(f) # TooLarge
    <3>1. f \notin TimingFlags \cup BehaviorFlags \cup SchemaFlags
      BY <2>3 DEF StreamFlags, GroupFlags, RetryFlags, FetchFlags, TimingFlags, BehaviorFlags,
                  SchemaFlags
    <3> QED
      BY <1>1, <1>4, <3>1 DEF Sound
  <2>4. "streams-fetch-min" \in StreamFlags
    BY DEF StreamFlags
  <2>5. Parsed
    <3>1. \A f \in Given \ {"state-store-cache-max"} : cli.flags[f] > 0
      BY <1>2, <1>4 DEF Sound
    <3> QED
      BY <2>3, <2>4, <3>1 DEF Parsed, Built
  <2> QED
    BY <2>1, <2>2, <2>3, <2>5
       DEF Accepted, consumer_runtime, effective_streams, effective_consumer_fetch_policy,
           effective_consumer_timing, effective_consumer_behavior, effective_consumer_group,
           effective_consumer_retry_policy, schema_fetch_retry_policy, Built
<1> QED
  BY <1>3, <1>4

\* How far main() has got tells what it made of the arguments.
ArgumentsInv ==
  /\ touched => Accepted
  /\ pc \notin {"down", "arguments"} => Accepted
  /\ pc \notin {"down", "arguments", "telemetry"} => touched
  /\ exit = "error" /\ ~touched => ~Accepted

\* The arguments stay, and only CheckArguments gets past them or stops at them.
LEMMA NextArgumentsInv == ArgumentsInv /\ [Next]_vars => ArgumentsInv'
<1> SUFFICES ASSUME ArgumentsInv, [Next]_vars PROVE ArgumentsInv'
  OBVIOUS
<1> USE DEF givenVars, lifeVars, workVars
<1>1. Accepted' <=> Accepted
  <2>1. cli' = cli
    BY DEF Next, Main, StartProcess, CheckArguments, Serve, Connect, Admit, Settle, RoleFails,
           TakeSignal, StopRole, Fail, Flush, Signal, DockerStop, Kill, Stopped, vars
  <2> QED
    BY <2>1 DEF Accepted, Parsed, consumer_runtime, effective_streams,
       effective_consumer_fetch_policy, effective_consumer_timing, effective_consumer_behavior,
       effective_consumer_group, effective_consumer_retry_policy, schema_fetch_retry_policy,
       OwnRole, Built, InOrder, Effective, Given
<1>2. CASE StartProcess
  BY <1>1, <1>2 DEF StartProcess, ArgumentsInv
<1>3. CASE CheckArguments
  BY <1>1, <1>3 DEF CheckArguments, End, ArgumentsInv
<1>4. CASE Serve
  BY <1>1, <1>4 DEF Serve, End, ArgumentsInv
<1>5. CASE Connect \/ StopRole
  BY <1>1, <1>5 DEF Connect, StopRole, End, ArgumentsInv
<1>6. CASE Admit \/ Settle \/ RoleFails \/ TakeSignal
  BY <1>1, <1>6 DEF Admit, Settle, RoleFails, TakeSignal, Listens, ArgumentsInv
<1>7. CASE Fail \/ Flush \/ Kill
  BY <1>1, <1>7 DEF Fail, Flush, Kill, End, ArgumentsInv
<1>8. CASE Signal
  BY <1>1, <1>8 DEF Signal, ArgumentsInv
<1>9. CASE DockerStop /\ ~Signal
  BY <1>1, <1>9 DEF DockerStop, ArgumentsInv
<1>10. CASE UNCHANGED vars
  BY <1>1, <1>10 DEF vars, ArgumentsInv
<1> QED
  BY <1>2, <1>3, <1>4, <1>5, <1>6, <1>7, <1>8, <1>9, <1>10 DEF Next, Main, Stopped

\* No process of the container uses anything external with arguments that are
\* not sound, and none refuses sound ones, whichever and however many are given.
THEOREM ArgumentsAreCheckedFirst == Spec => []ArgumentsComeFirst
<1>1. Init => ArgumentsInv
  BY DEF Init, ArgumentsInv
<1>2. TypeOK => ArgumentsOK
  BY DEF TypeOK, ArgumentsOK
<1>3. TypeOK /\ ArgumentsInv => ArgumentsComeFirst
  BY <1>2, AcceptedIsSound DEF ArgumentsInv, ArgumentsComeFirst
<1> QED
  BY <1>1, <1>3, ProcessTypeCorrect, NextArgumentsInv, PTL DEF Spec
=============================================================================
