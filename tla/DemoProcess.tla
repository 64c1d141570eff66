---------------------------- MODULE DemoProcess ----------------------------
(***************************************************************************)
(* main() of the demo app in its container: the check of its arguments,    *)
(* telemetry, the role, the flush, and signals at any of these points.     *)
(*                                                                         *)
(* A flag's value is its rank: zero, a few ordinary values, and one that   *)
(* the policy built from it refuses as too large.  Of the loops of the     *)
(* producer and of the consumer, which have modules of their own, only     *)
(* what main() can see is here.  External: Docker, which starts a          *)
(* container again unless it was told to stop it, and whatever the process *)
(* talks to; in a container the process is PID 1, which does not take the  *)
(* default action of a signal.                                             *)
(***************************************************************************)
EXTENDS Naturals

CONSTANTS TooLarge, \* the rank of the values too large
          MaxGiven  \* bound on the role-specific flags given

\* Ranks 1 and 2 are those of the defaults.
ASSUME FlagsAssumption == TooLarge \in Nat /\ TooLarge > 2 /\ MaxGiven \in Nat

VARIABLES cli,       \* role, paused (an order rate of zero), flags
          pc,        \* where main() has got to; "down" when there is no process
          exit,      \* how the process ended: "none", "ok", "error", "killed"
          handler,   \* tokio's handler for the signals is installed
          heard,     \* the role's shutdown_signal() future is ready
          signalled, \* history: this process was sent a signal
          stopped,   \* docker compose stop was called
          member,    \* joined the role's group and has not told it to leave
          in_flight, \* the producer has deliveries pending
          touched,   \* history: any process of the container used anything external
          flushed    \* telemetry.shutdown() has flushed this process's telemetry

givenVars == <<cli, signalled, stopped>>
lifeVars == <<exit, handler, heard>>
workVars == <<member, in_flight, flushed>>
vars == <<givenVars, pc, lifeVars, workVars, touched>>

Role == {"produce", "stream", "consume"}

-----------------------------------------------------------------------------
(* The arguments: the flags of some roles only, and what is made of them.   *)

StreamFlags == {"streams-fetch-min", "broker-dns-timeout", "poll-interval", "commit-interval",
                "streams-rebalance-timeout", "leave-heartbeat-timeout", "join-retry-backoff",
                "query-queue-capacity", "state-store-cache-max"}
RetryFlags == {"startup-attempt-timeout", "startup-deadline", "startup-initial-backoff",
               "startup-max-backoff", "coordinator-retry-timeout",
               "coordinator-initial-backoff", "coordinator-max-backoff"}
FetchFlags == {"fetch-min", "fetch-max", "fetch-partition-max"}
TimingFlags == {"session-timeout", "rebalance-timeout", "heartbeat-interval", "request-timeout"}
BehaviorFlags == {"auto-offset-reset", "isolation-level", "assignor"}
GroupFlags == {"leave-group-timeout", "metadata-refresh-interval"}
ConsumerFlags == GroupFlags \cup RetryFlags \cup FetchFlags \cup TimingFlags \cup BehaviorFlags
SchemaFlags == {"schema-initial-backoff", "schema-max-backoff"}
Flags == StreamFlags \cup ConsumerFlags \cup SchemaFlags

\* The lower limits have the lower defaults.
Default(f) == IF f \in {"startup-attempt-timeout", "startup-initial-backoff", "fetch-min",
                        "coordinator-initial-backoff", "schema-initial-backoff"} THEN 1 ELSE 2

Given == DOMAIN cli.flags
Effective(f) == IF f \in Given THEN cli.flags[f] ELSE Default(f)

-----------------------------------------------------------------------------
(* Slips for the mutation checks.                                          *)

InOrderIfGiven(low, high) == {low, high} \subseteq Given => cli.flags[low] <= cli.flags[high]
DrainNothing == TRUE
ListenUnlessPaused == pc = "run" /\ heard /\ ~cli.paused

-----------------------------------------------------------------------------

InOrder(low, high) == Effective(low) <= Effective(high)

\* The flags that are only valid with one role.
OwnRole(role, flags) == cli.role = role \/ Given \cap flags = {}

\* The types of the policies refuse values too large.
Built(flags) == \A f \in flags : Effective(f) # TooLarge

\* Cli::parse: zero is a value of one flag only, and two are checked in full.
Parsed == /\ \A f \in Given \ {"state-store-cache-max"} : cli.flags[f] > 0
          /\ Built({"streams-fetch-min"})

effective_streams == OwnRole("stream", StreamFlags) /\ Built(StreamFlags)
effective_consumer_group == OwnRole("consume", GroupFlags) /\ Built(GroupFlags)
effective_consumer_retry_policy ==
  /\ OwnRole("consume", RetryFlags) /\ Built(RetryFlags)
  /\ InOrder("startup-attempt-timeout", "startup-deadline")
  /\ InOrder("startup-initial-backoff", "startup-max-backoff")
  /\ InOrder("coordinator-initial-backoff", "coordinator-max-backoff")
effective_consumer_fetch_policy ==
  /\ OwnRole("consume", FetchFlags) /\ Built(FetchFlags)
  /\ InOrder("fetch-min", "fetch-max")
effective_consumer_timing == OwnRole("consume", TimingFlags)
effective_consumer_behavior == OwnRole("consume", BehaviorFlags)
schema_fetch_retry_policy == InOrder("schema-initial-backoff", "schema-max-backoff")

consumer_runtime == /\ effective_consumer_fetch_policy /\ effective_consumer_timing
                    /\ effective_consumer_behavior /\ effective_consumer_group
                    /\ effective_consumer_retry_policy
Accepted == Parsed /\ schema_fetch_retry_policy /\ effective_streams /\ consumer_runtime

-----------------------------------------------------------------------------
(* The process.                                                            *)

\* The role's future of shutdown_signal() takes a signal that comes now: that of
\* the consumer is a new one in each turn of its loop and may miss it.
Takes == IF cli.role = "consume" THEN BOOLEAN ELSE {TRUE}

\* The role gets to hear of it, whether it runs or is paused.
Listens == pc = "run" /\ heard

\* What a producer waits for when it stops.
Drained == ~in_flight

Ranks == 0 .. TooLarge

\* Any role, with at most MaxGiven of the flags given.
Init == /\ \E role \in Role, paused \in BOOLEAN, some \in [1 .. MaxGiven -> Flags] :
             \E given \in {{}, {some[i] : i \in 1 .. MaxGiven}} : \E flags \in [given -> Ranks] :
               /\ paused => role = "produce"
               /\ cli = [role |-> role, paused |-> paused, flags |-> flags]
        /\ pc = "down" /\ exit = "none"
        /\ handler = FALSE /\ heard = FALSE /\ signalled = FALSE
        /\ stopped = FALSE
        /\ member = FALSE /\ in_flight = FALSE
        /\ touched = FALSE
        /\ flushed = FALSE

\* The process ends; what it leaves pending or joined stays on record.
End(how) == /\ pc' = "down" /\ exit' = how
            /\ handler' = FALSE /\ heard' = FALSE

\* External: Docker starts the container, at first and again after any exit.
StartProcess == /\ pc = "down"
                /\ ~stopped
                /\ pc' = "arguments" /\ exit' = "none"
                /\ signalled' = FALSE /\ member' = FALSE /\ in_flight' = FALSE /\ flushed' = FALSE
                /\ UNCHANGED <<cli, handler, heard, stopped, touched>>

\* The arguments are parsed and all policies built.
CheckArguments == /\ pc = "arguments"
                  /\ IF Accepted THEN pc' = "telemetry" /\ UNCHANGED lifeVars
                                 ELSE End("error")
                  /\ UNCHANGED <<givenVars, workVars, touched>>

\* Telemetry, then the admin server; each may fail.
Serve == /\ pc \in {"telemetry", "admin"}
         /\ touched' = TRUE
         /\ \/ /\ pc' = IF pc = "telemetry" THEN "admin" ELSE "connect"
               /\ UNCHANGED lifeVars
            \/ End("error")
         /\ UNCHANGED <<givenVars, workVars>>

\* The role's registry and client: a group is joined on the way, also if it fails
\* later.  When this is done the role polls its shutdown_signal(), which installs
\* the handler.
Connect == /\ pc = "connect"
           /\ \/ /\ pc' = "run" /\ handler' = TRUE
                 /\ member' = (cli.role # "produce")
                 /\ UNCHANGED <<exit, heard>>
              \/ /\ End("error")
                 /\ member' \in (IF cli.role = "produce" THEN {FALSE} ELSE BOOLEAN)
           /\ UNCHANGED <<givenVars, in_flight, flushed, touched>>

\* The producer, unless paused, admits a delivery.
Admit == /\ pc = "run" /\ cli.role = "produce" /\ ~cli.paused
         /\ in_flight' = TRUE
         /\ UNCHANGED <<givenVars, pc, lifeVars, member, flushed, touched>>

\* The last pending delivery ends.
Settle == /\ pc \in {"run", "stopping", "failing"} /\ in_flight
          /\ in_flight' = FALSE
          /\ UNCHANGED <<givenVars, pc, lifeVars, member, flushed, touched>>

\* A delivery panics, also in the drain, or poll() of the consumer fails.
RoleFails == /\ \/ pc \in {"run", "stopping"} /\ in_flight
                \/ pc = "run" /\ cli.role = "consume"
             /\ pc' = "failing"
             /\ UNCHANGED <<givenVars, lifeVars, workVars, touched>>

\* The role's future is ready, so the role stops.
TakeSignal == /\ Listens
              /\ pc' = "stopping"
              /\ UNCHANGED <<givenVars, lifeVars, workVars, touched>>

\* The producer drains; the others leave their group, which may fail.  An Ok of
\* close() means that the leave was sent: it is best-effort, so the broker may
\* still have to find out by the member's silence.
StopRole == /\ pc = "stopping"
            /\ Drained
            /\ \/ pc' = "flush" /\ member' = FALSE /\ UNCHANGED lifeVars
               \/ cli.role # "produce" /\ End("error") /\ member' \in BOOLEAN
            /\ UNCHANGED <<givenVars, in_flight, flushed, touched>>

\* An error leaves main() through ?, after the drain of a producer.
Fail == /\ pc = "failing"
        /\ Drained
        /\ End("error")
        /\ UNCHANGED <<givenVars, workVars, touched>>

Flush == /\ pc = "flush"
         /\ flushed' = TRUE
         /\ End("ok")
         /\ UNCHANGED <<givenVars, member, in_flight, touched>>

\* SIGINT or SIGTERM: taken by the role's future if there is a handler.
Signal == /\ pc # "down"
          /\ signalled' = TRUE
          /\ heard' \in (IF handler THEN {heard \/ t : t \in Takes} ELSE {heard})
          /\ UNCHANGED <<cli, pc, exit, handler, workVars, touched>>

\* docker compose stop, which signals a process that is there.
DockerStop == /\ ~stopped
              /\ stopped' = TRUE
              /\ \/ Signal
                 \/ pc = "down" /\ UNCHANGED <<cli, signalled, pc, lifeVars, workVars, touched>>

\* The end of the grace period, or the memory limit.
Kill == /\ pc # "down"
        /\ End("killed")
        /\ UNCHANGED <<givenVars, workVars, touched>>

Main == CheckArguments \/ Serve \/ Connect \/ TakeSignal \/ StopRole \/ Fail \/ Flush
Stopped == pc = "down" /\ stopped /\ UNCHANGED vars

Next == \/ StartProcess \/ Main \/ Admit \/ Settle \/ RoleFails
        \/ Signal /\ UNCHANGED stopped
        \/ DockerStop \/ Kill \/ Stopped

(***************************************************************************)
(* Fairness: main() runs on, each delivery ends.  Signals, failures of a   *)
(* role and kills are not fair, nor is a restart.                          *)
(***************************************************************************)
Fairness == WF_vars(Main) /\ WF_vars(Settle)

Spec == Init /\ [][Next]_vars
FairSpec == Spec /\ Fairness

-----------------------------------------------------------------------------

\* The variables stay in their domains; a process with a handler has connected.
TypeOK == /\ cli.role \in Role /\ cli.paused \in BOOLEAN
          /\ Given \subseteq Flags /\ \A f \in Given : cli.flags[f] \in Ranks
          /\ pc \in {"down", "arguments", "telemetry", "admin", "connect", "run", "stopping",
                     "failing", "flush"}
          /\ exit \in {"none", "ok", "error", "killed"}
          /\ handler \in BOOLEAN /\ heard \in BOOLEAN /\ signalled \in BOOLEAN /\ stopped \in BOOLEAN
          /\ member \in BOOLEAN /\ in_flight \in BOOLEAN /\ touched \in BOOLEAN
          /\ flushed \in BOOLEAN
          /\ handler <=> pc \in {"run", "stopping", "failing", "flush"}

\* What the flags' documentation asks for, flag by flag.
Sound ==
  /\ \A f \in Given : /\ f \in StreamFlags => cli.role = "stream"
                      /\ f \in ConsumerFlags => cli.role = "consume"
                      /\ cli.flags[f] = 0 => f = "state-store-cache-max"
                      /\ cli.flags[f] = TooLarge =>
                           f \in TimingFlags \cup BehaviorFlags \cup SchemaFlags
  /\ \A limit \in {<<"startup-attempt-timeout", "startup-deadline">>,
                    <<"startup-initial-backoff", "startup-max-backoff">>,
                    <<"coordinator-initial-backoff", "coordinator-max-backoff">>,
                    <<"fetch-min", "fetch-max">>,
                    <<"schema-initial-backoff", "schema-max-backoff">>} :
       Effective(limit[1]) <= Effective(limit[2])

\* "invalid values and ordering fail before external io" (the tests of the
\* flags): nothing external is used with arguments that are not sound, however
\* often Docker starts the process, and sound ones are never refused.
ArgumentsComeFirst == /\ touched => Sound
                      /\ exit = "error" /\ ~touched => ~Sound

\* "Shutdown waits for SIGINT or SIGTERM, closes consumer/Streams group
\* membership, then flushes telemetry" (DESIGN.md), and the producer has drained.
FlushIsLast == flushed => signalled /\ ~in_flight /\ ~member

\* A signal the role's future has taken is kept until the process ends, a role
\* that stops does not run again, and main() returns Ok only having heard one.
HeardIsKept == [][/\ heard => heard' \/ pc' = "down"
                  /\ pc \in {"stopping", "failing", "flush"} => pc' # "run"
                  /\ exit # "ok" /\ exit' = "ok" => heard]_vars

\* A signal that a role's future has taken ends the process, paused or not,
\* whatever is pending.
HeardSignalsEnd == heard ~> pc = "down"
=============================================================================
