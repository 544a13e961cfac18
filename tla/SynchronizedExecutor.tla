------------------------ MODULE SynchronizedExecutor ------------------------
(***************************************************************************)
(* SynchronizedExecutor.run: in every joint tick each agent's action       *)
(* provider is asked for a fragment, the central safety monitor looks at   *)
(* the fragments, and the joint stepper merges them into one step of the   *)
(* simulator.  The cancellation token and the stepper live as long as the  *)
(* executor does; anyone who holds the token may cancel it at any moment.  *)
(* Providers and simulator answer anything, or raise.                      *)
(***************************************************************************)
EXTENDS MultiAgentScheduler

-----------------------------------------------------------------------------
(* CentralJointStepper.merge: the fragments of the agents become one       *)
(* simulator action.  A fragment's command maps the indices it drives to   *)
(* values; "ragged" says that its index and value lists differ in length.  *)
(* Control, position and weld targets are merged alike, so one index space *)
(* stands for the three.                                                   *)

Rank(agent) == CHOOSE i \in DOMAIN AgentOrder : AgentOrder[i] = agent

Commanded(frags) == UNION {DOMAIN frags[a].command : a \in DOMAIN frags}

Writers(frags, index) == {a \in DOMAIN frags : index \in DOMAIN frags[a].command}

\* Mutant of MergeFails: clashing values go unnoticed, the last one wins.
LengthsDiffer(frags) == \E a \in DOMAIN frags : frags[a].ragged

\* Two values clash unless np.allclose holds: equal values stand for close ones.
MergeFails(frags) ==
    \/ \E a \in DOMAIN frags : frags[a].ragged
    \/ \E i \in Commanded(frags) : \E a, b \in Writers(frags, i) :
          frags[a].command[i] # frags[b].command[i]

\* The agents are merged in agent_order, each overwriting the ones before.
Merge(frags) ==
    [i \in Commanded(frags) |->
        LET last == CHOOSE a \in Writers(frags, i) :
                        \A b \in Writers(frags, i) : Rank(b) <= Rank(a)
        IN  frags[last].command[i]]

-----------------------------------------------------------------------------
CONSTANTS
    Providers,            \* the agents of agent_order with an action provider
    Fragments,            \* what a provider may publish: [command, ragged]
    NonFinite,            \* the values that are nan or infinite
    LatencyIsLimited,     \* max_policy_latency_ms is not None
    MaxJointSteps         \* max_joint_steps of each run

ASSUME ExecutorAssumption ==
    /\ Providers \subseteq Agents
    /\ \A f \in Fragments : f.ragged \in BOOLEAN
    /\ LatencyIsLimited \in BOOLEAN
    /\ MaxJointSteps \in Nat

VARIABLES
    pc,                   \* where run() is
    cancelled,            \* cancellation_token.cancelled
    step_index,           \* joint_stepper.step_index
    clock,                \* history: how often the simulator moved
    obs,                  \* the observation run() holds: the clock it shows
    tick,                 \* ticks begun by this run
    frags,                \* the tick's fragments, with the clock they were made for
    slow,                 \* the agents whose latency exceeds the limit
    events,               \* the codes of the safety events
    metrics,              \* central_steps, summed_agent_steps, stop_all_events
    acted,                \* fragments each provider published in this run
    applied,              \* the simulator action of the last joint step
    result                \* central_status of the last run

sync_vars == <<pc, cancelled, step_index, clock, obs, tick, frags, slow, events,
               metrics, acted, applied, result>>

NewMetrics == [central |-> 0, summed |-> 0, stops |-> 0]

SyncInit ==
    /\ pc = "idle" /\ cancelled = FALSE
    /\ step_index = 0 /\ clock = 0 /\ obs = 0 /\ tick = 0
    /\ frags = << >> /\ slow = {} /\ events = {}
    /\ metrics = NewMetrics
    /\ acted = [a \in Providers |-> 0]
    /\ applied = << >>
    /\ result = "none"

Returns(status) == pc' = "idle" /\ result' = status

\* Locals of a tick that nothing reads any more.
DropTick == frags' = << >> /\ slow' = {}

\* run() of a schedule that is not concurrent.
Refuse(mode) ==
    /\ pc = "idle" /\ mode # "concurrent"
    /\ Returns(IF mode = "reject" THEN "REJECTED" ELSE "NOT_CONCURRENT")
    /\ UNCHANGED <<cancelled, step_index, clock, obs, tick, frags, slow, events,
                   metrics, acted, applied>>

\* run() of a concurrent one, from an observation of the present state; every
\* provider is reset.
BeginRun ==
    /\ pc = "idle"
    /\ pc' = "loop" /\ obs' = clock /\ tick' = 0
    /\ events' = {} /\ metrics' = NewMetrics
    /\ acted' = [a \in Providers |-> 0]
    /\ UNCHANGED <<cancelled, step_index, clock, frags, slow, applied, result>>

\* Mutant of StartTick: the token is not looked at again in every tick.
StartTickAnyway ==
    /\ pc = "loop" /\ tick < MaxJointSteps
    /\ pc' = "tick" /\ tick' = tick + 1
    /\ UNCHANGED <<cancelled, step_index, clock, obs, frags, slow, events, metrics,
                   acted, applied, result>>

StartTick ==
    /\ pc = "loop" /\ tick < MaxJointSteps /\ ~cancelled
    /\ pc' = "tick" /\ tick' = tick + 1
    /\ UNCHANGED <<cancelled, step_index, clock, obs, frags, slow, events, metrics,
                   acted, applied, result>>

OutOfTicks ==
    /\ pc = "loop" /\ tick = MaxJointSteps
    /\ pc' = "conclude"
    /\ UNCHANGED <<cancelled, step_index, clock, obs, tick, frags, slow, events,
                   metrics, acted, applied, result>>

\* Mutant of CaughtRuntimeError: the exception leaves no event.
CaughtSilently == pc' = "conclude" /\ DropTick /\ UNCHANGED <<events, metrics>>

\* A RuntimeError of the token, of a provider or of the simulator ends the
\* loop with a CANCELLED event; the token itself is left as it is.
CaughtRuntimeError ==
    /\ events' = events \cup {"CANCELLED"}
    /\ metrics' = [metrics EXCEPT !.stops = @ + 1]
    /\ pc' = "conclude"
    /\ DropTick

ThrowIfCancelled ==
    /\ pc = "loop" /\ tick < MaxJointSteps /\ cancelled
    /\ CaughtRuntimeError
    /\ UNCHANGED <<cancelled, step_index, clock, obs, tick, acted, applied, result>>

\* The providers are asked in agent_order.
Unasked == Providers \ DOMAIN frags

NextAction ==
    \E a \in Unasked, f \in Fragments, late \in BOOLEAN :
        /\ pc = "tick"
        /\ \A b \in Unasked : Rank(a) <= Rank(b)
        /\ late => LatencyIsLimited
        /\ frags' = [b \in DOMAIN frags \cup {a} |->
                        IF b = a
                        THEN [command |-> f.command, ragged |-> f.ragged, seen |-> obs]
                        ELSE frags[b]]
        /\ slow' = slow \cup {b \in {a} : late}
        /\ acted' = [acted EXCEPT ![a] = @ + 1]
        /\ UNCHANGED <<pc, cancelled, step_index, clock, obs, tick, events, metrics,
                       applied, result>>

ProviderFails ==
    /\ pc = "tick" /\ Unasked # {}
    /\ CaughtRuntimeError
    /\ UNCHANGED <<cancelled, step_index, clock, obs, tick, acted, applied, result>>

\* Any other exception leaves run().
Escapes ==
    /\ pc = "tick"
    /\ Returns("raised") /\ DropTick
    /\ UNCHANGED <<cancelled, step_index, clock, obs, tick, events, metrics, acted,
                   applied>>

\* CentralSafetyMonitor.check_actions.
ActionEvents ==
    {code \in {"NONFINITE_ACTION"} : \E a \in DOMAIN frags : \E i \in DOMAIN frags[a].command :
                                        frags[a].command[i] \in NonFinite}
        \cup {code \in {"POLICY_LATENCY_EXCEEDED"} : slow # {}}

\* Every agent answered, and the monitor or the merge stops the tick before
\* the simulator moves.
Monitored == pc = "tick" /\ Unasked = {}

CentralStop(codes) ==
    /\ cancelled' = TRUE
    /\ events' = events \cup codes
    /\ metrics' = [metrics EXCEPT !.stops = @ + 1]
    /\ pc' = "conclude"
    /\ DropTick
    /\ UNCHANGED <<step_index, clock, obs, tick, acted, applied, result>>

StopBeforeStep ==
    /\ Monitored
    /\ \/ ActionEvents # {} /\ CentralStop(ActionEvents)
       \/ ActionEvents = {} /\ MergeFails(frags) /\ CentralStop({"ACTION_MERGE_FAILED"})

\* One step of the simulator for all agents.  "alarms" are the unsafe contacts
\* its info reports, as the codes check_step_info makes of them.
StepEnv ==
    \E done \in BOOLEAN :
    \E alarms \in SUBSET {"FORBIDDEN_CONTACT", "RESERVATION_VIOLATION",
                          "OBJECT_OWNERSHIP_CONFLICT"} :
        /\ Monitored /\ ActionEvents = {} /\ ~MergeFails(frags)
        /\ applied' = Merge(frags)
        /\ clock' = clock + 1 /\ step_index' = step_index + 1
        /\ metrics' = [central |-> metrics.central + 1,
                       summed  |-> metrics.summed + Cardinality(DOMAIN frags),
                       stops   |-> metrics.stops + Cardinality({x \in {0} : alarms # {}})]
        /\ events' = events \cup alarms
        /\ cancelled' = (cancelled \/ alarms # {})
        /\ obs' = IF alarms = {} THEN clock' ELSE obs
        /\ pc' = IF alarms # {} \/ done THEN "conclude" ELSE "loop"
        /\ DropTick
        /\ UNCHANGED <<tick, acted, result>>

\* env.step raises a RuntimeError, before or after the simulator moved.
StepRaises ==
    /\ Monitored /\ ActionEvents = {} /\ ~MergeFails(frags)
    /\ clock' \in {clock, clock + 1}
    /\ CaughtRuntimeError
    /\ UNCHANGED <<cancelled, step_index, obs, tick, acted, applied, result>>

\* All events stop everything, so one is enough to spoil the run.
Succeeded == ~cancelled /\ events = {}

Conclude ==
    /\ pc = "conclude"
    /\ Returns(IF Succeeded THEN "SUCCEEDED" ELSE "STOP_ALL")
    /\ UNCHANGED <<cancelled, step_index, clock, obs, tick, frags, slow, events,
                   metrics, acted, applied>>

\* Whoever shares the token cancels it.
Cancel ==
    /\ ~cancelled /\ cancelled' = TRUE
    /\ UNCHANGED <<pc, step_index, clock, obs, tick, frags, slow, events, metrics,
                   acted, applied, result>>

RunStep ==
    \/ StartTick \/ OutOfTicks \/ ThrowIfCancelled
    \/ NextAction \/ ProviderFails \/ Escapes
    \/ StopBeforeStep \/ StepEnv \/ StepRaises \/ Conclude

-----------------------------------------------------------------------------
\* Every joint step carries out all commands of all agents, each computed from
\* the observation of the step before (joint_stepper.py:26-67: no agent's
\* command is overwritten, and nobody acts on an older observation).
JointStepsAreComplete ==
    [][step_index' # step_index =>
          /\ DOMAIN frags = Providers
          /\ \A a \in Providers : frags[a].seen = clock
          /\ \A a \in Providers : \A i \in DOMAIN frags[a].command :
                applied'[i] = frags[a].command[i]]_sync_vars

\* A run that reports SUCCEEDED kept its agents in lockstep: every tick it began
\* was stepped, with one fragment of every agent, and nothing unsafe, failed or
\* cancelled is behind the report (synchronized_executor.py:146).
SuccessIsLockstep ==
    pc = "idle" /\ result = "SUCCEEDED" =>
        /\ \A a \in Providers : acted[a] = tick
        /\ metrics = [central |-> tick,
                      summed  |-> tick * Cardinality(Providers),
                      stops   |-> 0]

\* A stop, of the monitor or of anyone else, is final: at most the tick under
\* way still moves the arms, in this run and in all later ones.
Stops == INSTANCE StopAll WITH
    stopped <- cancelled, ticking <- pc = "tick", moves <- step_index
StopsAreFinal == Stops!StopSpec
=============================================================================
