------------------------- MODULE LearnedSkillExecutor -------------------------
(***************************************************************************)
(* rocobench/skills/learned: one LearnedSkillExecutor, the calls made of   *)
(* its execute() one after the other, the policy cache, the action queue,  *)
(* the monitors and the fallback controller it runs them with, and another *)
(* thread that may cancel.  The policy, the environment and the fallback   *)
(* executor are external: they answer or raise.                            *)
(***************************************************************************)
EXTENDS Naturals, PolicyHandleCache

CONSTANTS
    Samples,
    Window,              \* no_progress_window
    Patience,            \* no_progress_patience
    MaxSteps,            \* spec.max_steps
    ExecutionHorizon,    \* spec.execution_horizon
    ChunkSizes,          \* lengths of the chunks a policy may return
    StableChecks,        \* stable_success_checks
    WatchesProgress,     \* "NO_PROGRESS" \in spec.failure_monitors
    FallbackMode,        \* disabled, return_request or automatic
    AllowedReasons,      \* failure codes a fallback is considered for
    MaxFallbacks,
    HasFallback,         \* fallback_executor is not None
    MaxCalls             \* bound: calls of execute()

ASSUME MonitorAssumption == Window \in Nat \ {0} /\ Patience \in Nat \ {0}

ASSUME ExecutorAssumption ==
    /\ MaxSteps \in Nat \ {0} /\ ExecutionHorizon \in 1 .. MaxSteps
    /\ ChunkSizes \subseteq Nat /\ StableChecks \in Nat \ {0}
    /\ WatchesProgress \in BOOLEAN /\ HasFallback \in BOOLEAN
    /\ FallbackMode \in {"disabled", "return_request", "automatic"}
    /\ MaxFallbacks \in Nat /\ MaxCalls \in Nat

-----------------------------------------------------------------------------
(* The sliding-window monitor that ends a learned skill which has stopped  *)
(* moving.  A sample stands for a state vector with the action that led to *)
(* it; two samples are equal when both differ by no more than the epsilons.*)

NewMonitor == [samples |-> <<>>, stalled_windows |-> 0]

\* The last n elements of a sequence that has as many.
LastOf(s, n) == SubSeq(s, Len(s) - n + 1, Len(s))

Still(window) == \A k \in DOMAIN window : window[k] = window[1]

\* observe: nothing is judged before the window is full.
Observe(m, sample) ==
    LET samples == Append(m.samples, sample)
    IN  IF Len(samples) < Window
          THEN [m EXCEPT !.samples = samples]
          ELSE [samples |-> LastOf(samples, Window),
                stalled_windows |-> IF Still(LastOf(samples, Window))
                                      THEN m.stalled_windows + 1 ELSE 0]

NoProgress(m) == Len(m.samples) >= Window /\ m.stalled_windows >= Patience

\* What the monitor is to tell of all the samples since it was reset: each of
\* the last Patience windows was still.
Stuck(history) ==
    /\ Len(history) >= Window + Patience - 1
    /\ \A k \in Len(history) - Patience + 1 .. Len(history) :
          Still(SubSeq(history, k - Window + 1, k))

-----------------------------------------------------------------------------
VARIABLES
    pc,             \* where execute() is
    lifecycle,      \* the last state of the transition log
    calls,
    policy,         \* the policy of the call
    cache,          \* policy_cache
    queue,          \* the chunk offsets still queued
    num_steps,
    consecutive,    \* success_checker.consecutive
    monitor,        \* the NoProgressMonitor
    used_count,     \* fallback_controller.used_count
    cancelled,      \* the cancellation token
    result,         \* of the last call
    trace,          \* history: the env.step calls of the call
    uses,           \* history: the policies get() returned
    late            \* history: env.step calls since the cancellation

loopVars == <<queue, num_steps, consecutive, monitor, trace, late>>
vars == <<pc, lifecycle, calls, policy, cache, used_count, cancelled, result, uses, loopVars>>

Errors == {"BRIDGE_FAILURE", "ACTION_OUT_OF_BOUNDS", "POLICY_INFERENCE_FAILURE", "OBJECT_LOST",
           "NO_PROGRESS", "TIMEOUT"}

Outcome(status, failure_code) ==
    [status |-> status, failure_code |-> failure_code, learned_success |-> FALSE,
     fallback_used |-> FALSE, fallback_success |-> FALSE]

Init ==
    /\ pc = "idle" /\ lifecycle = "CLOSED" /\ calls = 0 /\ cache = <<>>
    /\ policy \in Policies
    /\ queue = <<>> /\ num_steps = 0 /\ consecutive = 0 /\ monitor = NewMonitor
    /\ used_count = 0 /\ cancelled = FALSE /\ result = Outcome("none", "none")
    /\ trace = <<>> /\ uses = <<>> /\ late = 0

\* The call returns what its handlers make of the outcome.
Report(r) ==
    /\ pc' = "idle" /\ lifecycle' = "CLOSED" /\ result' = r

\* An exception that execute() does not handle: the log stays where it is.
Escape == pc' = "idle" /\ result' = Outcome("RAISED", "none") /\ UNCHANGED lifecycle

-----------------------------------------------------------------------------
Called == pc = "idle" /\ calls < MaxCalls /\ calls' = calls + 1

NewCall ==
    /\ queue' = <<>> /\ num_steps' = 0 /\ consecutive' = 0 /\ monitor' = NewMonitor
    /\ trace' = <<>>
    /\ UNCHANGED <<late, cancelled, used_count>>

\* Not exactly one active call, or a skill that is not supported.
RejectPlan ==
    /\ Called /\ NewCall
    /\ Report(Outcome("EXECUTION_FAILED", "UNSUPPORTED_SKILL"))
    /\ UNCHANGED <<policy, cache, uses>>

\* No policy matches, several do, or its spec is invalid.
RejectPolicy ==
    /\ Called /\ NewCall
    /\ Report(Outcome("INVALID_PLAN", "POLICY_NOT_FOUND"))
    /\ UNCHANGED <<policy, cache, uses>>

Resolve(p) ==
    /\ Called /\ NewCall
    /\ policy' = p
    /\ pc' = "load" /\ lifecycle' = "LOADING_POLICY" /\ result' = Outcome("none", "none")
    /\ UNCHANGED <<cache, uses>>

\* The loader or its health check raises, or the metadata does not match: the
\* handle is not cached and nothing is evicted.
LoadRaises ==
    /\ pc = "load" /\ ~Cached(cache, policy)
    /\ Escape
    /\ UNCHANGED <<calls, policy, cache, used_count, cancelled, uses, loopVars>>

Load ==
    /\ pc = "load"
    /\ cache' = Touched(cache, policy)
    /\ uses' = Append(uses, policy)
    /\ \/ pc' = "loop" /\ lifecycle' = "RUNNING" /\ UNCHANGED result
       \/ Escape                                                  \* handle.reset() raises
       \/ Report(Outcome("EXECUTION_FAILED", "ACTION_BOUNDS_MISSING"))
    /\ UNCHANGED <<calls, policy, used_count, cancelled, loopVars>>

-----------------------------------------------------------------------------
(* The loop: one iteration is Fetch and then Act.                          *)

Interrupt ==
    /\ pc = "loop" /\ num_steps < MaxSteps /\ cancelled
    /\ Report(Outcome("INTERRUPTED", "MANUAL_INTERRUPT"))
    /\ UNCHANGED <<calls, policy, cache, used_count, cancelled, uses, loopVars>>

\* Mutant of Continues: the token is looked at only before an inference.
ContinuesWithQueue == pc = "loop" /\ num_steps < MaxSteps /\ (queue # <<>> \/ ~cancelled)

Continues == pc = "loop" /\ num_steps < MaxSteps /\ ~cancelled

\* load_chunk queues the first ExecutionHorizon actions of a chunk.
Queued(size) == [k \in 1 .. ExecutionHorizon |-> k - 1]

FetchQueued ==
    /\ Continues /\ queue # <<>>
    /\ pc' = "act"
    /\ UNCHANGED <<lifecycle, calls, policy, cache, used_count, cancelled, result, uses, loopVars>>

Predict(size) ==
    /\ Continues /\ queue = <<>> /\ size >= ExecutionHorizon
    /\ queue' = Queued(size)
    /\ pc' = "act"
    /\ UNCHANGED <<lifecycle, calls, policy, cache, used_count, cancelled, result, uses,
                   num_steps, consecutive, monitor, trace, late>>

\* A chunk shorter than the horizon, or with a value that is not finite: the
\* queue raises ActionQueueError outside the handler of the inference.
ChunkRaises ==
    /\ Continues /\ queue = <<>>
    /\ Escape
    /\ UNCHANGED <<calls, policy, cache, used_count, cancelled, uses, loopVars>>

Fail(code) ==
    /\ pc' = "decide"
    /\ result' = Outcome(IF code = "TIMEOUT" THEN "TIMEOUT" ELSE "EXECUTION_FAILED", code)

InferenceFails ==
    /\ Continues /\ queue = <<>>
    /\ Fail("POLICY_INFERENCE_FAILURE")
    /\ UNCHANGED <<lifecycle, calls, policy, cache, used_count, cancelled, uses, loopVars>>

\* The popped action is out of bounds, or env.step raises.
ActionFails(code) ==
    /\ pc = "act" /\ code \in {"ACTION_OUT_OF_BOUNDS", "BRIDGE_FAILURE"}
    /\ queue' = Tail(queue)
    /\ Fail(code)
    /\ UNCHANGED <<lifecycle, calls, policy, cache, used_count, cancelled, uses,
                   num_steps, consecutive, monitor, trace, late>>

\* Mutant of Counted: a failed check does not start the count again.
CountedOverall(met) == IF met THEN consecutive + 1 ELSE consecutive

\* StableSkillSuccessChecker.check: met says that the object is in its slot,
\* released, and that nothing else is there.
Counted(met) == IF met THEN consecutive + 1 ELSE 0

\* Mutant of Watched: a sample is judged again with the same window.
WatchedTwice(sample) == Observe(Observe(monitor, sample), sample)

Watched(sample) == Observe(monitor, sample)

StepEnv(sample, met, alarm) ==
    /\ pc = "act"
    /\ queue' = Tail(queue)
    /\ num_steps' = num_steps + 1
    /\ trace' = Append(trace, [chunk_offset |-> Head(queue), met |-> met, sample |-> sample])
    /\ late' = IF cancelled THEN late + 1 ELSE late
    /\ \/ /\ alarm
          /\ Fail("OBJECT_LOST")
          /\ UNCHANGED <<lifecycle, consecutive, monitor>>
       \/ /\ ~alarm /\ consecutive' = Counted(met)
          /\ consecutive' >= StableChecks
          /\ pc' = "decide" /\ lifecycle' = "VERIFYING"
          /\ result' = [Outcome("SUCCESS", "none") EXCEPT !.learned_success = TRUE]
          /\ UNCHANGED monitor
       \/ /\ ~alarm /\ consecutive' = Counted(met)
          /\ consecutive' < StableChecks
          /\ monitor' = Watched(sample)
          /\ IF WatchesProgress /\ NoProgress(monitor')
               THEN Fail("NO_PROGRESS")
               ELSE pc' = "loop" /\ UNCHANGED result
          /\ UNCHANGED lifecycle
    /\ UNCHANGED <<calls, policy, cache, used_count, cancelled, uses>>

ExceedMaxSteps ==
    /\ pc = "loop" /\ num_steps >= MaxSteps
    /\ Fail("TIMEOUT")
    /\ UNCHANGED <<lifecycle, calls, policy, cache, used_count, cancelled, uses, loopVars>>

-----------------------------------------------------------------------------
(* After the loop: FallbackController.decide, then the result.             *)

Considered == ~result.learned_success /\ FallbackMode # "disabled"
                /\ result.failure_code \in AllowedReasons

RunsFallback ==
    Considered /\ FallbackMode = "automatic" /\ HasFallback /\ used_count < MaxFallbacks

Conclude ==
    /\ pc = "decide" /\ ~RunsFallback
    /\ Report(result)
    /\ UNCHANGED <<calls, policy, cache, used_count, cancelled, uses, loopVars>>

Fallback(success) ==
    /\ pc = "decide" /\ RunsFallback
    /\ used_count' = used_count + 1
    /\ Report([result EXCEPT !.fallback_used = TRUE, !.fallback_success = success,
                             !.status = IF success THEN "SUCCESS" ELSE @])
    /\ UNCHANGED <<calls, policy, cache, cancelled, uses, loopVars>>

FallbackRaises ==
    /\ pc = "decide" /\ RunsFallback
    /\ used_count' = used_count + 1
    /\ Escape
    /\ UNCHANGED <<calls, policy, cache, cancelled, uses, loopVars>>

\* MutableCancellationToken.cancel, from another thread.
Cancel ==
    /\ ~cancelled /\ cancelled' = TRUE
    /\ UNCHANGED <<pc, lifecycle, calls, policy, cache, used_count, result, uses, loopVars>>

Execute ==
    \/ RejectPlan \/ RejectPolicy \/ \E p \in Policies : Resolve(p)
    \/ LoadRaises \/ Load
    \/ Interrupt \/ FetchQueued \/ \E size \in ChunkSizes : Predict(size)
    \/ ChunkRaises \/ InferenceFails \/ ExceedMaxSteps
    \/ \E code \in Errors : ActionFails(code)
    \/ \E sample \in Samples, met, alarm \in BOOLEAN : StepEnv(sample, met, alarm)
    \/ Conclude \/ FallbackRaises \/ \E success \in BOOLEAN : Fallback(success)

Next == Execute \/ Cancel

Spec == Init /\ [][Next]_vars

-----------------------------------------------------------------------------
(* Properties.                                                             *)

Looping == pc \in {"loop", "act"}

MetInARow(t) == Len(t) >= StableChecks /\ \A k \in DOMAIN LastOf(t, StableChecks) :
                                             LastOf(t, StableChecks)[k].met

\* A call is reported as a learned success exactly when the goal held after
\* each of its last StableChecks steps, none of them a step of an earlier call,
\* and the robot is not moved on once that is so (success.py check).
SuccessIsStable ==
    /\ result.learned_success => MetInARow(trace)
    /\ Looping => ~MetInARow(trace)

SamplesOf(t) == [k \in DOMAIN t |-> t[k].sample]

\* A call ends for NO_PROGRESS only if all of the last Patience windows of this
\* call were still, and goes on only if they were not (monitors.py observe).
NoProgressIsReal ==
    /\ result.failure_code = "NO_PROGRESS" => WatchesProgress /\ Stuck(SamplesOf(trace))
    /\ Looping /\ WatchesProgress => ~Stuck(SamplesOf(trace))

\* After a cancellation the policy moves the robot at most once more, in this
\* call and in all those that follow (throw_if_cancelled, and no reset).
CancelIsHeeded == late <= 1

\* The cached policies are those used last, in the order of their last use; a
\* load that fails evicts nothing (policy_handle.py get).
CacheIsMostRecent == MostRecent(cache, uses)

=============================================================================
