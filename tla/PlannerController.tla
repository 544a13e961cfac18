------------------------- MODULE PlannerController -------------------------
(***************************************************************************)
(* SequentialPlanningController: plan rounds, executor attempts and        *)
(* bounded recovery, with the RetryBudget, the FailureLoopDetector and the *)
(* PlannerMetrics that live as long as the controller does.  The planner,  *)
(* the parser, the validator, the RRT compiler, the executors and the      *)
(* simulator are the environment: they answer anything their interface     *)
(* allows.  One action per stretch of run() between two of their answers.  *)
(***************************************************************************)
EXTENDS ReplanningPolicy, ExecutorRouter

CONSTANTS
    FailureCodes,         \* backend -> codes its executor can report
    MaxRuns               \* bound: calls of run() on one controller

ASSUME ExecutorsAssumption ==
    /\ \A b \in {"learned", "rrt"} : FailureCodes[b] \subseteq Codes
    /\ "INVALID_PLAN" \in Codes
    /\ MaxRuns \in Nat

VARIABLES
    executors,            \* the keys of self.executors
    pc,                   \* where run() is
    budget,               \* self.budget
    counts,               \* self.recovery_engine.loop_detector.counts
    metrics,              \* the counters of self.metrics
    task_success,         \* self.metrics.task_success
    env,                  \* the simulator's state
    obs,                  \* the observation run() holds: the state it shows
    snapshot,             \* the state saved before the current attempt
    call,                 \* the active call of the accepted plan
    decision,             \* the router's answer for it
    backend,              \* the backend of the current attempt
    fallback_attempt,
    failure_code,         \* of the attempt just failed
    feedback,             \* the state previous_feedback describes, if any
    verdict,              \* how the last run() ended
    runs,                 \* calls of run() so far
    concluded,            \* history: rounds that ended the run they were in
    baseline              \* history: the state the next attempt should start in

roundVars == <<call, decision, backend, fallback_attempt>>

vars == <<executors, pc, budget, counts, metrics, task_success, env, obs, snapshot,
          roundVars, failure_code, feedback, verdict, runs, concluded, baseline>>

None == "none"

One(condition) == IF condition THEN 1 ELSE 0

Counters == {"learned_attempts", "learned_successes", "learned_failures",
             "rrt_attempts", "rrt_successes",
             "fallback_attempts", "fallback_successes",
             "replans", "invalid_plans", "rollbacks"}

Metrics == [Counters -> Nat]

NewMetrics == [counter \in Counters |-> 0]

RecordAttempt(m, b, success, fallback) ==
    LET learned == b = "learned"
        rrt     == b = "rrt"
    IN  [m EXCEPT !.learned_attempts   = @ + One(learned),
                  !.learned_successes  = @ + One(learned /\ success),
                  !.learned_failures   = @ + One(learned /\ ~success),
                  !.rrt_attempts       = @ + One(rrt),
                  !.rrt_successes      = @ + One(rrt /\ success),
                  !.fallback_attempts  = @ + One(fallback),
                  !.fallback_successes = @ + One(fallback /\ success)]

\* The controller is built over a simulator in any state, with an executor for each
\* backend or not.
Init ==
    /\ executors \in SUBSET {"learned", "rrt"}
    /\ pc = "idle"
    /\ budget = NewBudget
    /\ counts = [fp \in Fingerprints |-> 0]
    /\ metrics = NewMetrics /\ task_success = FALSE
    /\ env \in States /\ obs = env /\ snapshot = env
    /\ call \in Calls
    /\ decision = Resolve(call) /\ backend = decision.backend
    /\ fallback_attempt = FALSE
    /\ failure_code = "INVALID_PLAN"
    /\ feedback = None
    /\ verdict = None
    /\ runs = 0
    /\ concluded = 0
    /\ baseline = env

-----------------------------------------------------------------------------
(* run(): the loop over plan rounds.                                       *)

\* Mutant of Run: every call of run() gets a fresh budget.
RunWithFreshBudget ==
    /\ pc = "idle" /\ runs < MaxRuns
    /\ runs' = runs + 1
    /\ budget' = NewBudget
    /\ env' \in States /\ obs' = env' /\ baseline' = env'
    /\ feedback' = None /\ verdict' = None /\ pc' = "loop"
    /\ UNCHANGED <<executors, task_success, counts, metrics, snapshot, roundVars,
                   failure_code, concluded>>

\* The caller hands over the simulator, and an observation of it, in a state
\* of its choice.  Nothing the controller counts is reset.
Run ==
    /\ pc = "idle" /\ runs < MaxRuns
    /\ runs' = runs + 1
    /\ env' \in States /\ obs' = env' /\ baseline' = env'
    /\ feedback' = None
    /\ verdict' = None
    /\ pc' = "loop"
    /\ UNCHANGED <<executors, task_success, budget, counts, metrics, snapshot, roundVars,
                   failure_code, concluded>>

Return(result) == pc' = "idle" /\ verdict' = result

StartRound ==
    /\ pc = "loop" /\ CanStartPlanRound(budget)
    /\ budget' = StartPlanRound(budget)
    /\ pc' = "prompted"
    /\ UNCHANGED <<executors, task_success, counts, metrics, env, obs, snapshot, roundVars,
                   failure_code, feedback, verdict, runs, concluded, baseline>>

BudgetExhausted ==
    /\ pc = "loop" /\ ~CanStartPlanRound(budget)
    /\ Return("exhausted")
    /\ UNCHANGED <<executors, task_success, budget, counts, metrics, env, obs, snapshot,
                   roundVars, failure_code, feedback, runs, concluded, baseline>>

\* By the parser, by the validator, for not having exactly one active call,
\* or for a route to the unsupported backend.
RejectPlan ==
    /\ pc = "prompted"
    /\ budget' = RecordInvalidPlan(budget)
    /\ metrics' = [metrics EXCEPT !.invalid_plans = @ + 1]
    /\ feedback' = obs
    /\ pc' = "loop"
    /\ UNCHANGED <<executors, task_success, counts, env, obs, snapshot, roundVars,
                   failure_code, verdict, runs, concluded, baseline>>

AcceptPlan(c) ==
    /\ pc = "prompted" /\ Resolve(c).backend # "unsupported"
    /\ call' = c
    /\ decision' = Resolve(c)
    /\ backend' = Resolve(c).backend
    /\ fallback_attempt' = FALSE
    /\ pc' = "ready"
    /\ UNCHANGED <<executors, task_success, budget, counts, metrics, env, obs, snapshot,
                   failure_code, feedback, verdict, runs, concluded, baseline>>

\* Nothing in run() catches what a planner, a parser or a validator raises.
PlannerRaises ==
    /\ pc = "prompted"
    /\ Return("raised")
    /\ concluded' = concluded + 1
    /\ UNCHANGED <<executors, task_success, budget, counts, metrics, env, obs, snapshot,
                   roundVars, failure_code, feedback, runs, baseline>>

-----------------------------------------------------------------------------
(* _execute_with_recovery: one attempt.                                    *)

NoExecutor ==
    /\ pc = "ready" /\ backend \notin executors
    /\ feedback' = None
    /\ Return("aborted")
    /\ concluded' = concluded + 1
    /\ UNCHANGED <<executors, task_success, budget, counts, metrics, env, obs, snapshot,
                   roundVars, failure_code, runs, baseline>>

\* Mutant of StartAttempt: a fallback keeps the first attempt's snapshot.
StartAttemptOldSnapshot ==
    /\ pc = "ready" /\ backend \in executors
    /\ snapshot' = IF fallback_attempt THEN snapshot ELSE env
    /\ pc' = "executing"
    /\ UNCHANGED <<executors, task_success, budget, counts, metrics, env, obs, roundVars,
                   failure_code, feedback, verdict, runs, concluded, baseline>>

StartAttempt ==
    /\ pc = "ready" /\ backend \in executors
    /\ snapshot' = env
    /\ pc' = "executing"
    /\ UNCHANGED <<executors, task_success, budget, counts, metrics, env, obs, roundVars,
                   failure_code, feedback, verdict, runs, concluded, baseline>>

\* The RRT compiler refuses the plan: a failed attempt that never started.
CompileFails ==
    /\ pc = "ready" /\ backend = "rrt" /\ backend \in executors
    /\ snapshot' = env
    /\ metrics' = RecordAttempt(metrics, backend, FALSE, fallback_attempt)
    /\ failure_code' = "INVALID_PLAN"
    /\ pc' = "failed"
    /\ UNCHANGED <<executors, task_success, budget, counts, env, obs, roundVars, feedback,
                   verdict, runs, concluded, baseline>>

AttemptFails ==
    /\ pc = "executing"
    /\ env' \in States
    /\ failure_code' \in FailureCodes[backend]
    /\ metrics' = RecordAttempt(metrics, backend, FALSE, fallback_attempt)
    /\ pc' = "failed"
    /\ UNCHANGED <<executors, task_success, budget, counts, obs, snapshot, roundVars,
                   feedback, verdict, runs, concluded, baseline>>

\* The skill succeeded and the task is not complete: a new round from here.
SkillSucceeds ==
    /\ pc = "executing"
    /\ env' \in States /\ obs' = env' /\ baseline' = env'
    /\ LET m == RecordAttempt(metrics, backend, TRUE, fallback_attempt)
       IN  metrics' = [m EXCEPT !.replans = @ + 1]
    /\ feedback' = None
    /\ pc' = "loop"
    /\ UNCHANGED <<executors, task_success, budget, counts, snapshot, roundVars,
                   failure_code, verdict, runs, concluded>>

TaskSucceeds ==
    /\ pc = "executing"
    /\ env' \in States /\ obs' = env' /\ baseline' = env'
    /\ metrics' = RecordAttempt(metrics, backend, TRUE, fallback_attempt)
    /\ task_success' = TRUE
    /\ feedback' = None
    /\ Return("success")
    /\ concluded' = concluded + 1
    /\ UNCHANGED <<executors, budget, counts, snapshot, roundVars, failure_code, runs>>

\* An executor's exception leaves run() with the simulator as it is.
ExecutorRaises ==
    /\ pc = "executing"
    /\ env' \in States
    /\ Return("raised")
    /\ concluded' = concluded + 1
    /\ UNCHANGED <<executors, task_success, budget, counts, metrics, obs, snapshot,
                   roundVars, failure_code, feedback, runs, baseline>>

-----------------------------------------------------------------------------
(* _execute_with_recovery: a failed attempt.                               *)

CurrentFailure ==
    [call |-> call, code |-> failure_code, state |-> env,
     fallback |-> decision.fallback_backend, backend |-> backend]

\* Mutant of Recover: the observation of the failed state is kept after a
\* rollback.
RecoverStaleObs(action) ==
    LET rollback == RollbackRequired(failure_code, action)
        seen     == IF rollback THEN snapshot ELSE env
        replan   == action \in {"REPLAN_FROM_CURRENT_STATE",
                                "ROLLBACK_AND_REPLAN"}
    IN  /\ pc = "failed"
        /\ action = Decision(budget, counts, CurrentFailure)
        /\ budget' = Charge(budget, action, CurrentFailure)
        /\ counts' = Record(counts, CurrentFailure)
        /\ metrics' = [metrics EXCEPT !.rollbacks = @ + One(rollback),
                                      !.replans = @ + One(replan)]
        /\ env' = seen /\ obs' = env
        /\ baseline' = IF rollback THEN baseline ELSE env
        /\ UNCHANGED <<executors, task_success, snapshot, call, decision, failure_code,
                       runs>>

\* decide, roll back, observe again: common to the four outcomes.
Recover(action) ==
    LET rollback == RollbackRequired(failure_code, action)
        seen     == IF rollback THEN snapshot ELSE env
        replan   == action \in {"REPLAN_FROM_CURRENT_STATE",
                                "ROLLBACK_AND_REPLAN"}
    IN  /\ pc = "failed"
        /\ action = Decision(budget, counts, CurrentFailure)
        /\ budget' = Charge(budget, action, CurrentFailure)
        /\ counts' = Record(counts, CurrentFailure)
        /\ metrics' = [metrics EXCEPT !.rollbacks = @ + One(rollback),
                                      !.replans = @ + One(replan)]
        /\ env' = seen /\ obs' = seen
        /\ baseline' = IF rollback THEN baseline ELSE env
        /\ UNCHANGED <<executors, task_success, snapshot, call, decision, failure_code,
                       runs>>

RetryLearned ==
    /\ Recover("RETRY_LEARNED")
    /\ backend' = "learned"
    /\ pc' = "ready"
    /\ UNCHANGED <<fallback_attempt, feedback, verdict, concluded>>

UseRrtFallback ==
    /\ Recover("USE_RRT_FALLBACK")
    /\ backend' = "rrt"
    /\ fallback_attempt' = TRUE
    /\ pc' = "ready"
    /\ UNCHANGED <<feedback, verdict, concluded>>

Replan ==
    /\ \E action \in {"REPLAN_FROM_CURRENT_STATE", "ROLLBACK_AND_REPLAN"} :
          Recover(action)
    /\ feedback' = obs'
    /\ pc' = "loop"
    /\ UNCHANGED <<backend, fallback_attempt, verdict, concluded>>

Abort ==
    /\ Recover("ABORT_TASK")
    /\ feedback' = obs'
    /\ Return("aborted")
    /\ concluded' = concluded + 1
    /\ UNCHANGED <<backend, fallback_attempt>>

-----------------------------------------------------------------------------
Step ==
    \/ StartRound \/ BudgetExhausted \/ RejectPlan \/ PlannerRaises
    \/ \E c \in Calls : AcceptPlan(c)
    \/ NoExecutor \/ StartAttempt \/ CompileFails
    \/ AttemptFails \/ SkillSucceeds \/ TaskSucceeds \/ ExecutorRaises
    \/ RetryLearned \/ UseRrtFallback \/ Replan \/ Abort

Next == Run \/ Step

Spec == Init /\ [][Next]_vars

-----------------------------------------------------------------------------
(* Properties.                                                             *)

TypeOK ==
    /\ executors \subseteq {"learned", "rrt"}
    /\ pc \in {"idle", "loop", "prompted", "ready", "executing", "failed"}
    /\ budget \in Budget
    /\ counts \in [Fingerprints -> Nat]
    /\ metrics \in Metrics /\ task_success \in BOOLEAN
    /\ env \in States /\ obs \in States /\ snapshot \in States
    /\ baseline \in States
    /\ call \in Calls
    /\ decision \in ExecutorDecision
    /\ backend \in Backends
    /\ fallback_attempt \in BOOLEAN
    /\ failure_code \in Codes
    /\ feedback \in States \cup {None}
    /\ verdict \in {None, "exhausted", "raised", "aborted", "success"}
    /\ runs \in 0..MaxRuns
    /\ concluded \in Nat

\* The part of a round after its start and before its outcome.
InRound == pc \in {"prompted", "ready", "executing", "failed"}

\* A failed attempt that decide has not seen yet.
Undecided(b) == One(pc = "failed" /\ backend = b)

\* Every plan round run() starts has exactly one outcome: the plan is
\* rejected, a replan is requested, or the run ends in it.  The two ledgers
\* that count rejected plans never disagree.
RoundAccounting ==
    /\ budget.plan_rounds_used =
          metrics.invalid_plans + metrics.replans + concluded + One(InRound)
    /\ budget.invalid_plans = metrics.invalid_plans
    /\ budget.plan_rounds_used <= MaxPlanRounds

\* The budget's count of learned failures is the metrics' count cut off at
\* its limit, and past the limit each further learned failure costs a
\* fallback or ends the run: an exhausted learned budget cannot keep
\* sending attempts to the learned policy.
LearnedFailuresBounded ==
    LET decided == metrics.learned_failures - Undecided("learned")
    IN  /\ budget.learned_failures =
              IF decided <= MaxLearnedFailures THEN decided ELSE MaxLearnedFailures
        /\ decided <= MaxLearnedFailures + budget.fallbacks_used + concluded

\* The same failure of the same call in the same state is seen at most
\* max_repeated_failures times, plus once for every fallback spent or run
\* ended on it: neither a retry nor a replan can keep it going.
FailureLoopsAreBroken ==
    \A fp \in Fingerprints :
        counts[fp] <= MaxRepeatedFailures + budget.fallbacks_used + concluded

\* Between attempts the observation run() prompts with, validates against and
\* hands to the executor is the simulator's present state, and so is the
\* state the previous feedback describes: also after a rollback.
PlansAreGrounded ==
    /\ pc \in {"loop", "prompted", "ready", "executing"} => obs = env
    /\ pc \in {"loop", "prompted"} => feedback \in {env, None}

\* A rollback undoes the failed attempt and nothing but that attempt: what an
\* earlier attempt left behind without a rollback stays, what a rolled-back
\* one did is gone, however retries and fallbacks are chained.
RollbackIsExact ==
    /\ pc = "failed" => snapshot = baseline
    /\ pc # "failed" /\ verdict # "raised" => env = baseline

\* A fallback that was paid for is the only thing counted as one, at most
\* once, and never as a learned attempt.
FallbacksCountOnce ==
    /\ fallback_attempt /\ InRound /\ pc # "prompted" => backend = "rrt"
    /\ metrics.fallback_attempts
          + One(pc \in {"ready", "executing"} /\ fallback_attempt)
       <= budget.fallbacks_used

\* No attempt is a learned attempt and a fallback at once: the metrics keep
\* learned and fallback results separate.
FallbackIsNotLearned ==
    ~(pc = "executing" /\ backend = "learned" /\ fallback_attempt)

\* What a round may still spend on the call it is at, and how far it is.
RoundsLeft == MaxPlanRounds - budget.plan_rounds_used

Stake ==
    CASE pc \in {"idle", "loop"} -> 0
      [] pc = "prompted"         -> MaxRetriesPerSkill + MaxFallbacks
      [] OTHER -> (MaxRetriesPerSkill - budget.retries_by_key[call])
                     + (MaxFallbacks - budget.fallbacks_used)

Phase ==
    CASE pc = "idle"     -> 0
      [] pc = "loop"     -> 1
      [] pc = "failed"   -> 2
      [] pc = "executing" -> 3
      [] pc = "ready"    -> 4
      [] pc = "prompted" -> 5

\* Every step of a run brings its end nearer, in the lexicographic order of
\* the rounds left, the stake and the phase: there is no cycle of retries,
\* fallbacks and replans that costs nothing.
RunsMakeProgress ==
    [][Step => \/ RoundsLeft' < RoundsLeft
               \/ /\ RoundsLeft' = RoundsLeft
                  /\ Stake' < Stake \/ (Stake' = Stake /\ Phase' < Phase)]_vars

\* The budget is an attempt ledger: units left are units not used, a licence
\* is out from the start of a round, or from a granted retry or fallback,
\* until the attempt's result is recorded.
Ledger == INSTANCE AttemptLedger WITH
    Keys      <- Calls,
    Rounds    <- MaxPlanRounds,
    Retries   <- MaxRetriesPerSkill,
    Fallbacks <- MaxFallbacks,
    rounds    <- MaxPlanRounds - budget.plan_rounds_used,
    retries   <- [c \in Calls |-> MaxRetriesPerSkill - budget.retries_by_key[c]],
    fallbacks <- MaxFallbacks - budget.fallbacks_used,
    licensed  <- pc \in {"prompted", "ready", "executing"},
    attempts  <- metrics.learned_attempts + metrics.rrt_attempts

\* The controller implements the attempt ledger.
ImplementsLedger == Ledger!LedgerSpec

=============================================================================
