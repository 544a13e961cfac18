-------------------------- MODULE ReplanningPolicy --------------------------
(***************************************************************************)
(* The recovery policy, the retry budget and the recovery decision of      *)
(* rocobench/planning: pure operators, shared by the planner controller    *)
(* and by the proofs about it.                                             *)
(*                                                                         *)
(* A failure is a record of what RecoveryEngine.decide is given: the call  *)
(* that failed, the failure code of its result, the quantized state it     *)
(* failed in, the fallback backend of its route, and the backend that ran  *)
(* the attempt.                                                            *)
(***************************************************************************)
EXTENDS Naturals

CONSTANTS
    Calls,                \* retry keys: agent:skill:object:container of a call
    Codes,                \* failure codes an attempt can report
    States,               \* quantized simulator states
    FallbackRules,        \* failure code -> RecoveryAction, on its DOMAIN
    RollbackRules,        \* the failure codes whose rollback rule is True
    MaxPlanRounds,
    MaxRetriesPerSkill,
    MaxLearnedFailures,
    MaxRepeatedFailures,
    MaxFallbacks,
    AllowSamePlanRetry

RecoveryAction == {"RETRY_LEARNED", "REPLAN_FROM_CURRENT_STATE",
                   "ROLLBACK_AND_REPLAN", "USE_RRT_FALLBACK", "ABORT_TASK"}

Backends == {"learned", "rrt", "unsupported"}

\* ReplanningPolicy.__post_init__ refuses a policy for which this is false.
ASSUME PolicyAssumption ==
    /\ MaxPlanRounds \in Nat \ {0}
    /\ MaxRetriesPerSkill \in Nat
    /\ MaxLearnedFailures \in Nat
    /\ MaxRepeatedFailures \in Nat
    /\ MaxFallbacks \in Nat
    /\ AllowSamePlanRetry \in BOOLEAN
    /\ \A code \in DOMAIN FallbackRules : FallbackRules[code] \in RecoveryAction

-----------------------------------------------------------------------------
(* The policy tables the program ships with.                               *)

DefaultFailureActions ==
    LET fallback == {"POLICY_INFERENCE_FAILURE", "BRIDGE_FAILURE", "TIMEOUT",
                     "ACTION_OUT_OF_BOUNDS", "NONFINITE_ACTION", "NO_PROGRESS"}
        replan   == {"SLIPPAGE", "TARGET_OCCUPIED", "MOTION_PLANNING_FAILED",
                     "INVALID_PLAN"}
    IN  [code \in fallback \cup replan \cup {"MISSED_GRASP", "OBJECT_LOST"} |->
            CASE code \in fallback       -> "USE_RRT_FALLBACK"
              [] code \in replan         -> "REPLAN_FROM_CURRENT_STATE"
              [] code = "MISSED_GRASP"   -> "RETRY_LEARNED"
              [] code = "OBJECT_LOST"    -> "ROLLBACK_AND_REPLAN"]

DefaultRollbackRules ==
    {"POLICY_INFERENCE_FAILURE", "BRIDGE_FAILURE", "ACTION_OUT_OF_BOUNDS",
     "NONFINITE_ACTION", "OBJECT_LOST", "TIMEOUT", "NO_PROGRESS"}

ActionFor(code) ==
    IF code \in DOMAIN FallbackRules THEN FallbackRules[code] ELSE "ABORT_TASK"

RollbackRequired(code, action) ==
    action = "ROLLBACK_AND_REPLAN" \/ code \in RollbackRules

-----------------------------------------------------------------------------
(* RetryBudget: one record for the life of a controller.                   *)

Budget == [plan_rounds_used : Nat, learned_failures : Nat,
           fallbacks_used : Nat, invalid_plans : Nat,
           retries_by_key : [Calls -> Nat]]

NewBudget == [plan_rounds_used |-> 0, learned_failures |-> 0,
              fallbacks_used |-> 0, invalid_plans |-> 0,
              retries_by_key |-> [c \in Calls |-> 0]]

CanStartPlanRound(b) == b.plan_rounds_used < MaxPlanRounds

StartPlanRound(b) == [b EXCEPT !.plan_rounds_used = @ + 1]

\* Mutant of RecordInvalidPlan: only the metrics count a rejected plan.
RecordInvalidPlanNowhere(b) == b

RecordInvalidPlan(b) == [b EXCEPT !.invalid_plans = @ + 1]

CanRetry(b, c) ==
    AllowSamePlanRetry /\ b.retries_by_key[c] < MaxRetriesPerSkill

CanRecordLearnedFailure(b) == b.learned_failures < MaxLearnedFailures

CanUseFallback(b) == b.fallbacks_used < MaxFallbacks

ConsumeLearnedFailure(b) ==
    IF CanRecordLearnedFailure(b)
      THEN [b EXCEPT !.learned_failures = @ + 1] ELSE b

ConsumeRetry(b, c) ==
    IF CanRetry(b, c) THEN [b EXCEPT !.retries_by_key[c] = @ + 1] ELSE b

\* Mutant of ConsumeFallback: checked but not counted.
ConsumeFallbackFree(b) == b

ConsumeFallback(b) ==
    IF CanUseFallback(b) THEN [b EXCEPT !.fallbacks_used = @ + 1] ELSE b

-----------------------------------------------------------------------------
(* RecoveryEngine.decide: the action is settled in three passes, each of   *)
(* which may replace the answer of the one before and consumes the unit    *)
(* of budget its answer needs.                                             *)

Failure == [call : Calls, code : Codes, state : States,
            fallback : Backends, backend : Backends]

Fingerprint(f) == <<f.call, f.code, f.state>>

Fingerprints == Calls \X Codes \X States

\* FailureLoopDetector.record: every failure is counted, whatever is decided.
Record(counts, f) == [counts EXCEPT ![Fingerprint(f)] = @ + 1]

LoopDetected(counts, f) == counts[Fingerprint(f)] + 1 > MaxRepeatedFailures

\* Mutants of Mapped: one of its two guards is missing.
MappedNoLearnedLimit(b, counts, f) ==
    IF LoopDetected(counts, f)
      THEN IF f.fallback # "unsupported" THEN "USE_RRT_FALLBACK" ELSE "ABORT_TASK"
      ELSE ActionFor(f.code)

MappedNoLoopDetector(b, counts, f) ==
    IF f.backend = "learned" /\ ~CanRecordLearnedFailure(b)
      THEN IF f.fallback # "unsupported" THEN "USE_RRT_FALLBACK" ELSE "ABORT_TASK"
      ELSE ActionFor(f.code)

\* Pass 1: the table's answer, unless the learned budget or the loop
\* detector overrules it.
Mapped(b, counts, f) ==
    IF \/ f.backend = "learned" /\ ~CanRecordLearnedFailure(b)
       \/ LoopDetected(counts, f)
      THEN IF f.fallback # "unsupported" THEN "USE_RRT_FALLBACK" ELSE "ABORT_TASK"
      ELSE ActionFor(f.code)

\* Pass 2: a retry the key can no longer pay for.
Retried(b, counts, f) ==
    LET action == Mapped(b, counts, f)
    IN  IF action = "RETRY_LEARNED" /\ ~CanRetry(b, f.call)
          THEN IF f.fallback # "unsupported"
                 THEN "USE_RRT_FALLBACK" ELSE "REPLAN_FROM_CURRENT_STATE"
          ELSE action

\* Pass 3: a fallback that is not configured, not RRT, or used up.
Decision(b, counts, f) ==
    LET action == Retried(b, counts, f)
    IN  IF action = "USE_RRT_FALLBACK" /\ ~(f.fallback = "rrt" /\ CanUseFallback(b))
          THEN "ABORT_TASK" ELSE action

\* What the decision leaves in the budget.
Charge(b, action, f) ==
    LET judged == IF f.backend = "learned" THEN ConsumeLearnedFailure(b) ELSE b
    IN  CASE action = "RETRY_LEARNED"    -> ConsumeRetry(judged, f.call)
          [] action = "USE_RRT_FALLBACK" -> ConsumeFallback(judged)
          [] OTHER                       -> judged
=============================================================================
