------------------------ MODULE ControlLoops_proofs ------------------------
(***************************************************************************)
(* Two loops that ask for an action, carry it out and record what came of  *)
(* it.  First the planner controller, for every policy, routing table, set *)
(* of calls, codes and states, and number of runs.  Then the MetaWorld     *)
(* runner with the helper process it talks to, for every list of tasks,    *)
(* number of episodes and of steps.                                        *)
(***************************************************************************)
EXTENDS PlannerController, MetaWorldRunner, WellFoundedInduction, FiniteSetTheorems,
        TLAPS

-----------------------------------------------------------------------------
(* The operators of the recovery policy.                                   *)

LEMMA OneType == \A p \in BOOLEAN : One(p) \in {0, 1}
BY DEF One

LEMMA LeastNatural ==
    ASSUME NEW S \in SUBSET Nat, S # {}
    PROVE  \E i \in S : \A j \in S : i <= j
<1>1. PICK i \in S : \A j \in S : <<j, i>> \notin OpToRel(<, Nat)
  BY WFMin, NatLessThanWellFounded
<1>2. \A j \in S : ~ (j < i)
  BY <1>1, Zenon DEF OpToRel
<1>3. QED
  BY <1>2, SMT

LEMMA ResolveType ==
    ASSUME NEW c \in Calls
    PROVE  Resolve(c) \in ExecutorDecision
<1>1. CASE Matching(c) = {}
  BY <1>1, RouterAssumption DEF Resolve, ExecutorDecision
<1>2. CASE Matching(c) # {}
  <2> DEFINE first == CHOOSE i \in Matching(c) : \A j \in Matching(c) : i <= j
  <2>1. first \in Matching(c)
    <3>1. Matching(c) \subseteq Nat
      BY DEF Matching
    <3>2. \E i \in Matching(c) : \A j \in Matching(c) : i <= j
      BY <1>2, <3>1, LeastNatural
    <3>3. QED
      BY <3>2
  <2>2. QED
    BY <1>2, <2>1, RouterAssumption DEF Resolve, ExecutorDecision, Matching
<1>3. QED
  BY <1>1, <1>2

LEMMA ActionForType == \A code : ActionFor(code) \in RecoveryAction
BY PolicyAssumption DEF ActionFor, RecoveryAction

LEMMA DecisionType ==
    ASSUME NEW b, NEW n, NEW f
    PROVE  Decision(b, n, f) \in RecoveryAction
<1>1. Mapped(b, n, f) \in RecoveryAction
  BY ActionForType DEF Mapped, RecoveryAction
<1>2. Retried(b, n, f) \in RecoveryAction
  BY <1>1 DEF Retried, RecoveryAction
<1>3. QED
  BY <1>2 DEF Decision, RecoveryAction

\* A granted retry or fallback is one the budget could pay for.
LEMMA GrantedIsAffordable ==
    ASSUME NEW b, NEW n, NEW f
    PROVE  /\ Decision(b, n, f) = "RETRY_LEARNED" => CanRetry(b, f.call)
           /\ Decision(b, n, f) = "USE_RRT_FALLBACK" => CanUseFallback(b)
BY DEF Decision, Retried

\* Once the learned budget is used up, or a failure loops, a failed attempt
\* ends in a fallback or in an abort.
LEMMA EscalationLeavesTwoWaysOut ==
    ASSUME NEW b, NEW n, NEW f,
           \/ f.backend = "learned" /\ ~CanRecordLearnedFailure(b)
           \/ LoopDetected(n, f)
    PROVE  Decision(b, n, f) \in {"USE_RRT_FALLBACK", "ABORT_TASK"}
<1>1. Mapped(b, n, f) \in {"USE_RRT_FALLBACK", "ABORT_TASK"}
  BY DEF Mapped
<1>2. Retried(b, n, f) \in {"USE_RRT_FALLBACK", "ABORT_TASK"}
  BY <1>1 DEF Retried
<1>3. QED
  BY <1>2 DEF Decision

\* What a decision does to each part of the budget.
LEMMA ChargeEffect ==
    ASSUME NEW b \in Budget, NEW f \in Failure, NEW action \in RecoveryAction,
           action = "RETRY_LEARNED" => CanRetry(b, f.call),
           action = "USE_RRT_FALLBACK" => CanUseFallback(b)
    PROVE  LET after == Charge(b, action, f) IN
           /\ after \in Budget
           /\ after.plan_rounds_used = b.plan_rounds_used
           /\ after.invalid_plans = b.invalid_plans
           /\ after.learned_failures =
                 IF f.backend = "learned" /\ CanRecordLearnedFailure(b)
                   THEN b.learned_failures + 1 ELSE b.learned_failures
           /\ after.fallbacks_used =
                 IF action = "USE_RRT_FALLBACK"
                   THEN b.fallbacks_used + 1 ELSE b.fallbacks_used
           /\ after.retries_by_key =
                 IF action = "RETRY_LEARNED"
                   THEN [b.retries_by_key EXCEPT ![f.call] = @ + 1]
                   ELSE b.retries_by_key
<1> DEFINE judged == IF f.backend = "learned" THEN ConsumeLearnedFailure(b) ELSE b
<1>1. /\ judged \in Budget
      /\ judged.plan_rounds_used = b.plan_rounds_used
      /\ judged.invalid_plans = b.invalid_plans
      /\ judged.fallbacks_used = b.fallbacks_used
      /\ judged.retries_by_key = b.retries_by_key
      /\ judged.learned_failures =
            IF f.backend = "learned" /\ CanRecordLearnedFailure(b)
              THEN b.learned_failures + 1 ELSE b.learned_failures
  BY DEF Budget, ConsumeLearnedFailure
<1>2. f.call \in Calls
  BY DEF Failure
<1> HIDE DEF judged
<1>3. CASE action = "RETRY_LEARNED"
  <2>1. CanRetry(judged, f.call)
    BY <1>1, <1>3 DEF CanRetry
  <2>2. Charge(b, action, f) =
          [judged EXCEPT !.retries_by_key[f.call] = @ + 1]
    BY <1>3, <2>1 DEF Charge, ConsumeRetry, judged
  <2>3. QED
    BY <1>1, <1>2, <1>3, <2>2 DEF Budget
<1>4. CASE action = "USE_RRT_FALLBACK"
  <2>1. CanUseFallback(judged)
    BY <1>1, <1>4 DEF CanUseFallback
  <2>2. Charge(b, action, f) = [judged EXCEPT !.fallbacks_used = @ + 1]
    BY <1>4, <2>1 DEF Charge, ConsumeFallback, judged
  <2>3. QED
    BY <1>1, <1>4, <2>2 DEF Budget
<1>5. CASE action \notin {"RETRY_LEARNED", "USE_RRT_FALLBACK"}
  <2>1. Charge(b, action, f) = judged
    BY <1>5 DEF Charge, judged
  <2>2. QED
    BY <1>1, <1>5, <2>1
<1>6. QED
  BY <1>3, <1>4, <1>5

Bump(m, counter, n) == [m EXCEPT ![counter] = @ + n]

LEMMA BumpType ==
    \A m \in Metrics, counter \in Counters, n \in Nat :
        Bump(m, counter, n) \in Metrics
BY DEF Bump, Metrics

\* What a recorded attempt does to the metrics.
LEMMA RecordAttemptEffect ==
    ASSUME NEW m \in Metrics, NEW b \in Backends,
           NEW success \in BOOLEAN, NEW fallback \in BOOLEAN
    PROVE  LET after == RecordAttempt(m, b, success, fallback) IN
           /\ after \in Metrics
           /\ after.learned_attempts = m.learned_attempts + One(b = "learned")
           /\ after.learned_failures =
                 m.learned_failures + One(b = "learned" /\ ~success)
           /\ after.rrt_attempts = m.rrt_attempts + One(b = "rrt")
           /\ after.fallback_attempts = m.fallback_attempts + One(fallback)
           /\ after.replans = m.replans
           /\ after.invalid_plans = m.invalid_plans
           /\ after.rollbacks = m.rollbacks
<1>1. /\ One(b = "learned") \in Nat /\ One(b = "learned" /\ success) \in Nat
      /\ One(b = "learned" /\ ~success) \in Nat
      /\ One(b = "rrt") \in Nat /\ One(b = "rrt" /\ success) \in Nat
      /\ One(fallback) \in Nat /\ One(fallback /\ success) \in Nat
  BY DEF One
<1> DEFINE after == RecordAttempt(m, b, success, fallback)
<1>2. DOMAIN m = Counters /\ \A k \in Counters : m[k] \in Nat
  BY DEF Metrics
<1>3. /\ after.learned_attempts = m.learned_attempts + One(b = "learned")
      /\ after.learned_successes = m.learned_successes + One(b = "learned" /\ success)
      /\ after.learned_failures = m.learned_failures + One(b = "learned" /\ ~success)
      /\ after.rrt_attempts = m.rrt_attempts + One(b = "rrt")
      /\ after.rrt_successes = m.rrt_successes + One(b = "rrt" /\ success)
      /\ after.fallback_attempts = m.fallback_attempts + One(fallback)
      /\ after.fallback_successes = m.fallback_successes + One(fallback /\ success)
      /\ after.replans = m.replans
      /\ after.invalid_plans = m.invalid_plans
      /\ after.rollbacks = m.rollbacks
  BY <1>2 DEF RecordAttempt, Counters
<1>4. after = [k \in Counters |-> after[k]]
  BY <1>2 DEF RecordAttempt
<1> HIDE DEF after
<1>5. \A k \in Counters : after[k] \in Nat
  BY <1>1, <1>2, <1>3 DEF Counters
<1>6. after \in Metrics
  BY <1>4, <1>5 DEF Metrics
<1>7. QED
  BY <1>3, <1>6 DEF after

-----------------------------------------------------------------------------
(* Type correctness.                                                       *)

\* What a failed attempt's recovery leaves behind, whatever it decides.
LEMMA RecoverEffect ==
    ASSUME TypeOK, NEW action, Recover(action)
    PROVE  /\ action \in RecoveryAction
           /\ action = Decision(budget, counts, CurrentFailure)
           /\ CurrentFailure \in Failure
           /\ budget' \in Budget
           /\ budget'.plan_rounds_used = budget.plan_rounds_used
           /\ budget'.invalid_plans = budget.invalid_plans
           /\ budget'.learned_failures =
                 IF backend = "learned" /\ CanRecordLearnedFailure(budget)
                   THEN budget.learned_failures + 1 ELSE budget.learned_failures
           /\ budget'.fallbacks_used =
                 IF action = "USE_RRT_FALLBACK"
                   THEN budget.fallbacks_used + 1 ELSE budget.fallbacks_used
           /\ budget'.retries_by_key =
                 IF action = "RETRY_LEARNED"
                   THEN [budget.retries_by_key EXCEPT ![call] = @ + 1]
                   ELSE budget.retries_by_key
           /\ action = "RETRY_LEARNED" => CanRetry(budget, call)
           /\ action = "USE_RRT_FALLBACK" => CanUseFallback(budget)
<1> DEFINE f == CurrentFailure
<1>1. f \in Failure /\ f.call = call /\ f.backend = backend
  BY DEF CurrentFailure, Failure, TypeOK, Backends, ExecutorDecision,
         SupportedBackends
<1>2. action = Decision(budget, counts, f) /\ budget' = Charge(budget, action, f)
  BY DEF Recover
<1> HIDE DEF f
<1>3. action \in RecoveryAction
  BY <1>2, DecisionType
<1>4. /\ action = "RETRY_LEARNED" => CanRetry(budget, f.call)
      /\ action = "USE_RRT_FALLBACK" => CanUseFallback(budget)
  BY <1>2, GrantedIsAffordable
<1>5. budget \in Budget
  BY DEF TypeOK
<1>6. QED
  BY <1>1, <1>2, <1>3, <1>4, <1>5, ChargeEffect DEF f

LEMMA RecoverMetrics ==
    ASSUME TypeOK, NEW action, Recover(action)
    PROVE  /\ metrics' \in Metrics
           /\ metrics'.learned_attempts = metrics.learned_attempts
           /\ metrics'.learned_failures = metrics.learned_failures
           /\ metrics'.rrt_attempts = metrics.rrt_attempts
           /\ metrics'.fallback_attempts = metrics.fallback_attempts
           /\ metrics'.invalid_plans = metrics.invalid_plans
           /\ metrics'.replans =
                 metrics.replans + One(action \in {"REPLAN_FROM_CURRENT_STATE",
                                                   "ROLLBACK_AND_REPLAN"})
<1>1. /\ One(RollbackRequired(failure_code, action)) \in Nat
      /\ One(action \in {"REPLAN_FROM_CURRENT_STATE",
                         "ROLLBACK_AND_REPLAN"}) \in Nat
  BY DEF One
<1>2. DOMAIN metrics = Counters /\ \A k \in Counters : metrics[k] \in Nat
  BY DEF TypeOK, Metrics
<1> DEFINE i == One(RollbackRequired(failure_code, action))
           j == One(action \in {"REPLAN_FROM_CURRENT_STATE",
                                "ROLLBACK_AND_REPLAN"})
<1>3. metrics' = [metrics EXCEPT !.rollbacks = @ + i, !.replans = @ + j]
  BY DEF Recover
<1>4. i \in Nat /\ j \in Nat
  BY <1>1
<1> HIDE DEF i, j
<1>5. metrics' \in Metrics
  <2>1. /\ metrics' = Bump(Bump(metrics, "rollbacks", i), "replans", j)
        /\ "rollbacks" \in Counters /\ "replans" \in Counters
    BY <1>2, <1>3 DEF Bump, Counters
  <2>2. QED
    BY <1>4, <2>1, BumpType DEF TypeOK
<1>6. /\ metrics'.learned_attempts = metrics.learned_attempts
      /\ metrics'.learned_failures = metrics.learned_failures
      /\ metrics'.rrt_attempts = metrics.rrt_attempts
      /\ metrics'.fallback_attempts = metrics.fallback_attempts
      /\ metrics'.invalid_plans = metrics.invalid_plans
      /\ metrics'.replans = metrics.replans + j
  BY <1>2, <1>3 DEF Counters
<1>7. QED
  BY <1>5, <1>6 DEF j

LEMMA RecoverCounts ==
    ASSUME TypeOK, NEW action, Recover(action)
    PROVE  /\ Fingerprint(CurrentFailure) \in Fingerprints
           /\ counts' \in [Fingerprints -> Nat]
           /\ \A fp \in Fingerprints :
                 counts'[fp] = IF fp = Fingerprint(CurrentFailure)
                                 THEN counts[fp] + 1 ELSE counts[fp]
<1>1. Fingerprint(CurrentFailure) \in Fingerprints
  BY DEF Fingerprint, Fingerprints, CurrentFailure, TypeOK
<1>2. counts' = [counts EXCEPT ![Fingerprint(CurrentFailure)] = @ + 1]
  BY DEF Recover, Record
<1>3. QED
  BY <1>1, <1>2 DEF TypeOK

\* A recovery leaves every variable it touches in its type.
LEMMA RecoverType ==
    ASSUME TypeOK, NEW action, Recover(action)
    PROVE  /\ budget' \in Budget /\ counts' \in [Fingerprints -> Nat]
           /\ metrics' \in Metrics /\ task_success' \in BOOLEAN
           /\ env' \in States /\ obs' \in States /\ snapshot' \in States
           /\ baseline' \in States
           /\ call' \in Calls /\ decision' \in ExecutorDecision
           /\ failure_code' \in Codes /\ runs' \in 0..MaxRuns
           /\ executors' = executors
<1>1. /\ env' \in States /\ obs' \in States /\ snapshot' \in States
      /\ baseline' \in States
      /\ call' \in Calls /\ decision' \in ExecutorDecision
      /\ failure_code' \in Codes /\ runs' \in 0..MaxRuns
      /\ task_success' \in BOOLEAN /\ executors' = executors
  BY DEF Recover, TypeOK
<1>2. QED
  BY <1>1, RecoverEffect, RecoverMetrics, RecoverCounts

\* An attempt that was started runs on a configured executor, which is why
\* the code it fails with is one of the codes.
ExecutorIsKnown == pc = "executing" => backend \in executors

TypeInv == TypeOK /\ ExecutorIsKnown

LEMMA InitType == Init => TypeInv
<1> SUFFICES ASSUME Init PROVE TypeInv
  OBVIOUS
<1>1. budget \in Budget
  BY DEF Init, NewBudget, Budget
<1>2. metrics \in Metrics
  BY DEF Init, NewMetrics, Metrics
<1>3. decision \in ExecutorDecision /\ backend \in Backends
  BY ResolveType DEF Init, ExecutorDecision, SupportedBackends, Backends
<1>4. counts \in [Fingerprints -> Nat]
  BY DEF Init
<1>5. /\ pc = "idle" /\ env \in States /\ obs \in States
      /\ snapshot \in States /\ baseline \in States
      /\ call \in Calls /\ fallback_attempt \in BOOLEAN
      /\ task_success \in BOOLEAN
  BY DEF Init
<1>6. /\ failure_code \in Codes /\ runs \in 0..MaxRuns /\ concluded \in Nat
      /\ feedback = None /\ verdict = None
        /\ executors \in SUBSET {"learned", "rrt"}
  BY ExecutorsAssumption DEF Init
<1>7. QED
  BY <1>1, <1>2, <1>3, <1>4, <1>5, <1>6 DEF TypeInv, TypeOK, ExecutorIsKnown

\* Every step keeps every variable in its type.
LEMMA StepType == TypeInv /\ [Next]_vars => TypeInv'
<1> SUFFICES ASSUME TypeInv, [Next]_vars PROVE TypeInv'
  OBVIOUS
<1> USE DEF TypeInv
<1>1. CASE Run
  BY <1>1, ExecutorsAssumption DEF Run, TypeOK, ExecutorIsKnown, roundVars, None
<1>2. CASE StartRound
  <2>1. budget' \in Budget
    BY <1>2 DEF StartRound, StartPlanRound, TypeOK, Budget
  <2>2. QED
    BY <1>2, <2>1 DEF StartRound, TypeOK, ExecutorIsKnown, roundVars
<1>3. CASE BudgetExhausted
  BY <1>3 DEF BudgetExhausted, Return, TypeOK, ExecutorIsKnown, roundVars
<1>4. CASE RejectPlan
  <2>1. budget' \in Budget
    BY <1>4 DEF RejectPlan, RecordInvalidPlan, TypeOK, Budget
  <2>2. metrics' \in Metrics
    BY <1>4, BumpType DEF RejectPlan, Bump, TypeOK, Counters
  <2>3. QED
    BY <1>4, <2>1, <2>2 DEF RejectPlan, TypeOK, ExecutorIsKnown, roundVars
<1>5. CASE \E c \in Calls : AcceptPlan(c)
  <2>1. PICK c \in Calls : AcceptPlan(c)
    BY <1>5
  <2>2. decision' \in ExecutorDecision /\ backend' \in Backends
    BY <2>1, ResolveType DEF AcceptPlan, ExecutorDecision, SupportedBackends,
                             Backends
  <2>3. QED
    BY <2>1, <2>2 DEF AcceptPlan, TypeOK, ExecutorIsKnown
<1>6. CASE PlannerRaises
  BY <1>6 DEF PlannerRaises, Return, TypeOK, ExecutorIsKnown, roundVars
<1>7. CASE NoExecutor
  BY <1>7 DEF NoExecutor, Return, TypeOK, ExecutorIsKnown, roundVars, None
<1>8. CASE StartAttempt
  BY <1>8 DEF StartAttempt, TypeOK, ExecutorIsKnown, roundVars
<1>9. CASE CompileFails
  <2>1. metrics' \in Metrics
    BY <1>9, RecordAttemptEffect DEF CompileFails, TypeOK
  <2>2. QED
    BY <1>9, <2>1, ExecutorsAssumption
    DEF CompileFails, TypeOK, ExecutorIsKnown, roundVars
<1>10. CASE AttemptFails
  <2>1. metrics' \in Metrics
    BY <1>10, RecordAttemptEffect DEF AttemptFails, TypeOK
  <2>2. backend \in {"learned", "rrt"} /\ failure_code' \in FailureCodes[backend]
    BY <1>10 DEF AttemptFails, ExecutorIsKnown, TypeOK
  <2>3. failure_code' \in Codes
    BY <2>2, ExecutorsAssumption
  <2>4. QED
    BY <1>10, <2>1, <2>3 DEF AttemptFails, TypeOK, ExecutorIsKnown, roundVars
<1>11. CASE SkillSucceeds
  <2>1. metrics' = Bump(RecordAttempt(metrics, backend, TRUE, fallback_attempt),
                        "replans", 1)
    BY <1>11 DEF SkillSucceeds, Bump
  <2>2. metrics' \in Metrics
    BY <2>1, RecordAttemptEffect, BumpType DEF TypeOK, Counters
  <2>3. QED
    BY <1>11, <2>2 DEF SkillSucceeds, TypeOK, ExecutorIsKnown, roundVars
<1>12. CASE TaskSucceeds
  <2>1. metrics' \in Metrics
    BY <1>12, RecordAttemptEffect DEF TaskSucceeds, TypeOK
  <2>2. /\ pc' = "idle" /\ verdict' = "success" /\ feedback' = None
        /\ task_success' = TRUE /\ concluded' = concluded + 1
        /\ env' \in States /\ obs' = env' /\ baseline' = env'
    BY <1>12 DEF TaskSucceeds, Return
  <2>3. UNCHANGED <<executors, budget, counts, snapshot, roundVars, failure_code,
                    runs>>
    BY <1>12 DEF TaskSucceeds
  <2>4. QED
    BY <2>1, <2>2, <2>3 DEF TypeOK, ExecutorIsKnown, roundVars
<1>13. CASE ExecutorRaises
  BY <1>13 DEF ExecutorRaises, Return, TypeOK, ExecutorIsKnown, roundVars
<1>14. CASE RetryLearned
  BY <1>14, RecoverType DEF RetryLearned, TypeOK, ExecutorIsKnown, Backends
<1>15. CASE UseRrtFallback
  BY <1>15, RecoverType DEF UseRrtFallback, TypeOK, ExecutorIsKnown, Backends
<1>16. CASE Replan
  BY <1>16, RecoverType DEF Replan, TypeOK, ExecutorIsKnown
<1>17. CASE Abort
  <2>1. /\ Recover("ABORT_TASK") /\ feedback' = obs'
        /\ pc' = "idle" /\ verdict' = "aborted" /\ concluded' = concluded + 1
        /\ UNCHANGED <<backend, fallback_attempt>>
    BY <1>17 DEF Abort, Return
  <2>2. /\ budget' \in Budget /\ counts' \in [Fingerprints -> Nat]
        /\ metrics' \in Metrics /\ task_success' \in BOOLEAN
        /\ env' \in States /\ obs' \in States /\ snapshot' \in States
        /\ baseline' \in States
        /\ call' \in Calls /\ decision' \in ExecutorDecision
        /\ failure_code' \in Codes /\ runs' \in 0..MaxRuns
        /\ executors' = executors
    BY <2>1, RecoverType
  <2>3. QED
    BY <2>1, <2>2 DEF TypeOK, ExecutorIsKnown
<1>18. CASE UNCHANGED vars
  BY <1>18 DEF vars, TypeOK, ExecutorIsKnown, roundVars
<1> HIDE DEF TypeInv
<1>19. QED
  BY <1>1, <1>2, <1>3, <1>4, <1>5, <1>6, <1>7, <1>8, <1>9, <1>10, <1>11,
     <1>12, <1>13, <1>14, <1>15, <1>16, <1>17, <1>18 DEF Next, Step

\* Every variable of run() keeps its type, whatever planners, executors and
\* simulators answer.
THEOREM TypeCorrect == Spec => []TypeOK
<1>1. Spec => []TypeInv
  BY InitType, StepType, PTL DEF Spec
<1>2. TypeInv => TypeOK
  BY DEF TypeInv
<1>3. QED
  BY <1>1, <1>2, PTL

-----------------------------------------------------------------------------
(* Rounds.                                                                 *)

LEMMA InitRounds == Init => RoundAccounting
BY PolicyAssumption
DEF Init, RoundAccounting, NewBudget, NewMetrics, Counters, InRound, One

LEMMA StepRounds == TypeInv /\ RoundAccounting /\ [Next]_vars => RoundAccounting'
<1> SUFFICES ASSUME TypeInv, RoundAccounting, [Next]_vars PROVE RoundAccounting'
  OBVIOUS
<1> USE DEF RoundAccounting, InRound, One
<1>a. TypeOK
  BY DEF TypeInv
<1>b. /\ budget.plan_rounds_used \in Nat /\ budget.invalid_plans \in Nat
      /\ metrics.invalid_plans \in Nat /\ metrics.replans \in Nat
      /\ concluded \in Nat
  BY <1>a DEF TypeOK, Budget, Metrics, Counters
<1>c. metrics \in Metrics /\ backend \in Backends /\ fallback_attempt \in BOOLEAN
  BY <1>a DEF TypeOK
<1>1. CASE Run
  BY <1>1 DEF Run
<1>2. CASE StartRound
  <2>1. /\ budget'.plan_rounds_used = budget.plan_rounds_used + 1
        /\ budget'.invalid_plans = budget.invalid_plans
        /\ budget.plan_rounds_used < MaxPlanRounds
    BY <1>2, <1>a DEF StartRound, StartPlanRound, CanStartPlanRound, TypeOK, Budget
  <2>2. pc = "loop" /\ pc' = "prompted" /\ UNCHANGED <<metrics, concluded>>
    BY <1>2 DEF StartRound
  <2>3. QED
    BY <1>b, <2>1, <2>2, PolicyAssumption
<1>3. CASE BudgetExhausted
  BY <1>3 DEF BudgetExhausted, Return
<1>4. CASE RejectPlan
  <2>1. /\ budget'.plan_rounds_used = budget.plan_rounds_used
        /\ budget'.invalid_plans = budget.invalid_plans + 1
    BY <1>4, <1>a DEF RejectPlan, RecordInvalidPlan, TypeOK, Budget
  <2>2. /\ metrics'.invalid_plans = metrics.invalid_plans + 1
        /\ metrics'.replans = metrics.replans
    BY <1>4, <1>a DEF RejectPlan, TypeOK, Metrics, Counters
  <2>3. pc = "prompted" /\ pc' = "loop" /\ concluded' = concluded
    BY <1>4 DEF RejectPlan
  <2>4. QED
    BY <1>b, <2>1, <2>2, <2>3
<1>5. CASE \E c \in Calls : AcceptPlan(c)
  BY <1>5 DEF AcceptPlan
<1>6. CASE PlannerRaises \/ NoExecutor \/ ExecutorRaises
  BY <1>6, <1>b DEF PlannerRaises, NoExecutor, ExecutorRaises, Return
<1>7. CASE StartAttempt
  BY <1>7 DEF StartAttempt
<1>8. CASE CompileFails \/ AttemptFails
  <2>1. metrics' = RecordAttempt(metrics, backend, FALSE, fallback_attempt)
    BY <1>8 DEF CompileFails, AttemptFails
  <2>2. /\ metrics'.invalid_plans = metrics.invalid_plans
        /\ metrics'.replans = metrics.replans
    BY <1>c, <2>1, RecordAttemptEffect
  <2>3. /\ pc \in {"ready", "executing"} /\ pc' = "failed"
        /\ UNCHANGED <<budget, concluded>>
    BY <1>8 DEF CompileFails, AttemptFails
  <2>4. QED
    BY <2>2, <2>3
<1>9. CASE SkillSucceeds
  <2>0. PICK m : m = RecordAttempt(metrics, backend, TRUE, fallback_attempt)
    OBVIOUS
  <2>1. /\ m \in Metrics
        /\ m.invalid_plans = metrics.invalid_plans
        /\ m.replans = metrics.replans
    BY <1>c, <2>0, RecordAttemptEffect
  <2>2. metrics' = [m EXCEPT !.replans = @ + 1]
    BY <1>9, <2>0 DEF SkillSucceeds
  <2>3. /\ metrics'.invalid_plans = metrics.invalid_plans
        /\ metrics'.replans = metrics.replans + 1
    BY <2>1, <2>2 DEF Metrics, Counters
  <2>4. pc = "executing" /\ pc' = "loop" /\ UNCHANGED <<budget, concluded>>
    BY <1>9 DEF SkillSucceeds
  <2>5. QED
    BY <1>b, <2>3, <2>4
<1>10. CASE TaskSucceeds
  <2>1. /\ metrics'.invalid_plans = metrics.invalid_plans
        /\ metrics'.replans = metrics.replans
    BY <1>10, <1>c, RecordAttemptEffect DEF TaskSucceeds
  <2>2. /\ pc = "executing" /\ pc' = "idle" /\ budget' = budget
        /\ concluded' = concluded + 1
    BY <1>10 DEF TaskSucceeds, Return
  <2>3. QED
    BY <1>b, <2>1, <2>2
<1>11. ASSUME NEW action, Recover(action)
       PROVE  /\ pc = "failed"
              /\ budget'.plan_rounds_used = budget.plan_rounds_used
              /\ budget'.invalid_plans = budget.invalid_plans
              /\ metrics'.invalid_plans = metrics.invalid_plans
              /\ metrics'.replans =
                    IF action \in {"REPLAN_FROM_CURRENT_STATE",
                                   "ROLLBACK_AND_REPLAN"}
                      THEN metrics.replans + 1 ELSE metrics.replans
  <2>1. pc = "failed"
    BY <1>11 DEF Recover
  <2>2. /\ budget'.plan_rounds_used = budget.plan_rounds_used
        /\ budget'.invalid_plans = budget.invalid_plans
    BY <1>11, <1>a, RecoverEffect, Zenon
  <2>3. /\ metrics'.invalid_plans = metrics.invalid_plans
        /\ metrics'.replans =
              metrics.replans + One(action \in {"REPLAN_FROM_CURRENT_STATE",
                                                "ROLLBACK_AND_REPLAN"})
    BY <1>11, <1>a, RecoverMetrics, Zenon
  <2>4. QED
    BY <1>b, <2>1, <2>2, <2>3
<1>12. CASE RetryLearned
  BY <1>11, <1>12, <1>b DEF RetryLearned
<1>13. CASE UseRrtFallback
  BY <1>11, <1>13, <1>b DEF UseRrtFallback
<1>14. CASE Replan
  BY <1>11, <1>14, <1>b DEF Replan
<1>15. CASE Abort
  <2>1. Recover("ABORT_TASK") /\ pc' = "idle" /\ concluded' = concluded + 1
    BY <1>15 DEF Abort, Return
  <2>2. QED
    BY <1>11, <1>b, <2>1
<1>16. CASE UNCHANGED vars
  BY <1>16 DEF vars
<1>17. QED
  BY <1>1, <1>2, <1>3, <1>4, <1>5, <1>6, <1>7, <1>8, <1>9, <1>10, <1>12,
     <1>13, <1>14, <1>15, <1>16 DEF Next, Step

\* Each plan round a controller ever starts has exactly one outcome, and
\* there are never more of them than the policy allows.
THEOREM RoundsAreAccountedFor == Spec => []RoundAccounting
<1>1. Spec => [](TypeInv /\ RoundAccounting)
  BY InitType, InitRounds, StepType, StepRounds, PTL DEF Spec
<1>2. QED
  BY <1>1, PTL

-----------------------------------------------------------------------------
(* Grounding and rollback.                                                 *)

LEMMA InitGrounded == Init => PlansAreGrounded
BY DEF Init, PlansAreGrounded

LEMMA StepGrounded == PlansAreGrounded /\ [Next]_vars => PlansAreGrounded'
<1> SUFFICES ASSUME PlansAreGrounded, [Next]_vars PROVE PlansAreGrounded'
  OBVIOUS
<1> USE DEF PlansAreGrounded
<1>1. CASE Run
  BY <1>1 DEF Run
<1>2. CASE StartRound \/ BudgetExhausted \/ RejectPlan \/ PlannerRaises
  BY <1>2 DEF StartRound, BudgetExhausted, RejectPlan, PlannerRaises, Return
<1>3. CASE \E c \in Calls : AcceptPlan(c)
  BY <1>3 DEF AcceptPlan
<1>4. CASE NoExecutor \/ StartAttempt
  BY <1>4 DEF NoExecutor, StartAttempt, Return
<1>5. CASE CompileFails \/ AttemptFails \/ ExecutorRaises
  BY <1>5 DEF CompileFails, AttemptFails, ExecutorRaises, Return
<1>6. CASE SkillSucceeds \/ TaskSucceeds
  BY <1>6 DEF SkillSucceeds, TaskSucceeds, Return
<1>7. ASSUME NEW action, Recover(action) PROVE obs' = env'
  BY <1>7 DEF Recover
<1>8. CASE RetryLearned \/ UseRrtFallback
  BY <1>7, <1>8 DEF RetryLearned, UseRrtFallback
<1>9. CASE Replan \/ Abort
  BY <1>7, <1>9 DEF Replan, Abort, Return
<1>10. CASE UNCHANGED vars
  BY <1>10 DEF vars
<1>11. QED
  BY <1>1, <1>2, <1>3, <1>4, <1>5, <1>6, <1>8, <1>9, <1>10 DEF Next, Step

\* run() prompts, validates and executes against the simulator's present
\* state, and never quotes a state it has rolled back.
THEOREM PlansStayGrounded == Spec => []PlansAreGrounded
BY InitGrounded, StepGrounded, PTL DEF Spec

\* While an attempt runs, its snapshot is the state it is accountable for;
\* a run in progress has no verdict yet.
RollbackInv ==
    /\ RollbackIsExact
    /\ pc = "executing" => snapshot = baseline
    /\ pc # "idle" => verdict = None

LEMMA InitRollback == Init => RollbackInv
BY DEF Init, RollbackInv, RollbackIsExact, None

LEMMA StepRollback == RollbackInv /\ [Next]_vars => RollbackInv'
<1> SUFFICES ASSUME RollbackInv, [Next]_vars PROVE RollbackInv'
  OBVIOUS
<1> USE DEF RollbackInv, RollbackIsExact, None
<1>1. CASE Run
  BY <1>1 DEF Run
<1>2. CASE StartRound \/ BudgetExhausted \/ RejectPlan \/ PlannerRaises
  BY <1>2 DEF StartRound, BudgetExhausted, RejectPlan, PlannerRaises, Return
<1>3. CASE \E c \in Calls : AcceptPlan(c)
  BY <1>3 DEF AcceptPlan
<1>4. CASE NoExecutor \/ StartAttempt
  BY <1>4 DEF NoExecutor, StartAttempt, Return
<1>5. CASE CompileFails \/ AttemptFails \/ ExecutorRaises
  BY <1>5 DEF CompileFails, AttemptFails, ExecutorRaises, Return
<1>6. CASE SkillSucceeds \/ TaskSucceeds
  BY <1>6 DEF SkillSucceeds, TaskSucceeds, Return
\* Rolled back, env is the snapshot, which is the baseline; otherwise the
\* state the attempt left is the new baseline.
<1>7. ASSUME NEW action, Recover(action) PROVE env' = baseline'
  BY <1>7 DEF Recover
<1>8. CASE RetryLearned
  BY <1>7, <1>8 DEF RetryLearned, Recover
<1>9. CASE UseRrtFallback
  BY <1>7, <1>9 DEF UseRrtFallback, Recover
<1>10. CASE Replan
  BY <1>7, <1>10 DEF Replan, Recover
<1>11. CASE Abort
  BY <1>7, <1>11 DEF Abort, Recover, Return
<1>12. CASE UNCHANGED vars
  BY <1>12 DEF vars
<1>13. QED
  BY <1>1, <1>2, <1>3, <1>4, <1>5, <1>6, <1>8, <1>9, <1>10, <1>11, <1>12
  DEF Next, Step

\* A rollback undoes the failed attempt, all of it and nothing else.
THEOREM RollbackUndoesOneAttempt == Spec => []RollbackIsExact
<1>1. Spec => []RollbackInv
  BY InitRollback, StepRollback, PTL DEF Spec
<1>2. QED
  BY <1>1, PTL DEF RollbackInv

-----------------------------------------------------------------------------
(* Bounded recovery.                                                       *)

WithinLimits ==
    /\ \A c \in Calls : budget.retries_by_key[c] <= MaxRetriesPerSkill
    /\ budget.fallbacks_used <= MaxFallbacks

BoundsInv == WithinLimits /\ LearnedFailuresBounded /\ FailureLoopsAreBroken

LEMMA InitBounds == Init => BoundsInv
BY PolicyAssumption
DEF Init, BoundsInv, WithinLimits, LearnedFailuresBounded, FailureLoopsAreBroken,
    Undecided, One, NewBudget, NewMetrics, Counters

\* The parts of the state the bounds are about, as numbers.
LEMMA BoundsType ==
    ASSUME TypeOK
    PROVE  /\ budget.learned_failures \in Nat /\ budget.fallbacks_used \in Nat
           /\ metrics.learned_failures \in Nat /\ concluded \in Nat
           /\ \A fp \in Fingerprints : counts[fp] \in Nat
           /\ \A c \in Calls : budget.retries_by_key[c] \in Nat
BY DEF TypeOK, Budget, Metrics, Counters

\* A step that leaves the failed attempt, if there is one, alone, and counts
\* no new one.
LEMMA FrameBounds ==
    ASSUME TypeOK, BoundsInv,
           UNCHANGED counts,
           budget'.learned_failures = budget.learned_failures,
           budget'.fallbacks_used = budget.fallbacks_used,
           budget'.retries_by_key = budget.retries_by_key,
           concluded' \in {concluded, concluded + 1},
           metrics'.learned_failures - Undecided("learned")'
              = metrics.learned_failures - Undecided("learned")
    PROVE  BoundsInv'
<1>1. WithinLimits'
  BY DEF BoundsInv, WithinLimits
<1>2. LearnedFailuresBounded'
  BY BoundsType, PolicyAssumption, OneType
  DEF BoundsInv, LearnedFailuresBounded, Undecided, One
<1>3. FailureLoopsAreBroken'
  BY BoundsType, PolicyAssumption DEF BoundsInv, FailureLoopsAreBroken
<1>4. QED
  BY <1>1, <1>2, <1>3 DEF BoundsInv

\* A recovery pays for what it grants.
LEMMA RecoverBounds ==
    ASSUME TypeOK, BoundsInv, NEW action, Recover(action),
           pc' # "failed",
           concluded' = IF action = "ABORT_TASK" THEN concluded + 1 ELSE concluded
    PROVE  BoundsInv'
<1>1. pc = "failed" /\ action = Decision(budget, counts, CurrentFailure)
  BY DEF Recover
<1>2. /\ budget'.learned_failures =
            IF backend = "learned" /\ CanRecordLearnedFailure(budget)
              THEN budget.learned_failures + 1 ELSE budget.learned_failures
      /\ budget'.fallbacks_used =
            IF action = "USE_RRT_FALLBACK"
              THEN budget.fallbacks_used + 1 ELSE budget.fallbacks_used
      /\ budget'.retries_by_key =
            IF action = "RETRY_LEARNED"
              THEN [budget.retries_by_key EXCEPT ![call] = @ + 1]
              ELSE budget.retries_by_key
      /\ action = "RETRY_LEARNED" => CanRetry(budget, call)
      /\ action = "USE_RRT_FALLBACK" => CanUseFallback(budget)
  BY RecoverEffect, Zenon
<1>3. metrics'.learned_failures = metrics.learned_failures
  BY RecoverMetrics, Zenon
<1>4. CurrentFailure.backend = backend
  BY DEF CurrentFailure
<1>5. budget'.fallbacks_used + concluded' \in
        {budget.fallbacks_used + concluded, budget.fallbacks_used + concluded + 1}
  BY <1>2, BoundsType
<1>6. WithinLimits'
  <2>1. budget.retries_by_key \in [Calls -> Nat] /\ call \in Calls
    BY DEF TypeOK, Budget
  <2>2. QED
    BY <1>2, <2>1, BoundsType, PolicyAssumption
    DEF BoundsInv, WithinLimits, CanRetry, CanUseFallback
<1>7. LearnedFailuresBounded'
  <2>1. CASE backend = "learned" /\ ~CanRecordLearnedFailure(budget)
    <3>1. action \in {"USE_RRT_FALLBACK", "ABORT_TASK"}
      BY <1>1, <1>4, <2>1, EscalationLeavesTwoWaysOut
    <3>2. budget'.fallbacks_used + concluded'
            = budget.fallbacks_used + concluded + 1
      BY <1>2, <3>1, BoundsType
    <3>3. QED
      BY <1>1, <1>2, <1>3, <2>1, <3>2, BoundsType, PolicyAssumption
      DEF BoundsInv, LearnedFailuresBounded, Undecided, One,
          CanRecordLearnedFailure
  <2>2. CASE ~(backend = "learned" /\ ~CanRecordLearnedFailure(budget))
    BY <1>1, <1>2, <1>3, <1>5, <2>2, BoundsType, PolicyAssumption
    DEF BoundsInv, LearnedFailuresBounded, Undecided, One,
        CanRecordLearnedFailure
  <2>3. QED
    BY <2>1, <2>2
<1>8. FailureLoopsAreBroken'
  <2> SUFFICES ASSUME NEW fp \in Fingerprints
               PROVE  counts'[fp] <= MaxRepeatedFailures
                                       + budget'.fallbacks_used + concluded'
    BY DEF FailureLoopsAreBroken
  <2>1. counts[fp] <= MaxRepeatedFailures + budget.fallbacks_used + concluded
    BY DEF BoundsInv, FailureLoopsAreBroken
  <2>2. counts'[fp] = IF fp = Fingerprint(CurrentFailure)
                        THEN counts[fp] + 1 ELSE counts[fp]
    BY RecoverCounts
  <2>3. CASE fp = Fingerprint(CurrentFailure)
             /\ LoopDetected(counts, CurrentFailure)
    <3>1. action \in {"USE_RRT_FALLBACK", "ABORT_TASK"}
      BY <1>1, <2>3, EscalationLeavesTwoWaysOut
    <3>2. budget'.fallbacks_used + concluded'
            = budget.fallbacks_used + concluded + 1
      BY <1>2, <3>1, BoundsType
    <3>3. QED
      BY <1>2, <2>1, <2>2, <3>1, <3>2, BoundsType, PolicyAssumption
  <2>4. CASE fp = Fingerprint(CurrentFailure)
             /\ ~LoopDetected(counts, CurrentFailure)
    <3>1. counts[fp] + 1 <= MaxRepeatedFailures
      BY <2>4, BoundsType, PolicyAssumption DEF LoopDetected
    <3>2. QED
      BY <1>2, <2>2, <3>1, BoundsType, PolicyAssumption
  <2>5. CASE fp # Fingerprint(CurrentFailure)
    BY <1>2, <2>1, <2>2, <2>5, BoundsType, PolicyAssumption
  <2>6. QED
    BY <2>3, <2>4, <2>5
<1>9. QED
  BY <1>6, <1>7, <1>8 DEF BoundsInv

LEMMA StepBounds == TypeInv /\ BoundsInv /\ [Next]_vars => BoundsInv'
<1> SUFFICES ASSUME TypeInv, BoundsInv, [Next]_vars PROVE BoundsInv'
  OBVIOUS
<1>a. TypeOK
  BY DEF TypeInv
<1>1. CASE Run
  BY <1>1, <1>a, FrameBounds DEF Undecided, One, Run
<1>2. CASE StartRound
  <2>1. /\ budget'.learned_failures = budget.learned_failures
        /\ budget'.fallbacks_used = budget.fallbacks_used
        /\ budget'.retries_by_key = budget.retries_by_key
    BY <1>2, <1>a DEF StartRound, StartPlanRound, TypeOK, Budget
  <2>2. QED
    BY <1>2, <1>a, <2>1, FrameBounds DEF Undecided, One, StartRound
<1>3. CASE BudgetExhausted
  BY <1>3, <1>a, FrameBounds DEF Undecided, One, BudgetExhausted, Return
<1>4. CASE RejectPlan
  <2>1. /\ budget'.learned_failures = budget.learned_failures
        /\ budget'.fallbacks_used = budget.fallbacks_used
        /\ budget'.retries_by_key = budget.retries_by_key
    BY <1>4, <1>a DEF RejectPlan, RecordInvalidPlan, TypeOK, Budget
  <2>2. metrics'.learned_failures = metrics.learned_failures
    BY <1>4, <1>a DEF RejectPlan, TypeOK, Metrics, Counters
  <2>3. pc = "prompted" /\ pc' = "loop" /\ UNCHANGED <<counts, concluded>>
    BY <1>4 DEF RejectPlan
  <2>4. QED
    BY <1>a, <2>1, <2>2, <2>3, FrameBounds DEF Undecided, One
<1>5. CASE \E c \in Calls : AcceptPlan(c)
  BY <1>5, <1>a, FrameBounds DEF Undecided, One, AcceptPlan
<1>6. CASE PlannerRaises
  BY <1>6, <1>a, FrameBounds DEF Undecided, One, PlannerRaises, Return
<1>7. CASE NoExecutor
  BY <1>7, <1>a, FrameBounds DEF Undecided, One, NoExecutor, Return
<1>8. CASE StartAttempt
  BY <1>8, <1>a, FrameBounds DEF Undecided, One, StartAttempt
<1>9. CASE ExecutorRaises
  BY <1>9, <1>a, FrameBounds DEF Undecided, One, ExecutorRaises, Return
\* A failed attempt is counted by the metrics and not decided yet.
<1>10. CASE CompileFails \/ AttemptFails
  <2>1. /\ metrics' = RecordAttempt(metrics, backend, FALSE, fallback_attempt)
        /\ pc # "failed" /\ pc' = "failed"
        /\ UNCHANGED <<budget, counts, backend, concluded>>
    BY <1>10 DEF CompileFails, AttemptFails, roundVars
  <2>2. metrics'.learned_failures
          = metrics.learned_failures + One(backend = "learned")
    <3>1. metrics'.learned_failures
            = metrics.learned_failures + One(backend = "learned" /\ ~FALSE)
      BY <1>a, <2>1, RecordAttemptEffect DEF TypeOK
    <3>2. QED
      BY <3>1
  <2>3. metrics'.learned_failures - Undecided("learned")'
          = metrics.learned_failures - Undecided("learned")
    <3>1. Undecided("learned") = 0
      BY <2>1 DEF Undecided, One
    <3>2. Undecided("learned")' = One(backend = "learned")
      BY <2>1 DEF Undecided
    <3>3. One(backend = "learned") \in Nat
      BY DEF One
    <3>4. QED
      BY <1>a, <2>2, <3>1, <3>2, <3>3, BoundsType
  <2>4. QED
    BY <1>a, <2>1, <2>3, FrameBounds
<1>11. CASE SkillSucceeds
  <2> DEFINE m == RecordAttempt(metrics, backend, TRUE, fallback_attempt)
  <2>1. m \in Metrics /\ m.learned_failures = metrics.learned_failures
    <3>1. /\ m \in Metrics
          /\ m.learned_failures
                = metrics.learned_failures + One(backend = "learned" /\ ~TRUE)
      <4>1. /\ metrics \in Metrics /\ backend \in Backends
            /\ fallback_attempt \in BOOLEAN
        BY <1>a DEF TypeOK
      <4>2. QED
        BY <4>1, RecordAttemptEffect
    <3> HIDE DEF m
    <3>2. QED
      BY <1>a, <3>1, BoundsType DEF One
  <2>2. metrics' = [m EXCEPT !.replans = @ + 1]
    BY <1>11 DEF SkillSucceeds
  <2> HIDE DEF m
  <2>3. metrics'.learned_failures = metrics.learned_failures
    BY <2>1, <2>2 DEF Metrics, Counters
  <2>4. /\ pc = "executing" /\ pc' = "loop"
        /\ UNCHANGED <<budget, counts, concluded>>
    BY <1>11 DEF SkillSucceeds
  <2>5. QED
    BY <1>a, <2>3, <2>4, FrameBounds DEF Undecided, One
<1>12. CASE TaskSucceeds
  <2>1. /\ metrics' = RecordAttempt(metrics, backend, TRUE, fallback_attempt)
        /\ pc = "executing" /\ pc' = "idle" /\ concluded' = concluded + 1
        /\ UNCHANGED <<budget, counts>>
    BY <1>12 DEF TaskSucceeds, Return
  <2>2. metrics'.learned_failures = metrics.learned_failures
    <3>1. metrics'.learned_failures
            = metrics.learned_failures + One(backend = "learned" /\ ~TRUE)
      BY <1>a, <2>1, RecordAttemptEffect DEF TypeOK
    <3>2. QED
      BY <1>a, <3>1, BoundsType DEF One
  <2>3. QED
    BY <1>a, <2>1, <2>2, FrameBounds DEF Undecided, One
<1>13. CASE RetryLearned
  BY <1>13, <1>a, RecoverBounds DEF RetryLearned
<1>14. CASE UseRrtFallback
  BY <1>14, <1>a, RecoverBounds DEF UseRrtFallback
<1>15. CASE Replan
  BY <1>15, <1>a, RecoverBounds DEF Replan
<1>16. CASE Abort
  BY <1>16, <1>a, RecoverBounds DEF Abort, Return
<1>17. CASE UNCHANGED vars
  BY <1>17, <1>a, FrameBounds DEF Undecided, One, vars, roundVars
<1>18. QED
  BY <1>1, <1>2, <1>3, <1>4, <1>5, <1>6, <1>7, <1>8, <1>9, <1>10, <1>11,
     <1>12, <1>13, <1>14, <1>15, <1>16, <1>17 DEF Next, Step

LEMMA BoundsHold == Spec => [](TypeInv /\ BoundsInv)
BY InitType, InitBounds, StepType, StepBounds, PTL DEF Spec

\* An exhausted learned-failure budget cannot keep sending attempts to the
\* learned policy: every further learned failure costs a fallback or a run.
THEOREM LearnedFailuresAreBounded == Spec => []LearnedFailuresBounded
BY BoundsHold, PTL DEF BoundsInv

\* Neither retries nor replans keep one failure of one call in one state
\* going: past max_repeated_failures it costs a fallback or the run.
THEOREM LoopsAreBroken == Spec => []FailureLoopsAreBroken
BY BoundsHold, PTL DEF BoundsInv

\* No controller grants more retries of a call, or more fallbacks, than its
\* policy allows, over any number of runs.
THEOREM RecoveryIsWithinLimits == Spec => []WithinLimits
BY BoundsHold, PTL DEF BoundsInv

-----------------------------------------------------------------------------
(* The controller implements the attempt ledger.                           *)

Licensed == pc \in {"prompted", "ready", "executing"}

UnitsLeft == <<MaxPlanRounds - budget.plan_rounds_used,
               [c \in Calls |-> MaxRetriesPerSkill - budget.retries_by_key[c]],
               MaxFallbacks - budget.fallbacks_used>>

Attempts == metrics.learned_attempts + metrics.rrt_attempts

LEMMA InitLedger == Init => Ledger!LedgerInit
<1> SUFFICES ASSUME Init PROVE Ledger!LedgerInit
  OBVIOUS
<1>1. /\ budget.plan_rounds_used = 0 /\ budget.fallbacks_used = 0
      /\ \A c \in Calls : budget.retries_by_key[c] = 0
      /\ metrics.learned_attempts = 0 /\ metrics.rrt_attempts = 0
      /\ pc = "idle"
  BY DEF Init, NewBudget, NewMetrics, Counters
<1>2. QED
  BY <1>1, PolicyAssumption DEF Ledger!LedgerInit

\* A recorded attempt of a backend that has an executor is one attempt.
LEMMA OneAttempt ==
    ASSUME TypeOK, backend \in executors, NEW success \in BOOLEAN
    PROVE  LET after == RecordAttempt(metrics, backend, success, fallback_attempt)
           IN  /\ after \in Metrics
               /\ after.learned_attempts + after.rrt_attempts = Attempts + 1
<1>1. backend \in {"learned", "rrt"}
  BY DEF TypeOK
<1>2. /\ metrics \in Metrics /\ backend \in Backends
      /\ fallback_attempt \in BOOLEAN
      /\ metrics.learned_attempts \in Nat /\ metrics.rrt_attempts \in Nat
  BY DEF TypeOK, Metrics, Counters
<1> DEFINE after == RecordAttempt(metrics, backend, success, fallback_attempt)
<1>3. /\ after \in Metrics
      /\ after.learned_attempts = metrics.learned_attempts + One(backend = "learned")
      /\ after.rrt_attempts = metrics.rrt_attempts + One(backend = "rrt")
  BY <1>2, RecordAttemptEffect
<1> HIDE DEF after
<1>4. QED
  BY <1>1, <1>2, <1>3 DEF Attempts, One, after

\* Every step is a step of the ledger or leaves it alone.
LEMMA StepLedger ==
    TypeInv /\ BoundsInv /\ [Next]_vars => [Ledger!LedgerNext]_(Ledger!ledger)
<1> SUFFICES ASSUME TypeInv, BoundsInv, [Next]_vars
             PROVE  Ledger!LedgerNext \/ UNCHANGED Ledger!ledger
  OBVIOUS
<1>a. TypeOK
  BY DEF TypeInv
<1> USE DEF Ledger!ledger
<1>b. ASSUME UNCHANGED <<budget, metrics>>, Licensed' = Licensed
      PROVE  UNCHANGED Ledger!ledger
  BY <1>b DEF Licensed
<1>c. ASSUME Licensed, ~Licensed', UNCHANGED UnitsLeft, Attempts' = Attempts
      PROVE  Ledger!LedgerNext
  BY <1>c DEF Licensed, UnitsLeft, Attempts, Ledger!LedgerNext, Ledger!Forfeit
<1>d. ASSUME Licensed, ~Licensed', UNCHANGED budget, Attempts' = Attempts + 1
      PROVE  Ledger!LedgerNext
  BY <1>d DEF Licensed, Attempts, Ledger!LedgerNext, Ledger!Attempt
<1>1. CASE Run
  BY <1>1, <1>b DEF Run, Licensed
<1>2. CASE StartRound
  <2>1. /\ budget'.plan_rounds_used = budget.plan_rounds_used + 1
        /\ budget'.fallbacks_used = budget.fallbacks_used
        /\ budget'.retries_by_key = budget.retries_by_key
        /\ budget.plan_rounds_used < MaxPlanRounds
        /\ budget.plan_rounds_used \in Nat
    BY <1>2, <1>a DEF StartRound, StartPlanRound, CanStartPlanRound, TypeOK, Budget
  <2>2. pc = "loop" /\ pc' = "prompted" /\ metrics' = metrics
    BY <1>2 DEF StartRound
  <2>3. Ledger!BuyRound
    BY <2>1, <2>2, PolicyAssumption DEF Ledger!BuyRound
  <2>4. QED
    BY <2>3 DEF Ledger!LedgerNext
<1>3. CASE BudgetExhausted
  BY <1>3, <1>b DEF BudgetExhausted, Return, Licensed
<1>4. CASE RejectPlan
  <2>1. UNCHANGED UnitsLeft
    BY <1>4, <1>a DEF RejectPlan, RecordInvalidPlan, TypeOK, Budget, UnitsLeft
  <2>2. UNCHANGED Attempts
    BY <1>4, <1>a DEF RejectPlan, TypeOK, Metrics, Counters, Attempts
  <2>3. Licensed /\ ~Licensed'
    BY <1>4 DEF RejectPlan, Licensed
  <2>4. QED
    BY <1>c, <2>1, <2>2, <2>3
<1>5. CASE \E c \in Calls : AcceptPlan(c)
  BY <1>5, <1>b DEF AcceptPlan, Licensed
<1>6. CASE PlannerRaises
  BY <1>6, <1>c DEF PlannerRaises, Return, Licensed, UnitsLeft, Attempts
<1>7. CASE NoExecutor
  BY <1>7, <1>c DEF NoExecutor, Return, Licensed, UnitsLeft, Attempts
<1>8. CASE StartAttempt
  BY <1>8, <1>b DEF StartAttempt, Licensed
<1>9. CASE CompileFails \/ AttemptFails
  <2>1. /\ backend \in executors
        /\ metrics' = RecordAttempt(metrics, backend, FALSE, fallback_attempt)
        /\ Licensed /\ ~Licensed' /\ UNCHANGED budget
    BY <1>9 DEF CompileFails, AttemptFails, TypeInv, ExecutorIsKnown, Licensed
  <2>2. Attempts' = Attempts + 1
    <3>1. metrics'.learned_attempts + metrics'.rrt_attempts = Attempts + 1
      BY <1>a, <2>1, OneAttempt
    <3>2. QED
      BY <3>1 DEF Attempts
  <2>3. QED
    BY <1>d, <2>1, <2>2
<1>10. CASE SkillSucceeds
  <2> DEFINE m == RecordAttempt(metrics, backend, TRUE, fallback_attempt)
  <2>1. /\ backend \in executors
        /\ metrics' = [m EXCEPT !.replans = @ + 1]
        /\ Licensed /\ ~Licensed' /\ UNCHANGED budget
    BY <1>10 DEF SkillSucceeds, TypeInv, ExecutorIsKnown, Licensed
  <2>2. m \in Metrics /\ m.learned_attempts + m.rrt_attempts = Attempts + 1
    BY <1>a, <2>1, OneAttempt
  <2> HIDE DEF m
  <2>3. Attempts' = Attempts + 1
    BY <2>1, <2>2 DEF Attempts, Metrics, Counters
  <2>4. QED
    BY <1>d, <2>1, <2>3
<1>11. CASE TaskSucceeds
  <2>1. /\ backend \in executors
        /\ metrics' = RecordAttempt(metrics, backend, TRUE, fallback_attempt)
        /\ Licensed /\ ~Licensed' /\ UNCHANGED budget
    BY <1>11 DEF TaskSucceeds, Return, TypeInv, ExecutorIsKnown, Licensed
  <2>2. Attempts' = Attempts + 1
    <3>1. metrics'.learned_attempts + metrics'.rrt_attempts = Attempts + 1
      BY <1>a, <2>1, OneAttempt
    <3>2. QED
      BY <3>1 DEF Attempts
  <2>3. QED
    BY <1>d, <2>1, <2>2
<1>12. CASE ExecutorRaises
  BY <1>12, <1>c DEF ExecutorRaises, Return, Licensed, UnitsLeft, Attempts
<1>13. ASSUME NEW action, Recover(action)
       PROVE  /\ pc = "failed" /\ call \in Calls
              /\ budget.retries_by_key \in [Calls -> Nat]
              /\ budget.fallbacks_used \in Nat
              /\ budget'.plan_rounds_used = budget.plan_rounds_used
              /\ budget'.fallbacks_used =
                    IF action = "USE_RRT_FALLBACK"
                      THEN budget.fallbacks_used + 1 ELSE budget.fallbacks_used
              /\ budget'.retries_by_key =
                    IF action = "RETRY_LEARNED"
                      THEN [budget.retries_by_key EXCEPT ![call] = @ + 1]
                      ELSE budget.retries_by_key
              /\ action = "RETRY_LEARNED" => CanRetry(budget, call)
              /\ action = "USE_RRT_FALLBACK" => CanUseFallback(budget)
              /\ UNCHANGED Attempts
  <2>1. pc = "failed"
    BY <1>13 DEF Recover
  <2>2. /\ call \in Calls /\ budget.retries_by_key \in [Calls -> Nat]
        /\ budget.fallbacks_used \in Nat
    BY <1>a DEF TypeOK, Budget
  <2>3. UNCHANGED Attempts
    <3>1. /\ metrics'.learned_attempts = metrics.learned_attempts
          /\ metrics'.rrt_attempts = metrics.rrt_attempts
      BY <1>a, <1>13, RecoverMetrics, Zenon
    <3>2. QED
      BY <3>1 DEF Attempts
  <2>4. QED
    BY <1>a, <1>13, <2>1, <2>2, <2>3, RecoverEffect, Zenon
<1>14. CASE RetryLearned
  <2>1. Recover("RETRY_LEARNED") /\ pc' = "ready"
    BY <1>14 DEF RetryLearned
  <2>2. Ledger!BuyRetry(call)
    BY <1>13, <2>1, PolicyAssumption DEF Ledger!BuyRetry, CanRetry, Attempts
  <2>3. call \in Calls
    BY <1>13, <2>1
  <2>4. \E k \in Calls : Ledger!BuyRetry(k)
    BY <2>2, <2>3 DEF Ledger!BuyRetry
  <2>5. QED
    BY <2>4 DEF Ledger!LedgerNext
<1>15. CASE UseRrtFallback
  <2>1. Recover("USE_RRT_FALLBACK") /\ pc' = "ready"
    BY <1>15 DEF UseRrtFallback
  <2>2. Ledger!BuyFallback
    BY <1>13, <2>1, PolicyAssumption DEF Ledger!BuyFallback, CanUseFallback, Attempts
  <2>3. QED
    BY <2>2 DEF Ledger!LedgerNext
<1>16. CASE Replan \/ Abort
  <2>1. PICK action \in {"REPLAN_FROM_CURRENT_STATE", "ROLLBACK_AND_REPLAN",
                         "ABORT_TASK"} : Recover(action)
    BY <1>16, Zenon DEF Replan, Abort
  <2>2. pc' \in {"loop", "idle"}
    BY <1>16 DEF Replan, Abort, Return
  <2>3. QED
    BY <1>13, <2>1, <2>2 DEF Attempts
<1>17. CASE UNCHANGED vars
  BY <1>17, <1>b DEF vars, Licensed
<1>18. QED
  BY <1>1, <1>2, <1>3, <1>4, <1>5, <1>6, <1>7, <1>8, <1>9, <1>10, <1>11,
     <1>12, <1>14, <1>15, <1>16, <1>17 DEF Next, Step

\* The controller implements the attempt ledger: no attempt without a round,
\* a retry or a fallback that was bought for it, in any number of runs.
THEOREM AttemptsAreBought == Spec => ImplementsLedger
BY BoundsHold, InitLedger, StepLedger, PTL
DEF Spec, ImplementsLedger, Ledger!LedgerSpec

-----------------------------------------------------------------------------
(* A run makes progress.                                                   *)

Nearer == \/ RoundsLeft' < RoundsLeft
          \/ /\ RoundsLeft' = RoundsLeft
             /\ Stake' < Stake \/ (Stake' = Stake /\ Phase' < Phase)

VariantIsNatural == RoundsLeft \in Nat /\ Stake \in Nat /\ Phase \in 0..5

\* The variant's three parts are naturals: the order has no infinite descent.
LEMMA VariantType ==
    ASSUME TypeOK, WithinLimits, RoundAccounting
    PROVE  VariantIsNatural
<1>1. /\ budget.plan_rounds_used \in Nat /\ budget.fallbacks_used \in Nat
      /\ budget.retries_by_key[call] \in Nat
      /\ budget.retries_by_key[call] <= MaxRetriesPerSkill
      /\ budget.fallbacks_used <= MaxFallbacks
      /\ budget.plan_rounds_used <= MaxPlanRounds
  BY DEF TypeOK, Budget, WithinLimits, RoundAccounting
<1>2. RoundsLeft \in Nat
  BY <1>1, PolicyAssumption DEF RoundsLeft
<1>3. Stake \in Nat
  BY <1>1, PolicyAssumption DEF Stake
<1>4. Phase \in 0..5
  BY DEF Phase, TypeOK
<1>5. QED
  BY <1>2, <1>3, <1>4 DEF VariantIsNatural

LEMMA StepProgress ==
    ASSUME TypeOK, WithinLimits, RoundAccounting, Step
    PROVE  Nearer
<1>a. VariantIsNatural
  BY VariantType
<1> USE DEF Nearer
\* A step that leaves the budget alone and closes the call, or goes on with it.
<1>b. ASSUME UNCHANGED budget, pc # "idle", pc' \in {"idle", "loop"}, Phase' < Phase
      PROVE  Nearer
  BY <1>a, <1>b DEF VariantIsNatural, RoundsLeft, Stake
<1>c. ASSUME UNCHANGED <<budget, call>>,
             pc \in {"ready", "executing"}, pc' \in {"executing", "failed"},
             Phase' < Phase
      PROVE  Nearer
  BY <1>a, <1>c DEF VariantIsNatural, RoundsLeft, Stake
<1>1. CASE StartRound
  <2>1. budget'.plan_rounds_used = budget.plan_rounds_used + 1
    BY <1>1 DEF StartRound, StartPlanRound, TypeOK, Budget
  <2>2. budget.plan_rounds_used \in Nat
    BY DEF TypeOK, Budget
  <2>3. QED
    BY <2>1, <2>2, PolicyAssumption DEF RoundsLeft
<1>2. CASE BudgetExhausted
  BY <1>2, <1>b DEF BudgetExhausted, Return, Phase
<1>3. CASE RejectPlan
  <2>1. budget'.plan_rounds_used = budget.plan_rounds_used
    BY <1>3 DEF RejectPlan, RecordInvalidPlan, TypeOK, Budget
  <2>2. pc = "prompted" /\ pc' = "loop"
    BY <1>3 DEF RejectPlan
  <2>3. RoundsLeft' = RoundsLeft /\ Stake' = 0 /\ Phase' < Phase
    BY <2>1, <2>2 DEF RoundsLeft, Stake, Phase
  <2>4. QED
    BY <1>a, <2>3 DEF VariantIsNatural
<1>4. CASE \E c \in Calls : AcceptPlan(c)
  <2>1. PICK c \in Calls : AcceptPlan(c)
    BY <1>4
  <2>2. pc = "prompted" /\ pc' = "ready" /\ call' = c /\ budget' = budget
    BY <2>1 DEF AcceptPlan
  <2>3. budget.retries_by_key[c] \in Nat /\ budget.fallbacks_used \in Nat
    BY DEF TypeOK, Budget
  <2>4. Stake' <= Stake
    BY <2>2, <2>3, PolicyAssumption DEF Stake
  <2>5. RoundsLeft' = RoundsLeft /\ Phase' < Phase
    BY <2>2 DEF RoundsLeft, Phase
  <2>6. Stake' \in Int
    BY <2>2, <2>3, PolicyAssumption DEF Stake
  <2>7. QED
    BY <1>a, <2>4, <2>5, <2>6 DEF VariantIsNatural
<1>5. CASE PlannerRaises
  BY <1>5, <1>b DEF PlannerRaises, Return, Phase
<1>6. CASE NoExecutor
  BY <1>6, <1>b DEF NoExecutor, Return, Phase
<1>7. CASE StartAttempt
  BY <1>7, <1>c DEF StartAttempt, roundVars, Phase
<1>8. CASE CompileFails
  BY <1>8, <1>c DEF CompileFails, roundVars, Phase
<1>9. CASE AttemptFails
  BY <1>9, <1>c DEF AttemptFails, roundVars, Phase
<1>10. CASE SkillSucceeds
  BY <1>10, <1>b DEF SkillSucceeds, Phase
<1>11. CASE TaskSucceeds
  BY <1>11, <1>b DEF TaskSucceeds, Return, Phase
<1>12. CASE ExecutorRaises
  BY <1>12, <1>b DEF ExecutorRaises, Return, Phase
<1>13. ASSUME NEW action, Recover(action)
       PROVE  /\ pc = "failed" /\ call' = call /\ call \in Calls
              /\ RoundsLeft' = RoundsLeft
              /\ budget.retries_by_key \in [Calls -> Nat]
              /\ budget.fallbacks_used \in Nat
              /\ budget'.fallbacks_used =
                    IF action = "USE_RRT_FALLBACK"
                      THEN budget.fallbacks_used + 1 ELSE budget.fallbacks_used
              /\ budget'.retries_by_key =
                    IF action = "RETRY_LEARNED"
                      THEN [budget.retries_by_key EXCEPT ![call] = @ + 1]
                      ELSE budget.retries_by_key
  <2>1. pc = "failed" /\ call' = call
    BY <1>13 DEF Recover
  <2>2. /\ call \in Calls /\ budget.retries_by_key \in [Calls -> Nat]
        /\ budget.fallbacks_used \in Nat
    BY DEF TypeOK, Budget
  <2>3. RoundsLeft' = RoundsLeft
    <3>1. budget'.plan_rounds_used = budget.plan_rounds_used
      BY <1>13, RecoverEffect, Zenon
    <3>2. QED
      BY <3>1 DEF RoundsLeft
  <2>4. QED
    BY <1>13, <2>1, <2>2, <2>3, RecoverEffect, Zenon
<1>14. CASE RetryLearned \/ UseRrtFallback
  <2>1. PICK action \in {"RETRY_LEARNED", "USE_RRT_FALLBACK"} : Recover(action)
    BY <1>14, Zenon DEF RetryLearned, UseRrtFallback
  <2>2. pc' = "ready"
    BY <1>14 DEF RetryLearned, UseRrtFallback
  <2>3. Stake' < Stake
    BY <1>13, <2>1, <2>2, PolicyAssumption DEF Stake
  <2>4. QED
    BY <1>13, <2>1, <2>3
<1>15. CASE Replan \/ Abort
  <2>1. PICK action \in {"REPLAN_FROM_CURRENT_STATE", "ROLLBACK_AND_REPLAN",
                         "ABORT_TASK"} : Recover(action)
    BY <1>15, Zenon DEF Replan, Abort
  <2>2. pc' \in {"loop", "idle"}
    BY <1>15 DEF Replan, Abort, Return
  <2>3. Stake' = 0 /\ Phase' < Phase
    BY <1>13, <2>1, <2>2 DEF Stake, Phase
  <2>4. QED
    BY <1>13, <1>a, <2>1, <2>3 DEF VariantIsNatural
<1>16. QED
  BY <1>1, <1>2, <1>3, <1>4, <1>5, <1>6, <1>7, <1>8, <1>9, <1>10, <1>11,
     <1>12, <1>14, <1>15 DEF Step

\* Every step of a run takes it nearer its end, in a well-founded order: the
\* loop over plan rounds and the loop over attempts both terminate.
THEOREM RunsAlwaysProgress == Spec => RunsMakeProgress /\ []VariantIsNatural
<1>1. Spec => [](TypeOK /\ WithinLimits /\ RoundAccounting)
  BY BoundsHold, RoundsAreAccountedFor, PTL DEF TypeInv, BoundsInv
<1>2. TypeOK /\ WithinLimits /\ RoundAccounting => VariantIsNatural
  BY VariantType
<1>3. TypeOK /\ WithinLimits /\ RoundAccounting /\ [Next]_vars
        => [Step => Nearer]_vars
  BY StepProgress
<1>4. QED
  BY <1>1, <1>2, <1>3, PTL DEF Spec, RunsMakeProgress, Nearer

-----------------------------------------------------------------------------
(* Fallbacks.                                                              *)

\* The codes an RRT attempt can fail with, and the premise the shipped table
\* meets for them: none is mapped to another learned attempt.
RrtCodes == FailureCodes["rrt"] \cup {"INVALID_PLAN"}

RrtIsNeverRetried == \A code \in RrtCodes : ActionFor(code) # "RETRY_LEARNED"

FallbackInv ==
    /\ FallbacksCountOnce
    /\ pc = "failed" /\ backend = "rrt" => failure_code \in RrtCodes

LEMMA InitFallback == Init => FallbackInv
BY DEF Init, FallbackInv, FallbacksCountOnce, NewBudget, NewMetrics, Counters,
       InRound, One

\* Only a code the table retries is ever retried.
LEMMA RetryIsMapped ==
    ASSUME NEW b, NEW n, NEW f, Decision(b, n, f) = "RETRY_LEARNED"
    PROVE  ActionFor(f.code) = "RETRY_LEARNED"
BY DEF Decision, Retried, Mapped

LEMMA StepFallback ==
    ASSUME RrtIsNeverRetried
    PROVE  TypeInv /\ FallbackInv /\ [Next]_vars => FallbackInv'
<1> SUFFICES ASSUME TypeInv, FallbackInv, [Next]_vars PROVE FallbackInv'
  OBVIOUS
<1> USE DEF FallbackInv, FallbacksCountOnce, InRound
<1>a. TypeOK
  BY DEF TypeInv
<1>b. /\ metrics \in Metrics /\ backend \in Backends
      /\ fallback_attempt \in BOOLEAN
      /\ metrics.fallback_attempts \in Nat /\ budget.fallbacks_used \in Nat
  BY <1>a DEF TypeOK, Budget, Metrics, Counters
\* An attempt that is recorded as it was announced.
<1>c. ASSUME metrics'.fallback_attempts
                = metrics.fallback_attempts + One(fallback_attempt),
             budget'.fallbacks_used = budget.fallbacks_used,
             UNCHANGED <<backend, fallback_attempt>>,
             pc \in {"ready", "executing"}, pc' \in {"failed", "loop", "idle"},
             pc' = "failed" /\ backend = "rrt" => failure_code' \in RrtCodes
      PROVE  FallbackInv'
  BY <1>b, <1>c DEF One
\* A step that records no attempt and announces none.
<1>d. ASSUME metrics'.fallback_attempts = metrics.fallback_attempts,
             budget'.fallbacks_used = budget.fallbacks_used,
             \/ pc' \in {"idle", "loop", "prompted"}
             \/ pc' \in {"ready", "executing"} /\ fallback_attempt' = FALSE
             \/ /\ pc = "ready" /\ pc' = "executing"
                /\ UNCHANGED <<backend, fallback_attempt>>
      PROVE  FallbackInv'
  BY <1>b, <1>d DEF One
<1>1. CASE Run
  BY <1>1, <1>d DEF Run
<1>2. CASE StartRound
  <2>1. budget'.fallbacks_used = budget.fallbacks_used
    BY <1>2, <1>a DEF StartRound, StartPlanRound, TypeOK, Budget
  <2>2. QED
    BY <1>2, <1>d, <2>1 DEF StartRound
<1>3. CASE BudgetExhausted
  BY <1>3, <1>d DEF BudgetExhausted, Return
<1>4. CASE RejectPlan
  <2>1. budget'.fallbacks_used = budget.fallbacks_used
    BY <1>4, <1>a DEF RejectPlan, RecordInvalidPlan, TypeOK, Budget
  <2>2. metrics'.fallback_attempts = metrics.fallback_attempts
    BY <1>4, <1>b DEF RejectPlan, Metrics, Counters
  <2>3. QED
    BY <1>4, <1>d, <2>1, <2>2 DEF RejectPlan
<1>5. CASE \E c \in Calls : AcceptPlan(c)
  BY <1>5, <1>d DEF AcceptPlan
<1>6. CASE PlannerRaises
  BY <1>6, <1>d DEF PlannerRaises, Return
<1>7. CASE NoExecutor
  BY <1>7, <1>d DEF NoExecutor, Return
<1>8. CASE StartAttempt
  BY <1>8, <1>d DEF StartAttempt, roundVars
<1>9. CASE CompileFails \/ AttemptFails
  <2>1. /\ metrics' = RecordAttempt(metrics, backend, FALSE, fallback_attempt)
        /\ UNCHANGED <<budget, backend, fallback_attempt>>
        /\ pc \in {"ready", "executing"} /\ pc' = "failed"
    BY <1>9 DEF CompileFails, AttemptFails, roundVars
  <2>2. metrics'.fallback_attempts
          = metrics.fallback_attempts + One(fallback_attempt)
    BY <1>b, <2>1, RecordAttemptEffect
  <2>3. backend = "rrt" => failure_code' \in RrtCodes
    BY <1>9 DEF CompileFails, AttemptFails, RrtCodes
  <2>4. QED
    BY <1>c, <2>1, <2>2, <2>3
<1>10. CASE SkillSucceeds
  <2> DEFINE m == RecordAttempt(metrics, backend, TRUE, fallback_attempt)
  <2>1. /\ m \in Metrics
        /\ m.fallback_attempts
              = metrics.fallback_attempts + One(fallback_attempt)
    BY <1>b, RecordAttemptEffect
  <2>2. /\ metrics' = [m EXCEPT !.replans = @ + 1]
        /\ UNCHANGED <<budget, backend, fallback_attempt>>
        /\ pc = "executing" /\ pc' = "loop"
    BY <1>10 DEF SkillSucceeds, roundVars
  <2> HIDE DEF m
  <2>3. metrics'.fallback_attempts
          = metrics.fallback_attempts + One(fallback_attempt)
    BY <2>1, <2>2 DEF Metrics, Counters
  <2>4. QED
    BY <1>c, <2>2, <2>3
<1>11. CASE TaskSucceeds
  <2>1. /\ metrics' = RecordAttempt(metrics, backend, TRUE, fallback_attempt)
        /\ UNCHANGED <<budget, backend, fallback_attempt>>
        /\ pc = "executing" /\ pc' = "idle"
    BY <1>11 DEF TaskSucceeds, Return, roundVars
  <2>2. metrics'.fallback_attempts
          = metrics.fallback_attempts + One(fallback_attempt)
    BY <1>b, <2>1, RecordAttemptEffect
  <2>3. QED
    BY <1>c, <2>1, <2>2
<1>12. CASE ExecutorRaises
  BY <1>12, <1>d DEF ExecutorRaises, Return
<1>13. ASSUME NEW action, Recover(action)
       PROVE  /\ pc = "failed" /\ action = Decision(budget, counts, CurrentFailure)
              /\ metrics'.fallback_attempts = metrics.fallback_attempts
              /\ budget'.fallbacks_used =
                    IF action = "USE_RRT_FALLBACK"
                      THEN budget.fallbacks_used + 1 ELSE budget.fallbacks_used
  <2>1. pc = "failed" /\ action = Decision(budget, counts, CurrentFailure)
    BY <1>13 DEF Recover
  <2>2. metrics'.fallback_attempts = metrics.fallback_attempts
    BY <1>a, <1>13, RecoverMetrics, Zenon
  <2>3. QED
    BY <1>a, <1>13, <2>1, <2>2, RecoverEffect, Zenon
\* The premise at work: what is retried was a learned attempt, hence no
\* fallback.
<1>14. CASE RetryLearned
  <2>1. Recover("RETRY_LEARNED") /\ pc' = "ready"
        /\ fallback_attempt' = fallback_attempt
    BY <1>14 DEF RetryLearned
  <2>2. ActionFor(failure_code) = "RETRY_LEARNED"
    <3>1. CurrentFailure.code = failure_code
      BY DEF CurrentFailure
    <3>2. QED
      BY <1>13, <2>1, <3>1, RetryIsMapped
  <2>3. backend # "rrt"
    BY <1>13, <2>1, <2>2 DEF RrtIsNeverRetried
  <2>4. fallback_attempt' = FALSE
    BY <1>13, <1>b, <2>1, <2>3
  <2>5. QED
    BY <1>13, <1>d, <2>1, <2>4
<1>15. CASE UseRrtFallback
  <2>1. /\ Recover("USE_RRT_FALLBACK") /\ pc' = "ready"
        /\ backend' = "rrt" /\ fallback_attempt' = TRUE
    BY <1>15 DEF UseRrtFallback
  <2>2. QED
    BY <1>13, <1>b, <2>1 DEF One
<1>16. CASE Replan \/ Abort
  <2>1. PICK action \in {"REPLAN_FROM_CURRENT_STATE", "ROLLBACK_AND_REPLAN",
                         "ABORT_TASK"} : Recover(action)
    BY <1>16, Zenon DEF Replan, Abort
  <2>2. pc' \in {"loop", "idle"}
    BY <1>16 DEF Replan, Abort, Return
  <2>3. QED
    BY <1>13, <1>d, <2>1, <2>2
<1>17. CASE UNCHANGED vars
  BY <1>17 DEF vars, roundVars
<1>18. QED
  BY <1>1, <1>2, <1>3, <1>4, <1>5, <1>6, <1>7, <1>8, <1>9, <1>10, <1>11,
     <1>12, <1>14, <1>15, <1>16, <1>17 DEF Next, Step

\* With a table that retries no failure of an RRT attempt, like the shipped
\* one, every attempt counted as a fallback was paid for as one and no
\* attempt is counted as learned and as a fallback at once.
THEOREM FallbacksAreSeparate ==
    ASSUME RrtIsNeverRetried
    PROVE  Spec => [](FallbacksCountOnce /\ FallbackIsNotLearned)
<1>1. TypeInv /\ FallbackInv /\ [Next]_vars => FallbackInv'
  BY StepFallback
<1>2. Spec => []FallbackInv
  BY <1>1, InitType, InitFallback, StepType, PTL DEF Spec
<1>3. FallbackInv => FallbacksCountOnce /\ FallbackIsNotLearned
  BY DEF FallbackInv, FallbacksCountOnce, FallbackIsNotLearned, InRound
<1>4. QED
  BY <1>2, <1>3, PTL

-----------------------------------------------------------------------------
(* The MetaWorld runner.                                                   *)

\* What the runner and its helper hold.
Statuses == {"not reset", "none", "success", "cut"}
Sims == [step : Nat, status : Statuses]
MotorActions == {"none", "in range", "out of range", "nan"}
Lines == [index : Nat, observed : Sims, told : Int, action : MotorActions, outcome : Sims]
Locals == [snapshot : Sims, feedback : Nat, told : Int, queries : Nat,
           action : MotorActions, outcome : Sims, index : Nat, success : BOOLEAN]
Places == {"start", "spawn", "ready", "reset", "frame", "act", "step", "write", "leave",
           "summary", "dump", "over"}

HelperPlaces == {"gone", "starting", "reading", "working", "stuck"}
Commands == {"reset", "save_frame", "expert_action", "step", "close"}

\* The helper and the requests on their way to it.
BridgeTypes ==
    /\ helper \in [at : HelperPlaces, job : Commands \cup {"none"}, sim : Sims]
    /\ requests \in Seq(Commands)

\* The runner.
RunnerTypes ==
    /\ at \in Places /\ args \in Invocations /\ raised \in BOOLEAN
    /\ tasks \in Seq(KnownTasks)
    /\ local \in Locals
    /\ results \in Seq(Seq(BOOLEAN))
    /\ spawned \in Nat
    /\ files \in [Keys -> Seq(Lines)]

\* The environment the runner goes by.
Believed == IF at = "write" THEN local.outcome ELSE local.snapshot

\* A helper that has nothing to do has the environment the runner believes in.
Agrees(sim) == helper.at \in {"reading", "gone"} /\ (helper.at = "reading" => helper.sim = sim)

\* Nothing is under way on the pipes.
Quiet == asked = "none" /\ requests = <<>> /\ replies = <<>> /\ Agrees(Believed)

\* The constructor waits for the line of a helper that is being built.
Greeting ==
    /\ asked = "none" /\ requests = <<>>
    /\ \/ /\ replies = <<>> /\ helper.at \in {"starting", "stuck", "gone"}
          /\ helper.at = "starting" => helper.sim = NotReset
       \/ replies = <<Ok(NotReset)>> /\ Agrees(NotReset)
       \/ replies = <<Error>> /\ helper.at = "gone"

\* The request, the command or the reply is the one of this place, and the only one.
UnderWay ==
    /\ asked = Command[at] /\ (at = "act" => args.mode = "expert")
    /\ \/ requests = <<Command[at]>> /\ replies = <<>> /\ Agrees(local.snapshot)
       \/ /\ requests = <<>> /\ replies = <<>> /\ helper.at \in {"working", "stuck", "gone"}
          /\ helper.at = "working" => helper.job = Command[at] /\ helper.sim = local.snapshot
       \/ requests = <<>> /\ replies = <<Error>> /\ helper.at \in {"reading", "gone"}
       \/ /\ requests = <<>>
          /\ \E sim \in Performed(Command[at], local.snapshot) :
                replies = <<Ok(sim)>> /\ Agrees(sim)

\* In each place, what the two say to each other.
Protocol ==
    /\ at = "ready" => Greeting
    /\ at \in {"reset", "frame", "act", "step"} => Quiet \/ UnderWay
    /\ at = "write" => Quiet

InLoop == at \in {"frame", "act", "step", "write"}

\* The locals of the loop are all about the same step.
LoopInv ==
    /\ at \in {"ready", "reset"} => local = NoLocal
    /\ InLoop =>
         /\ local.snapshot.step = local.index
         /\ local.feedback = IF at = "write" THEN local.index + 1 ELSE local.index
         /\ ~local.success
    /\ at \in {"frame", "act"} => local.queries = 0 \/ local.told = Invalid
    /\ at \in {"step", "write"} =>
         /\ local.told \in {local.index, Invalid} \/ (local.told = 0 /\ args.mode # "llm")
         /\ local.queries = 0
    /\ at = "write" => local.outcome.step = local.index + 1

\* The file of the episode holds the steps made so far, none of which ended it.
FileInv ==
    InLoop /\ Episode \in Keys =>
        /\ Len(files[Episode]) = local.index /\ OneEpisode(files[Episode])
        /\ \A i \in DOMAIN files[Episode] : files[Episode][i].outcome.status = "none"

\* The inductive invariant of the records, and that of the summary, which rests on it.
RecordsInv == BridgeTypes /\ RunnerTypes /\ Protocol /\ LoopInv /\ FileInv /\ RecordsAreTheEpisode

Busy == at \notin {"start", "over"}

\* main() is in the last task begun, in an episode of it.
Progress ==
    /\ raised => at \in {"leave", "over"}
    /\ Busy => tasks # <<>> /\ IsInjective(tasks)
    /\ Busy /\ args.episodes = 0 =>
         at \in {"summary", "dump"} /\ results = [i \in DOMAIN tasks |-> <<>>]
    /\ Busy /\ args.episodes > 0 =>
         /\ Len(results) \in 1 .. Len(tasks)
         /\ \A i \in 1 .. Len(results) - 1 : Len(results[i]) = args.episodes
         /\ IF at \in {"summary", "dump"}
              THEN Len(results) = Len(tasks) /\ Len(results[Len(results)]) = args.episodes
              ELSE Len(results[Len(results)]) < args.episodes

\* A helper was started for every episode that is over, and for this one.
Helpers ==
    /\ at = "start" => spawned = 0
    /\ ~raised /\ Busy =>
         spawned = IF args.episodes = 0 THEN 0
                   ELSE (Len(results) - 1) * args.episodes + Len(results[Len(results)])
                          + (IF at \in {"spawn", "summary", "dump"} THEN 0 ELSE 1)

\* The results in memory are those the files tell of.
ResultsInv ==
    ~raised /\ Busy =>
      /\ \A i \in DOMAIN results : \A e \in DOMAIN results[i] :
           TrueTo(files[<<tasks[i], e>>], results[i][e])
      /\ at = "leave" => TrueTo(files[Episode], local.success)

Reported == (summary.by = "this run" => at = "over") /\ SummaryIsTheWholeRun

SummaryInv == Progress /\ Helpers /\ ResultsInv /\ Reported

-----------------------------------------------------------------------------
(* The operators of the runner.                                            *)

LEMMA NothingIsASim ==
    NotReset \in Sims /\ NoLocal.snapshot = NotReset /\ NoLocal \in Locals
<1>1. NotReset \in Sims
  BY DEF NotReset, Sims, Statuses
<1>2. QED BY <1>1 DEF NoLocal, Locals, MotorActions

LEMMA PerformedIsASim ==
    ASSUME NEW command, NEW sim \in Sims, NEW after \in Performed(command, sim)
    PROVE  after \in Sims
<1>1. CASE command = "reset"
  <2>1. after = [step |-> 0, status |-> "none"]
    BY <1>1 DEF Performed
  <2>2. QED BY <2>1 DEF Sims, Statuses
<1>2. CASE command = "step" /\ sim.status \in {"none", "success"}
  <2>1. PICK st \in {"none", "success", "cut"} : after = [step |-> sim.step + 1, status |-> st]
    BY <1>2 DEF Performed
  <2>2. sim.step + 1 \in Nat
    BY DEF Sims
  <2>3. QED BY <2>1, <2>2 DEF Sims, Statuses
<1>3. CASE command # "reset" /\ ~(command = "step" /\ sim.status \in {"none", "success"})
  <2>1. after = sim
    BY <1>3 DEF Performed
  <2>2. QED BY <2>1
<1>4. QED BY <1>1, <1>2, <1>3

\* The helper's own steps keep the types of the pipes.
LEMMA HelperTypes ==
    ASSUME BridgeTypes, Start \/ Take \/ Work \/ Orphaned \/ Chatter \/ Crash
    PROVE  BridgeTypes'
<1> USE NothingIsASim DEF BridgeTypes, HelperPlaces, Commands
<1>0. Gone \in [at : HelperPlaces, job : Commands \cup {"none"}, sim : Sims]
  BY DEF Gone
<1>1. CASE Start
  BY <1>0, <1>1 DEF Start
<1>2. CASE Take
  <2>1. Head(requests) \in Commands /\ Tail(requests) \in Seq(Commands)
    BY <1>2 DEF Take
  <2>2. QED BY <1>2, <2>1 DEF Take
<1>3. CASE Work
  <2>1. \A sim \in Performed(helper.job, helper.sim) : sim \in Sims
    BY PerformedIsASim
  <2>2. QED BY <1>0, <1>3, <2>1 DEF Work, Refuse
<1>4. CASE Orphaned
  BY <1>0, <1>4 DEF Orphaned
<1>5. CASE Chatter
  BY <1>5 DEF Chatter
<1>6. CASE Crash
  BY <1>0, <1>6 DEF Crash
<1>7. QED BY <1>1, <1>2, <1>3, <1>4, <1>5, <1>6

\* While the runner waits, the helper's own steps take the request towards its reply.
LEMMA HelperProtocol ==
    ASSUME BridgeTypes, RunnerTypes, Protocol, UNCHANGED runnerVars,
           Start \/ Take \/ Work \/ Chatter \/ Crash
    PROVE  Protocol'
<1> USE NothingIsASim
<1>a. /\ helper \in [at : HelperPlaces, job : Commands \cup {"none"}, sim : Sims]
      /\ at' = at /\ args' = args /\ local' = local /\ local.snapshot \in Sims
  BY DEF BridgeTypes, RunnerTypes, Locals, runnerVars
<1>g. Gone.at = "gone"
  BY DEF Gone
<1>1. ASSUME at = "ready" PROVE Greeting'
  <2>1. Greeting
    BY <1>1 DEF Protocol
  <2>2. CASE Start
    BY <1>a, <1>g, <2>1, <2>2 DEF Start, Greeting, Agrees, Written, Ok, Error
  <2>3. CASE Take \/ Work
    BY <1>a, <2>1, <2>3 DEF Take, Work, Greeting, Agrees
  <2>4. CASE Chatter
    BY <1>a, <2>1, <2>4 DEF Chatter, Greeting, Agrees
  <2>5. CASE Crash
    BY <1>a, <1>g, <2>1, <2>5 DEF Crash, Greeting, Agrees
  <2>6. QED BY <2>2, <2>3, <2>4, <2>5
<1>2. ASSUME Quiet PROVE Quiet'
  <2>1. CASE Start \/ Take \/ Work \/ Chatter
    BY <1>a, <1>2, <2>1 DEF Start, Take, Work, Chatter, Quiet, Agrees
  <2>2. CASE Crash
    BY <1>a, <1>g, <1>2, <2>2 DEF Crash, Quiet, Agrees
  <2>3. QED BY <2>1, <2>2
<1>3. ASSUME at \in {"reset", "frame", "act", "step"}, UnderWay PROVE UnderWay'
  <2>1. CASE Start
    BY <1>a, <1>3, <2>1 DEF Start, UnderWay, Agrees
  <2>2. CASE Take
    <3>1. /\ requests = <<Command[at]>> /\ replies = <<>> /\ helper.sim = local.snapshot
          /\ asked = Command[at] /\ (at = "act" => args.mode = "expert")
      BY <1>3, <2>2 DEF Take, UnderWay, Agrees
    <3>2. Head(requests) = Command[at] /\ Tail(requests) = <<>>
      BY <3>1
    <3>3. QED BY <1>a, <2>2, <3>1, <3>2 DEF Take, UnderWay, Agrees
  <2>3. CASE Work
    <3>1. /\ asked = Command[at] /\ requests = <<>> /\ replies = <<>>
          /\ helper.job = Command[at] /\ helper.sim = local.snapshot
          /\ asked' = asked /\ requests' = requests /\ (at = "act" => args.mode = "expert")
      BY <1>a, <1>3, <2>3 DEF Work, UnderWay, Agrees
    <3>2. Command[at] # "close"
      BY <1>3 DEF Command
    <3>3. CASE Refuse
      BY <1>a, <3>1, <3>3 DEF Refuse, Written, UnderWay, Agrees
    <3>4. ASSUME NEW sim \in Performed(helper.job, helper.sim),
                 helper' = [helper EXCEPT !.at = "reading", !.sim = sim], Written(Ok(sim))
          PROVE  UnderWay'
      <4>1. replies' = <<Ok(sim)>> /\ helper'.at = "reading" /\ helper'.sim = sim
        BY <1>a, <3>1, <3>4 DEF Written
      <4>2. sim \in Performed(Command[at'], local'.snapshot)
        BY <1>a, <3>1, <3>4
      <4>3. QED BY <1>a, <3>1, <4>1, <4>2 DEF UnderWay, Agrees
    <3>5. QED BY <2>3, <3>1, <3>2, <3>3, <3>4 DEF Work
  <2>4. CASE Chatter
    BY <1>a, <1>3, <2>4 DEF Chatter, UnderWay, Agrees
  <2>5. CASE Crash
    BY <1>a, <1>g, <1>3, <2>5 DEF Crash, UnderWay, Agrees
  <2>6. QED BY <2>1, <2>2, <2>3, <2>4, <2>5
<1>4. QED BY <1>a, <1>1, <1>2, <1>3 DEF Protocol

\* A reply that arrives is the one to this place's request, and the helper goes on from it.
LEMMA Replied ==
    ASSUME Protocol, NEW place \in {"reset", "frame", "act", "step"}, Answered(place)
    PROVE  /\ Data \in Performed(Command[place], local.snapshot)
           /\ asked' = "none" /\ requests' = <<>> /\ replies' = <<>>
           /\ helper' = helper /\ Agrees(Data)
<1>1. UnderWay /\ at = place
  BY DEF Protocol, Answered, Quiet
<1>2. PICK sim \in Performed(Command[at], local.snapshot) :
        replies = <<Ok(sim)>> /\ Agrees(sim) /\ requests = <<>>
  BY <1>1 DEF UnderWay, Answered, Receive, Error
<1>3. Data = sim /\ Tail(replies) = <<>>
  BY <1>2 DEF Data, Ok
<1>4. QED BY <1>1, <1>2, <1>3 DEF Answered, Receive

-----------------------------------------------------------------------------
(* The types.                                                              *)

LEMMA InitTypes == RunnerInit => BridgeTypes /\ RunnerTypes
<1> SUFFICES ASSUME RunnerInit PROVE BridgeTypes /\ RunnerTypes
  OBVIOUS
<1>1. BridgeTypes
  BY NothingIsASim DEF RunnerInit, BridgeInit, BridgeTypes, HelperPlaces, Commands, Gone
<1>2. EarlierRecord \in Lines
  BY NothingIsASim DEF EarlierRecord, Lines, MotorActions
<1>3. <<>> \in Seq(Lines) /\ <<EarlierRecord>> \in Seq(Lines)
  BY <1>2
<1>4. files \in [Keys -> Seq(Lines)]
  BY <1>3 DEF RunnerInit
<1>5. NoLocal \in Locals
  BY NothingIsASim
<1>6. <<>> \in Seq(KnownTasks) /\ <<>> \in Seq(Seq(BOOLEAN))
  OBVIOUS
<1>7. RunnerTypes
  BY <1>4, <1>5, <1>6 DEF RunnerInit, RunnerTypes, Places
<1>8. QED BY <1>1, <1>7

\* What main() goes on with keeps its types.
LEMMA NextEpisodeTypes ==
    ASSUME NEW done \in Seq(Seq(BOOLEAN)), tasks' \in Seq(KnownTasks), NextEpisode(done)
    PROVE  at' \in {"spawn", "summary"} /\ results' \in Seq(Seq(BOOLEAN))
<1>1. <<>> \in Seq(BOOLEAN)
  OBVIOUS
<1>2. Append(done, <<>>) \in Seq(Seq(BOOLEAN))
  BY <1>1
<1>3. [i \in DOMAIN tasks' |-> <<>>] \in Seq(Seq(BOOLEAN))
  <2>1. DOMAIN tasks' = 1 .. Len(tasks') /\ Len(tasks') \in Nat
    OBVIOUS
  <2>2. [i \in DOMAIN tasks' |-> <<>>] \in [1 .. Len(tasks') -> Seq(BOOLEAN)]
    BY <1>1, <2>1
  <2>3. QED BY <2>1, <2>2
<1>4. QED BY <1>2, <1>3 DEF NextEpisode

LEMMA ReplyIsASim ==
    ASSUME RunnerTypes, Protocol, NEW place \in {"reset", "frame", "act", "step"},
           Answered(place)
    PROVE  Data \in Sims
BY Replied, PerformedIsASim DEF RunnerTypes, Locals

\* A task is a known one: Begin refuses the others.
LEMMA BeginEffect ==
    ASSUME RunnerTypes, Begin
    PROVE  \/ at' = "over" /\ raised' = TRUE /\ tasks' = tasks /\ results' = results
           \/ /\ tasks' \in Seq(KnownTasks) /\ tasks' # <<>> /\ IsInjective(tasks')
              /\ NextEpisode(<<>>) /\ raised' = raised
<1>1. PICK found \in Resolved(args.spec) :
        IF found = <<>> \/ \E i \in DOMAIN found : found[i] \notin KnownTasks
          THEN at' = "over" /\ raised' = TRUE /\ UNCHANGED <<tasks, results>>
          ELSE tasks' = found /\ NextEpisode(<<>>) /\ UNCHANGED raised
  BY DEF Begin
<1>2. PICK n \in 0 .. Len(Mentions(args.spec)) :
        found \in [1 .. n -> Range(Mentions(args.spec))]
  BY DEF Resolved, BoundedSeq, SeqOf
<1>3. IsInjective(found)
  BY DEF Resolved
<1>4. CASE found # <<>> /\ \A i \in DOMAIN found : found[i] \in KnownTasks
  <2>1. n \in Nat /\ found \in [1 .. n -> KnownTasks]
    BY <1>2, <1>4
  <2>2. found \in Seq(KnownTasks)
    BY <2>1
  <2>3. QED BY <1>1, <1>3, <1>4, <2>2
<1>5. QED BY <1>1, <1>4

\* The actions of the runner that leave the pipes' types to the client's operations.
LEMMA ClientTypes ==
    ASSUME BridgeTypes,
           \/ Spawn \/ Receive \/ EndOfFile \/ Terminate \/ UNCHANGED bridgeVars
           \/ \E command \in Commands : Send(command)
    PROVE  BridgeTypes'
<1>1. CASE Spawn
  BY <1>1, NothingIsASim DEF Spawn, Spawned, Gone, BridgeTypes, HelperPlaces
<1>2. CASE Terminate
  BY <1>2, NothingIsASim DEF Terminate, Gone, BridgeTypes, HelperPlaces
<1>3. CASE Receive \/ EndOfFile \/ UNCHANGED bridgeVars
  BY <1>3 DEF Receive, EndOfFile, bridgeVars, BridgeTypes
<1>4. CASE \E command \in Commands : Send(command)
  BY <1>4 DEF Send, BridgeTypes
<1>5. QED BY <1>1, <1>2, <1>3, <1>4

LEMMA CommandIsOne == \A place \in DOMAIN Command : Command[place] \in Commands
BY DEF Command, Commands

\* Every step of the run keeps the pipes' types.
LEMMA StepBridgeTypes == ASSUME BridgeTypes, [RunnerNext]_runVars PROVE BridgeTypes'
<1>1. CASE UNCHANGED runVars
  BY <1>1, ClientTypes DEF runVars
<1>2. CASE Helper
  BY <1>2, HelperTypes DEF Helper
<1>3. CASE Fault
  BY <1>3, HelperTypes DEF Fault
<1>4. CASE Interrupt
  BY <1>4, ClientTypes DEF Interrupt
<1>5. CASE Begin \/ WriteSummary \/ SpawnHelper \/ AwaitReady
  BY <1>5, ClientTypes DEF Begin, WriteSummary, SpawnHelper, AwaitReady
<1>6. CASE Request
  BY <1>6, ClientTypes, CommandIsOne DEF Request
<1>7. CASE RequestFails
  BY <1>7, ClientTypes DEF RequestFails
<1>8. CASE ResetAnswered \/ FrameAnswered \/ ExpertAnswered \/ StepAnswered
  BY <1>8, ClientTypes DEF ResetAnswered, FrameAnswered, ExpertAnswered, StepAnswered, Answered
<1>9. CASE Manual \/ Query \/ QueryFails \/ Write
  BY <1>9, ClientTypes DEF Manual, Query, QueryFails, Write
<1>10. CASE CloseAsks
  BY <1>10, ClientTypes DEF CloseAsks, Commands
<1>11. CASE Close
  BY <1>11, ClientTypes DEF Close
<1>12. QED
  BY <1>1, <1>2, <1>3, <1>4, <1>5, <1>6, <1>7, <1>8, <1>9, <1>10, <1>11 DEF RunnerNext, Runner

\* Every step of the run keeps the runner's types.
LEMMA StepRunnerTypes ==
    ASSUME RunnerTypes, Protocol, [RunnerNext]_runVars
    PROVE  RunnerTypes'
<1> USE DEF RunnerTypes, Places
<1>1. CASE UNCHANGED runVars
  BY <1>1 DEF runVars, runnerVars
<1>2. CASE Helper \/ Fault
  BY <1>2 DEF Helper, Fault, runnerVars
<1>3. CASE Interrupt
  BY <1>3 DEF Interrupt
<1>4. CASE Begin
  <2>1. /\ UNCHANGED <<args, local, spawned, files>>
        /\ at' \in Places /\ raised' \in BOOLEAN
        /\ tasks' \in Seq(KnownTasks) /\ results' \in Seq(Seq(BOOLEAN))
    <3>1. <<>> \in Seq(Seq(BOOLEAN))
      OBVIOUS
    <3>2. QED BY <1>4, <3>1, BeginEffect, NextEpisodeTypes DEF Begin
  <2>2. QED BY <2>1
<1>5. CASE WriteSummary \/ AwaitReady
  BY <1>5 DEF WriteSummary, AwaitReady
<1>6. CASE SpawnHelper
  BY <1>6, NothingIsASim DEF SpawnHelper
<1>7. CASE Request \/ RequestFails \/ QueryFails
  BY <1>7 DEF Request, RequestFails, QueryFails, Raise, runnerVars
<1>8. CASE ResetAnswered
  <2>1. Data \in Sims
    BY <1>8, ReplyIsASim DEF ResetAnswered
  <2>2. <<>> \in Seq(Lines)
    OBVIOUS
  <2>3. files' \in [Keys -> Seq(Lines)]
    BY <1>8, <2>2 DEF ResetAnswered, Opened
  <2>4. at' \in Places
    BY <1>8 DEF ResetAnswered, Turn
  <2>5. QED BY <1>8, <2>1, <2>3, <2>4 DEF ResetAnswered, Locals
<1>9. CASE FrameAnswered
  BY <1>9 DEF FrameAnswered
<1>10. ASSUME NEW a \in MotorActions, Decided(a) PROVE RunnerTypes'
  <2>1. local \in Locals /\ a \in MotorActions /\ 0 \in Int /\ 0 \in Nat
    OBVIOUS
  <2>2. [local EXCEPT !.action = a, !.told = 0, !.queries = 0] \in Locals
    BY ONLY <2>1 DEF Locals
  <2>3. QED BY <1>10, <2>2 DEF Decided
<1>11. CASE ExpertAnswered
  BY <1>10, <1>11 DEF ExpertAnswered, MotorActions
<1>p. \A r : Parse(r).action \in MotorActions
  BY DEF Parse, MotorActions
<1>12. CASE Manual
  BY <1>p, <1>10, <1>12 DEF Manual, Raise
<1>13. CASE Query
  <2>1. Told \in Int /\ Invalid \in Int /\ local.queries + 1 \in Nat
    BY DEF Told, Invalid, Locals
  <2>2. \A a \in MotorActions :
           [local EXCEPT !.action = a, !.queries = 0, !.told = Told] \in Locals
    BY <2>1 DEF Locals
  <2>3. [local EXCEPT !.queries = @ + 1, !.told = Invalid] \in Locals
    BY <2>1 DEF Locals
  <2>4. QED BY <1>p, <1>13, <2>2, <2>3 DEF Query, Raise
<1>14. CASE StepAnswered
  <2>1. Data \in Sims /\ Data.step \in Nat
    BY <1>14, ReplyIsASim DEF StepAnswered, Sims
  <2>2. QED BY <1>14, <2>1 DEF StepAnswered, Locals
<1>15. CASE Write
  <2>1. StepRecord \in Lines
    BY DEF StepRecord, Lines, Locals
  <2>2. \A k \in Keys : Append(files[k], StepRecord) \in Seq(Lines)
    BY <2>1
  <2>3. files' \in [Keys -> Seq(Lines)]
    BY <1>15, <2>2 DEF Write
  <2>4. at' \in Places /\ local' \in Locals
    <3>1. CASE local.outcome.status # "none"
      BY <1>15, <3>1 DEF Write, Locals
    <3>2. CASE local.outcome.status = "none"
      <4>1. at' \in Places
        BY <1>15, <3>2 DEF Write, Turn
      <4>2. local' = [local EXCEPT !.index = @ + 1, !.snapshot = local.outcome,
                                   !.outcome = NotReset]
        BY <1>15, <3>2 DEF Write, Advance
      <4>3. local.index + 1 \in Nat /\ local.outcome \in Sims
        BY DEF Locals
      <4>4. local' \in Locals
        BY ONLY <4>2, <4>3, NothingIsASim, local \in Locals DEF Locals
      <4>5. QED BY <4>1, <4>4
    <3>3. QED BY <3>1, <3>2
  <2>5. QED BY <1>15, <2>3, <2>4 DEF Write
<1>16. CASE CloseAsks
  BY <1>16 DEF CloseAsks, runnerVars
<1>17. CASE Close
  <2>1. local' = NoLocal /\ UNCHANGED <<args, tasks, raised, spawned, files>>
    BY <1>17 DEF Close, Left
  <2>2. at' \in Places /\ results' \in Seq(Seq(BOOLEAN))
    <3>1. CASE raised
      BY <1>17, <3>1 DEF Close, Left
    <3>2. CASE ~raised
      <4> DEFINE done == [results EXCEPT ![Len(results)] = Append(@, local.success)]
      <4>1. done \in Seq(Seq(BOOLEAN))
        <5>1. \A i \in 1 .. Len(results) : Append(results[i], local.success) \in Seq(BOOLEAN)
          BY DEF Locals
        <5>2. results \in [1 .. Len(results) -> Seq(BOOLEAN)] /\ Len(results) \in Nat
          OBVIOUS
        <5>3. done \in [1 .. Len(results) -> Seq(BOOLEAN)]
          BY <5>1, <5>2
        <5>4. QED BY <5>2, <5>3
      <4>2. NextEpisode(done)
        BY <1>17, <3>2 DEF Close, Left
      <4> HIDE DEF done
      <4>3. QED BY <2>1, <4>1, <4>2, NextEpisodeTypes
    <3>3. QED BY <3>1, <3>2
  <2>3. QED BY <2>1, <2>2, NothingIsASim
<1>18. QED
  BY <1>1, <1>2, <1>3, <1>4, <1>5, <1>6, <1>7, <1>8, <1>9, <1>11, <1>12, <1>13, <1>14,
     <1>15, <1>16, <1>17 DEF RunnerNext, Runner

-----------------------------------------------------------------------------
(* One request, one reply.                                                 *)

TalkingPlaces == {"ready", "reset", "frame", "act", "step", "write"}

LEMMA ElsewhereNothingIsExpected == at' \notin TalkingPlaces => Protocol'
BY DEF Protocol, TalkingPlaces

LEMMA SpawnedGreets ==
    ASSUME SpawnHelper PROVE Protocol'
<1>1. Spawned.at = "starting" /\ Spawned.sim = NotReset
  BY DEF Spawned, Gone
<1>2. Greeting'
  BY <1>1 DEF SpawnHelper, Spawn, Greeting
<1>3. QED BY <1>2 DEF SpawnHelper, Protocol

\* The helper has greeted, with an environment that was not reset.
LEMMA GreetedIsQuiet ==
    ASSUME Protocol, LoopInv, AwaitReady PROVE Protocol'
<1>1. CASE at' = "over"
  BY <1>1, ElsewhereNothingIsExpected DEF TalkingPlaces
<1>2. CASE Receive /\ Head(replies).ok /\ at' = "reset"
  <2>1. Greeting /\ at = "ready" /\ local = NoLocal /\ local' = local
    BY <1>2 DEF AwaitReady, Protocol, LoopInv
  <2>2. replies = <<Ok(NotReset)>> /\ Agrees(NotReset) /\ requests = <<>>
    BY <1>2, <2>1 DEF Greeting, Receive, Error
  <2>3. replies' = <<>> /\ asked' = "none" /\ requests' = <<>> /\ helper' = helper
    BY <1>2, <2>2 DEF Receive
  <2>4. Believed' = NotReset
    BY <1>2, <2>1, NothingIsASim DEF Believed
  <2>5. Quiet'
    BY <2>2, <2>3, <2>4 DEF Quiet, Agrees
  <2>6. QED BY <1>2, <2>5 DEF Protocol
<1>3. QED BY <1>1, <1>2 DEF AwaitReady

LEMMA RequestIsUnderWay ==
    ASSUME Protocol, Request PROVE Protocol'
<1>1. CASE at' = "leave"
  BY <1>1, ElsewhereNothingIsExpected DEF TalkingPlaces
<1>2. CASE Send(Command[at]) /\ UNCHANGED runnerVars
  <2>1. /\ at \in {"reset", "frame", "act", "step"} /\ asked = "none"
        /\ (at = "act" => args.mode = "expert")
        /\ at' = at /\ args' = args /\ local' = local
    BY <1>2 DEF Request, Command, runnerVars
  <2>2. Quiet
    <3>1. Command[at] # "none"
      BY <2>1 DEF Command
    <3>2. QED BY <2>1, <3>1 DEF Protocol, UnderWay
  <2>3. requests' = <<Command[at]>> /\ asked' = Command[at] /\ replies' = <<>> /\ helper' = helper
    BY <1>2, <2>2 DEF Send, Quiet
  <2>4. Believed = local.snapshot
    BY <2>1 DEF Believed
  <2>5. UnderWay'
    BY <2>1, <2>2, <2>3, <2>4 DEF UnderWay, Quiet, Agrees
  <2>6. QED BY <2>1, <2>5 DEF Protocol
<1>3. QED BY <1>1, <1>2 DEF Request, Raise

\* What the reply says is what the runner goes by from now on.
LEMMA AnswerIsBelieved ==
    ASSUME BridgeTypes, RunnerTypes, Protocol, LoopInv,
           ResetAnswered \/ FrameAnswered \/ ExpertAnswered \/ StepAnswered
    PROVE  Protocol'
<1> USE DEF TalkingPlaces
<1>0. ASSUME NEW place \in {"reset", "frame", "act", "step"}, Answered(place),
             at' \in {"leave", "frame", "act", "step", "write"}, Believed' = Data
      PROVE  Protocol'
  <2>1. /\ asked' = "none" /\ requests' = <<>> /\ replies' = <<>>
        /\ helper' = helper /\ Agrees(Data)
    BY <1>0, Replied
  <2>2. CASE at' = "leave"
    BY <2>2, ElsewhereNothingIsExpected
  <2>3. CASE at' # "leave"
    <3>1. Quiet'
      BY <1>0, <2>1 DEF Quiet, Agrees
    <3>2. QED BY <1>0, <2>3, <3>1 DEF Protocol
  <2>4. QED BY <2>2, <2>3
<1>l. local \in Locals
  BY DEF RunnerTypes
<1>1. CASE ResetAnswered
  <2>1. local' = [local EXCEPT !.snapshot = Data]
    BY <1>1 DEF ResetAnswered
  <2>2. Answered("reset") /\ at' \in {"leave", "frame", "act"}
    BY <1>1 DEF ResetAnswered, Turn
  <2>3. Believed' = Data
    BY <1>l, <2>1, <2>2 DEF Believed, Locals
  <2>4. QED BY <1>0, <2>2, <2>3
<1>2. CASE FrameAnswered
  <2>1. Answered("frame") /\ at' = "act" /\ local' = local
    BY <1>2 DEF FrameAnswered
  <2>2. Data = local.snapshot
    BY <2>1, Replied DEF Performed, Command
  <2>3. Believed' = Data
    BY <2>1, <2>2 DEF Believed
  <2>4. QED BY <1>0, <2>1, <2>3
<1>3. CASE ExpertAnswered
  <2>1. Answered("act") /\ at' = "step"
    BY <1>3 DEF ExpertAnswered, Decided
  <2>2. local'.snapshot = local.snapshot
    BY <1>3, <1>l DEF ExpertAnswered, Decided, Locals
  <2>3. Data = local.snapshot
    BY <2>1, Replied DEF Performed, Command
  <2>4. Believed' = Data
    BY <2>1, <2>2, <2>3 DEF Believed
  <2>5. QED BY <1>0, <2>1, <2>4
<1>4. CASE StepAnswered
  <2>1. /\ Answered("step") /\ at' = "write"
        /\ local' = [local EXCEPT !.outcome = Data, !.feedback = Data.step]
    BY <1>4 DEF StepAnswered
  <2>2. Believed' = Data
    BY <1>l, <2>1 DEF Believed, Locals
  <2>3. QED BY <1>0, <2>1, <2>2
<1>5. QED BY <1>1, <1>2, <1>3, <1>4

\* Deciding by hand or by a model, and writing the line, leave the helper alone.
LEMMA DecisionIsQuiet ==
    ASSUME RunnerTypes, Protocol, Manual \/ Query \/ QueryFails \/ Write
    PROVE  Protocol'
<1> USE DEF TalkingPlaces
<1>l. local \in Locals
  BY DEF RunnerTypes
<1>0. ASSUME Quiet, EndOfFile, at' \in {"leave", "frame", "act", "step"}, Believed' = Believed
      PROVE  Protocol'
  <2>1. CASE at' = "leave"
    BY <2>1, ElsewhereNothingIsExpected
  <2>2. CASE at' # "leave"
    BY <1>0, <2>2 DEF Quiet, EndOfFile, Agrees, Protocol
  <2>3. QED BY <2>1, <2>2
<1>1. ASSUME at = "act", args.mode # "expert" PROVE Quiet
  BY <1>1 DEF Protocol, UnderWay
<1>2. CASE at' = "leave"
  BY <1>2, ElsewhereNothingIsExpected
<1>3. CASE Manual /\ at' # "leave"
  <2>1. at = "act" /\ Quiet /\ EndOfFile /\ \E a : Decided(a)
    BY <1>1, <1>3 DEF Manual, Raise
  <2>2. at' = "step" /\ local'.snapshot = local.snapshot
    BY <1>l, <2>1 DEF Decided, Locals
  <2>3. QED BY <1>0, <2>1, <2>2 DEF Believed
<1>4. CASE Query /\ at' # "leave"
  <2>1. at = "act" /\ Quiet /\ EndOfFile
    BY <1>1, <1>4 DEF Query
  <2>2. at' \in {"act", "step"} /\ local'.snapshot = local.snapshot
    BY <1>l, <1>4 DEF Query, Locals, Raise
  <2>3. QED BY <1>0, <2>1, <2>2 DEF Believed
<1>5. CASE Write /\ at' # "leave"
  <2>1. at = "write" /\ Quiet /\ EndOfFile /\ Advance /\ Turn(local.index + 1)
    BY <1>5 DEF Write, Protocol
  <2>2. at' \in {"frame", "act"} /\ local'.snapshot = local.outcome
    BY <1>l, <1>5, <2>1 DEF Turn, Advance, Locals
  <2>3. QED BY <1>0, <2>1, <2>2 DEF Believed
<1>6. QED BY <1>2, <1>3, <1>4, <1>5 DEF QueryFails, Raise

LEMMA InitProtocol == RunnerInit => Protocol
BY DEF RunnerInit, Protocol

LEMMA StepProtocol ==
    ASSUME BridgeTypes, RunnerTypes, Protocol, LoopInv, [RunnerNext]_runVars
    PROVE  Protocol'
<1> USE DEF TalkingPlaces
<1>1. CASE UNCHANGED runVars
  BY <1>1 DEF runVars, bridgeVars, runnerVars, Protocol, Greeting, Quiet, UnderWay, Agrees, Believed
<1>2. CASE Helper
  <2>1. CASE at = "over"
    BY <1>2, <2>1, ElsewhereNothingIsExpected DEF Helper, runnerVars
  <2>2. CASE at # "over"
    BY <1>2, <2>2, HelperProtocol DEF Helper
  <2>3. QED BY <2>1, <2>2
<1>3. CASE Fault
  BY <1>3, HelperProtocol DEF Fault
<1>5. CASE Interrupt
  BY <1>5, ElsewhereNothingIsExpected DEF Interrupt
<1>6. CASE Begin
  <2>1. CASE at' = "over"
    BY <2>1, ElsewhereNothingIsExpected
  <2>2. CASE at' # "over"
    <3>1. NextEpisode(<<>>)
      BY <1>6, <2>2, BeginEffect
    <3>2. QED BY <3>1, ElsewhereNothingIsExpected DEF NextEpisode
  <2>3. QED BY <2>1, <2>2
<1>7. CASE WriteSummary
  BY <1>7, ElsewhereNothingIsExpected DEF WriteSummary
<1>8. CASE SpawnHelper
  BY <1>8, SpawnedGreets
<1>9. CASE AwaitReady
  BY <1>9, GreetedIsQuiet
<1>10. CASE Request
  BY <1>10, RequestIsUnderWay
<1>11. CASE RequestFails
  BY <1>11, ElsewhereNothingIsExpected DEF RequestFails, Raise
<1>12. CASE ResetAnswered \/ FrameAnswered \/ ExpertAnswered \/ StepAnswered
  BY <1>12, AnswerIsBelieved
<1>13. CASE Manual \/ Query \/ QueryFails \/ Write
  BY <1>13, DecisionIsQuiet
<1>14. CASE CloseAsks
  BY <1>14, ElsewhereNothingIsExpected DEF CloseAsks, runnerVars
<1>15. CASE Close
  BY <1>15, ElsewhereNothingIsExpected DEF Close, Left, NextEpisode
<1>16. QED
  BY <1>1, <1>2, <1>3, <1>5, <1>6, <1>7, <1>8, <1>9, <1>10, <1>11, <1>12, <1>13, <1>14,
     <1>15 DEF RunnerNext, Runner

-----------------------------------------------------------------------------
(* The locals of the loop.                                                 *)

LoopPlaces == {"ready", "reset", "frame", "act", "step", "write"}

LEMMA ElsewhereNoLoop == at' \notin LoopPlaces => LoopInv' /\ FileInv'
BY DEF LoopInv, FileInv, InLoop, LoopPlaces

LEMMA ResetComesTo ==
    ASSUME Protocol, Answered("reset") PROVE Data = [step |-> 0, status |-> "none"]
BY Replied DEF Performed, Command

LEMMA StepComesTo ==
    ASSUME Protocol, Answered("step") PROVE Data.step = local.snapshot.step + 1
<1>1. Data \in Performed("step", local.snapshot)
  BY Replied DEF Command
<1>2. PICK st \in {"none", "success", "cut"} :
        Data = [step |-> local.snapshot.step + 1, status |-> st]
  BY <1>1 DEF Performed
<1>3. QED BY <1>2

LEMMA InitLoop == RunnerInit => LoopInv /\ FileInv
BY DEF RunnerInit, LoopInv, FileInv, InLoop

LEMMA StepLoop ==
    ASSUME RunnerTypes, Protocol, LoopInv, [RunnerNext]_runVars
    PROVE  LoopInv'
<1> USE DEF LoopPlaces
<1>l. local \in Locals /\ local.index \in Nat
  BY DEF RunnerTypes, Locals
<1>1. CASE UNCHANGED runnerVars
  BY <1>1 DEF runnerVars, LoopInv, InLoop
<1>2. CASE at' \notin LoopPlaces
  BY <1>2, ElsewhereNoLoop
<1>3. CASE SpawnHelper
  BY <1>3 DEF SpawnHelper, LoopInv, InLoop
<1>4. CASE AwaitReady
  BY <1>4, <1>2 DEF AwaitReady, LoopInv, InLoop
<1>5. CASE ResetAnswered
  <2>1. local' = [local EXCEPT !.snapshot = Data] /\ local = NoLocal /\ args' = args
    BY <1>5 DEF ResetAnswered, Answered, LoopInv
  <2>2. Data.step = 0
    BY <1>5, ResetComesTo DEF ResetAnswered
  <2>3. /\ local'.snapshot.step = 0 /\ local'.index = 0 /\ local'.feedback = 0
        /\ local'.queries = 0 /\ ~local'.success
    BY <2>1, <2>2 DEF NoLocal
  <2>4. at' \in {"leave", "frame", "act"}
    BY <1>5 DEF ResetAnswered, Turn
  <2>5. QED BY <2>3, <2>4 DEF LoopInv, InLoop
<1>6. CASE FrameAnswered
  BY <1>6 DEF FrameAnswered, Answered, LoopInv, InLoop
<1>7. ASSUME NEW a, Decided(a), at = "act", args.mode # "llm" PROVE LoopInv'
  <2>1. /\ local'.snapshot = local.snapshot /\ local'.index = local.index
        /\ local'.feedback = local.feedback /\ local'.told = 0 /\ local'.queries = 0
        /\ local'.success = local.success
    BY <1>l, <1>7 DEF Decided, Locals
  <2>2. at' = "step" /\ args' = args
    BY <1>7 DEF Decided
  <2>3. QED BY <1>7, <2>1, <2>2 DEF LoopInv, InLoop
<1>8. CASE ExpertAnswered
  <2>1. args.mode = "expert" /\ at = "act"
    BY <1>8 DEF ExpertAnswered, Answered, Protocol, Quiet, UnderWay
  <2>2. QED BY <1>7, <1>8, <2>1 DEF ExpertAnswered
<1>9. CASE Manual
  BY <1>2, <1>7, <1>9 DEF Manual, Raise
<1>10. CASE Query
  <2>1. at = "act" /\ args' = args
    BY <1>10 DEF Query, Raise
  <2>2. Told \in {local.index, Invalid}
    BY <2>1 DEF Told, LoopInv, InLoop
  <2>3. CASE at' = "step"
    <3>1. /\ local'.snapshot = local.snapshot /\ local'.index = local.index
          /\ local'.feedback = local.feedback /\ local'.told = Told /\ local'.queries = 0
          /\ local'.success = local.success
      BY <1>l, <1>10, <2>1, <2>3 DEF Query, Locals, Raise
    <3>2. QED BY <2>1, <2>2, <2>3, <3>1 DEF LoopInv, InLoop
  <2>4. CASE at' = "act"
    <3>1. /\ local'.snapshot = local.snapshot /\ local'.index = local.index
          /\ local'.feedback = local.feedback /\ local'.told = Invalid
          /\ local'.success = local.success
      BY <1>l, <1>10, <2>1, <2>4 DEF Query, Locals, Raise
    <3>2. QED BY <2>1, <2>4, <3>1 DEF LoopInv, InLoop
  <2>5. at' \in {"step", "act", "leave"}
    BY <1>10, <2>1 DEF Query, Raise
  <2>6. QED BY <1>2, <2>3, <2>4, <2>5
<1>11. CASE StepAnswered
  <2>1. /\ local' = [local EXCEPT !.outcome = Data, !.feedback = Data.step]
        /\ at = "step" /\ at' = "write" /\ args' = args
    BY <1>11 DEF StepAnswered, Answered
  <2>2. Data.step = local.index + 1
    BY <1>11, <2>1, StepComesTo DEF StepAnswered, LoopInv, InLoop
  <2>3. /\ local'.snapshot = local.snapshot /\ local'.index = local.index
        /\ local'.feedback = local.index + 1 /\ local'.told = local.told
        /\ local'.queries = local.queries
        /\ local'.success = local.success /\ local'.outcome.step = local.index + 1
    BY <1>l, <2>1, <2>2 DEF Locals
  <2>4. QED BY <2>1, <2>3 DEF LoopInv, InLoop
<1>12. CASE Write /\ at' # "leave"
  <2>1. at = "write" /\ Advance /\ at' \in {"frame", "act"} /\ args' = args
    BY <1>12 DEF Write, Turn
  <2>2. /\ local'.snapshot = local.outcome /\ local'.index = local.index + 1
        /\ local'.feedback = local.feedback /\ local'.told = local.told
        /\ local'.success = local.success /\ local'.queries = local.queries
    BY <1>l, <2>1 DEF Advance, Locals
  <2>3. QED BY <2>1, <2>2 DEF LoopInv, InLoop
<1>13. QED
  <2>1. CASE Helper \/ Fault \/ CloseAsks
    BY <1>1, <2>1 DEF Helper, Fault, CloseAsks
  <2>2. CASE Interrupt \/ WriteSummary \/ RequestFails \/ QueryFails
    BY <1>2, <2>2 DEF Interrupt, WriteSummary, RequestFails, QueryFails, Raise
  <2>3. CASE Begin
    BY <1>2, <2>3, BeginEffect DEF NextEpisode
  <2>4. CASE Close
    BY <1>2, <2>4 DEF Close, Left, NextEpisode
  <2>5. CASE Request
    BY <1>1, <1>2, <2>5 DEF Request, Raise
  <2>6. CASE Write
    BY <1>2, <1>12, <2>6
  <2>7. CASE UNCHANGED runVars
    BY <1>1, <2>7 DEF runVars
  <2>8. QED
    BY <1>3, <1>4, <1>5, <1>6, <1>8, <1>9, <1>10, <1>11, <2>1, <2>2, <2>3, <2>4, <2>5, <2>6,
       <2>7 DEF RunnerNext, Runner

-----------------------------------------------------------------------------
(* The lines.                                                              *)

\* A line that goes on from where the lines stand makes them one line longer.
LEMMA LinesGoOn ==
    ASSUME NEW lines \in Seq(Lines), OneEpisode(lines),
           \A i \in DOMAIN lines : lines[i].outcome.status = "none",
           NEW r \in Lines, r.index = Len(lines), r.observed.step = Len(lines),
           r.outcome.step = Len(lines) + 1,
           r.told \in {Len(lines), Invalid} \/ (r.told = 0 /\ args.mode # "llm")
    PROVE  /\ OneEpisode(Append(lines, r)) /\ Len(Append(lines, r)) = Len(lines) + 1
           /\ r.outcome.status = "none" =>
                \A i \in DOMAIN Append(lines, r) : Append(lines, r)[i].outcome.status = "none"
<1> DEFINE longer == Append(lines, r)
<1>1. /\ Len(longer) = Len(lines) + 1 /\ DOMAIN longer = 1 .. Len(lines) + 1
      /\ Len(lines) \in Nat /\ DOMAIN lines = 1 .. Len(lines)
      /\ longer[Len(lines) + 1] = r
      /\ \A i \in 1 .. Len(lines) : longer[i] = lines[i]
  OBVIOUS
<1> HIDE DEF longer
<1>2. ASSUME NEW i \in 1 .. Len(lines)
      PROVE  /\ longer[i].index = i - 1 /\ longer[i].observed.step = i - 1
             /\ longer[i].outcome.step = i /\ longer[i].outcome.status = "none"
             /\ longer[i].told \in {i - 1, Invalid} \/ (longer[i].told = 0 /\ args.mode # "llm")
  BY <1>1 DEF OneEpisode
<1>3. \A i \in DOMAIN longer : i \in 1 .. Len(lines) \/ i = Len(lines) + 1
  BY <1>1
<1>4. (Len(lines) + 1) - 1 = Len(lines)
  BY <1>1
<1>5. OneEpisode(longer)
  BY <1>1, <1>2, <1>3, <1>4 DEF OneEpisode
<1>6. r.outcome.status = "none" => \A i \in DOMAIN longer : longer[i].outcome.status = "none"
  BY <1>1, <1>2, <1>3
<1>7. QED BY <1>1, <1>5, <1>6 DEF longer

\* The line that is written goes on from where the lines of the episode stand.
LEMMA WriteGoesOn ==
    ASSUME RunnerTypes, LoopInv, FileInv, Write, Episode \in Keys
    PROVE  /\ OneEpisode(files'[Episode]) /\ Len(files'[Episode]) = local.index + 1
           /\ files'[Episode] = Append(files[Episode], StepRecord)
           /\ files[Episode] \in Seq(Lines)
           /\ local.outcome.status = "none" =>
                \A i \in DOMAIN files'[Episode] : files'[Episode][i].outcome.status = "none"
<1>1. /\ at = "write" /\ InLoop /\ files[Episode] \in Seq(Lines)
      /\ files'[Episode] = Append(files[Episode], StepRecord)
  BY DEF Write, InLoop, RunnerTypes
<1>2. /\ Len(files[Episode]) = local.index /\ OneEpisode(files[Episode])
      /\ \A i \in DOMAIN files[Episode] : files[Episode][i].outcome.status = "none"
  BY <1>1 DEF FileInv
<1>3. /\ StepRecord \in Lines /\ StepRecord.index = local.index
      /\ StepRecord.observed.step = local.index /\ StepRecord.outcome.step = local.index + 1
      /\ StepRecord.told \in {local.index, Invalid} \/ (StepRecord.told = 0 /\ args.mode # "llm")
      /\ StepRecord.outcome.status = local.outcome.status
  BY <1>1 DEF StepRecord, Lines, RunnerTypes, Locals, LoopInv
<1>4. QED BY <1>1, <1>2, <1>3, LinesGoOn

LEMMA InitRecords == RunnerInit => RecordsAreTheEpisode
<1>1. Range(<<EarlierRecord>>) = {EarlierRecord}
  BY DEF Range
<1>2. OneEpisode(<<>>)
  BY DEF OneEpisode
<1>3. QED BY <1>1, <1>2 DEF RunnerInit, RecordsAreTheEpisode

\* The arguments stay, and so does what is said of lines under them.
LEMMA SameArguments ==
    ASSUME [RunnerNext]_runVars
    PROVE  args' = args /\ \A lines : OneEpisode(lines)' <=> OneEpisode(lines)
<1>1. args' = args
  BY DEF RunnerNext, Runner, Helper, Fault, Interrupt, Begin, WriteSummary, SpawnHelper,
     AwaitReady, Request, RequestFails, Raise, ResetAnswered, FrameAnswered, ExpertAnswered,
     Decided, Manual, Query, QueryFails, StepAnswered, Write, CloseAsks, Close, Left,
     runVars, runnerVars
<1>2. QED BY <1>1 DEF OneEpisode

\* Only the opening of an episode's file and the writing of a line touch the files.
LEMMA FilesStay ==
    ASSUME [RunnerNext]_runVars, ~ResetAnswered, ~Write PROVE files' = files
BY DEF RunnerNext, Runner, Helper, Fault, Interrupt, Begin, WriteSummary, SpawnHelper,
   AwaitReady, Request, RequestFails, Raise, FrameAnswered, ExpertAnswered,
   Decided, Manual, Query, QueryFails, StepAnswered, CloseAsks, Close, Left,
   runVars, runnerVars

\* Within the loop the episode is the same one.
LEMMA SameEpisode ==
    ASSUME [RunnerNext]_runVars, at' \in {"frame", "act", "step", "write"}
    PROVE  /\ Episode' = Episode /\ tasks' = tasks /\ results' = results
           /\ InLoop \/ ResetAnswered
<1>1. ASSUME Begin \/ Close PROVE FALSE
  <2>1. CASE Begin
    <3>1. at' \in {"over", "spawn", "summary"}
      BY <2>1 DEF Begin, NextEpisode
    <3>2. QED BY <3>1
  <2>2. CASE Close
    BY <2>2 DEF Close, Left, NextEpisode
  <2>3. QED BY <1>1, <2>1, <2>2
<1>2. tasks' = tasks /\ results' = results /\ (InLoop \/ ResetAnswered)
  BY <1>1 DEF RunnerNext, Runner, Helper, Fault, Interrupt, WriteSummary, SpawnHelper,
     AwaitReady, Request, RequestFails, Raise, ResetAnswered, FrameAnswered, ExpertAnswered,
     Decided, Manual, Query, QueryFails, StepAnswered, Write, CloseAsks, InLoop, Answered,
     runVars, runnerVars
<1>3. QED BY <1>2 DEF Episode, Task

\* Where no line is written, the number of the iteration stays.
LEMMA SameIteration ==
    ASSUME RunnerTypes, [RunnerNext]_runVars, InLoop, at' \in {"frame", "act", "step", "write"},
           ~Write, ~ResetAnswered
    PROVE  local'.index = local.index
<1>l. local \in Locals
  BY DEF RunnerTypes
<1>1. CASE UNCHANGED runnerVars
  BY <1>1 DEF runnerVars
<1>2. ASSUME NEW a, Decided(a) PROVE local'.index = local.index
  BY <1>l, <1>2 DEF Decided, Locals
<1>3. CASE Query
  BY <1>l, <1>3 DEF Query, Locals, Raise
<1>4. CASE StepAnswered
  BY <1>l, <1>4 DEF StepAnswered, Locals
<1>5. CASE Begin \/ Close
  <2>1. at' \in {"over", "spawn", "summary"}
    BY <1>5 DEF Begin, Close, Left, NextEpisode
  <2>2. QED BY <2>1
<1>6. QED
  BY <1>1, <1>2, <1>3, <1>4, <1>5
  DEF RunnerNext, Runner, Helper, Fault, Interrupt, WriteSummary, SpawnHelper,
     AwaitReady, Request, RequestFails, Raise, FrameAnswered, ExpertAnswered,
     Manual, QueryFails, CloseAsks, runVars, InLoop

LEMMA StepFile ==
    ASSUME RunnerTypes, LoopInv, FileInv, RecordsAreTheEpisode, [RunnerNext]_runVars
    PROVE  FileInv' /\ RecordsAreTheEpisode'
<1>f. files \in [Keys -> Seq(Lines)]
  BY DEF RunnerTypes
<1>k. Keys' = Keys /\ EarlierRecord' = EarlierRecord
  BY DEF Keys, EarlierRecord
<1>1. CASE ResetAnswered
  <2>1. files' = [files EXCEPT ![Episode] = <<>>] /\ Episode' = Episode
    BY <1>1 DEF ResetAnswered, Opened, Episode, Task
  <2>2. OneEpisode(<<>>) /\ Len(<<>>) = 0 /\ DOMAIN <<>> = {}
    BY DEF OneEpisode
  <2>3. local'.index = 0
    BY <1>1 DEF ResetAnswered, Answered, LoopInv, NoLocal
  <2>4. FileInv'
    BY <1>f, <1>k, <2>1, <2>2, <2>3, SameArguments DEF FileInv
  <2>5. RecordsAreTheEpisode'
    <3>1. ASSUME NEW k \in Keys
          PROVE  EarlierRecord \in Range(files'[k]) \/ OneEpisode(files'[k])
      BY <1>f, <2>1, <2>2 DEF RecordsAreTheEpisode
    <3>2. QED BY <1>k, <3>1, SameArguments DEF RecordsAreTheEpisode
  <2>6. QED BY <2>4, <2>5
<1>2. CASE Write
  <2>1. files' = [files EXCEPT ![Episode] = Append(@, StepRecord)] /\ Episode' = Episode
    BY <1>2 DEF Write, Episode, Task
  <2>2. ASSUME Episode \in Keys, at' # "leave"
        PROVE  local.outcome.status = "none" /\ local'.index = local.index + 1
    BY <1>2, <2>2 DEF Write, Advance, RunnerTypes, Locals
  <2>3. FileInv'
    <3>1. CASE Episode \in Keys /\ at' # "leave"
      BY <1>2, <1>k, <2>1, <2>2, <3>1, SameArguments, WriteGoesOn DEF FileInv
    <3>2. CASE Episode \notin Keys \/ at' = "leave"
      BY <1>k, <2>1, <3>2 DEF FileInv, InLoop
    <3>3. QED BY <3>1, <3>2
  <2>4. RecordsAreTheEpisode'
    <3>1. ASSUME NEW k \in Keys
          PROVE  EarlierRecord \in Range(files'[k]) \/ OneEpisode(files'[k])
      <4>1. CASE k = Episode
        BY <1>2, <4>1, WriteGoesOn
      <4>2. CASE k # Episode
        BY <1>f, <2>1, <4>2 DEF RecordsAreTheEpisode
      <4>3. QED BY <4>1, <4>2
    <3>2. QED BY <1>k, <3>1, SameArguments DEF RecordsAreTheEpisode
  <2>5. QED BY <2>3, <2>4
<1>3. CASE ~ResetAnswered /\ ~Write
  <2>1. files' = files
    BY <1>3, FilesStay
  <2>2. RecordsAreTheEpisode'
    BY <1>k, <2>1, SameArguments DEF RecordsAreTheEpisode
  <2>3. FileInv'
    <3>1. CASE at' \in {"frame", "act", "step", "write"}
      <4>1. InLoop /\ Episode' = Episode /\ local'.index = local.index
        BY <1>3, <3>1, SameEpisode, SameIteration
      <4>2. QED BY <1>k, <2>1, <4>1, SameArguments DEF FileInv
    <3>2. CASE at' \notin {"frame", "act", "step", "write"}
      BY <3>2 DEF FileInv, InLoop
    <3>3. QED BY <3>1, <3>2
  <2>4. QED BY <2>2, <2>3
<1>4. QED BY <1>1, <1>2, <1>3

LEMMA RecordsHold == RunnerSpec => []RecordsInv
<1>1. RunnerInit => RecordsInv
  BY InitTypes, InitProtocol, InitLoop, InitRecords DEF RecordsInv
<1>2. RecordsInv /\ [RunnerNext]_runVars => RecordsInv'
  BY StepBridgeTypes, StepRunnerTypes, StepProtocol, StepLoop, StepFile DEF RecordsInv
<1>3. QED BY <1>1, <1>2, PTL DEF RunnerSpec

\* Whatever the user interrupts and however late a reply comes, the lines of an episode
\* this run has opened are one episode of its own helper, step after step.
THEOREM RecordsStayOneEpisode == RunnerSpec => []RecordsAreTheEpisode
BY RecordsHold, PTL DEF RecordsInv

-----------------------------------------------------------------------------
(* main() from the first task to the summary.                              *)

\* A step that neither begins the run nor ends an episode well.
LEMMA OtherSteps ==
    ASSUME [RunnerNext]_runVars, ~Begin, ~(Close /\ ~raised)
    PROVE  /\ tasks' = tasks /\ results' = results /\ (raised => raised')
           /\ at' \in {"summary", "dump"} => at \in {"summary", "dump"}
           /\ Busy' => Busy
           /\ Busy' /\ ~SpawnHelper =>
                spawned' = spawned /\ (at' = "spawn" <=> at = "spawn")
                /\ (at' \in {"summary", "dump"} <=> at \in {"summary", "dump"})
<1> USE DEF Busy
<1>1. CASE UNCHANGED runnerVars
  BY <1>1 DEF runnerVars
<1>2. CASE Close
  BY <1>2 DEF Close, Left
<1>3. CASE Interrupt
  BY <1>3 DEF Interrupt
<1>4. CASE WriteSummary \/ SpawnHelper \/ AwaitReady
  BY <1>4 DEF WriteSummary, SpawnHelper, AwaitReady
<1>5. CASE Request \/ RequestFails \/ QueryFails
  BY <1>1, <1>5 DEF Request, RequestFails, QueryFails, Raise, Command
<1>6. CASE ResetAnswered \/ FrameAnswered \/ StepAnswered \/ Write
  BY <1>6 DEF ResetAnswered, FrameAnswered, StepAnswered, Write, Answered, Turn
<1>7. CASE ExpertAnswered \/ Manual \/ Query
  BY <1>7 DEF ExpertAnswered, Manual, Query, Decided, Raise, Answered
<1>8. QED
  BY <1>1, <1>2, <1>3, <1>4, <1>5, <1>6, <1>7
  DEF RunnerNext, Runner, Helper, Fault, CloseAsks, runVars

\* The arguments are those of an invocation.
LEMMA EpisodesAreANumber == RunnerTypes => args.episodes \in Nat
BY RunnerAssumption DEF RunnerTypes

\* What the run goes on with after an episode that ended well.
LEMMA EpisodeDone ==
    ASSUME RunnerTypes, Progress, Close, ~raised
    PROVE  LET n == Len(results)
               done == [results EXCEPT ![n] = Append(@, local.success)] IN
           /\ NextEpisode(done) /\ tasks' = tasks /\ args' = args /\ raised' = raised
           /\ spawned' = spawned /\ files' = files
           /\ args.episodes > 0 /\ n \in 1 .. Len(tasks)
           /\ done \in Seq(Seq(BOOLEAN)) /\ Len(done) = n
           /\ \A i \in 1 .. n - 1 : done[i] = results[i] /\ Len(done[i]) = args.episodes
           /\ done[n] = Append(results[n], local.success) /\ Len(done[n]) = Len(results[n]) + 1
           /\ results[n] \in Seq(BOOLEAN) /\ Len(results[n]) < args.episodes
<1> DEFINE n == Len(results)
           done == [results EXCEPT ![n] = Append(@, local.success)]
<1>1. NextEpisode(done) /\ at = "leave" /\ UNCHANGED <<args, tasks, raised, spawned, files>>
  BY DEF Close, Left
<1>2. /\ args.episodes \in Nat /\ n \in Nat /\ Len(tasks) \in Nat
      /\ results \in Seq(Seq(BOOLEAN)) /\ local.success \in BOOLEAN
  BY EpisodesAreANumber DEF RunnerTypes, Locals
<1>3. /\ args.episodes > 0 /\ n \in 1 .. Len(tasks)
      /\ \A i \in 1 .. n - 1 : Len(results[i]) = args.episodes
      /\ Len(results[n]) < args.episodes
  BY <1>1, <1>2 DEF Progress, Busy
<1>4. results[n] \in Seq(BOOLEAN) /\ Append(results[n], local.success) \in Seq(BOOLEAN)
      /\ Len(Append(results[n], local.success)) = Len(results[n]) + 1
  BY <1>2, <1>3
<1>5. /\ done \in Seq(Seq(BOOLEAN)) /\ Len(done) = n
      /\ done[n] = Append(results[n], local.success)
      /\ \A i \in 1 .. n - 1 : done[i] = results[i]
  BY <1>2, <1>3, <1>4
<1> HIDE DEF done
<1>6. QED BY <1>1, <1>3, <1>4, <1>5 DEF done

LEMMA InitProgress == RunnerInit => Progress
BY DEF RunnerInit, Progress, Busy

LEMMA RunnerStepProgress ==
    ASSUME RunnerTypes, Progress, [RunnerNext]_runVars
    PROVE  Progress'
<1>n. args.episodes \in Nat /\ args' = args
  BY EpisodesAreANumber, SameArguments
<1>1. CASE Begin
  <2>1. CASE at' = "over" /\ raised' = TRUE
    BY <2>1 DEF Progress, Busy
  <2>2. CASE /\ tasks' \in Seq(KnownTasks) /\ tasks' # <<>> /\ IsInjective(tasks')
             /\ NextEpisode(<<>>) /\ raised' = raised
    <3>1. ~raised
      BY <1>1 DEF Begin, Progress
    <3>2. Len(tasks') \in Nat /\ Len(tasks') > 0
      BY <2>2
    <3>3. CASE args.episodes = 0
      BY <1>n, <2>2, <3>1, <3>3 DEF NextEpisode, Progress
    <3>4. CASE args.episodes > 0
      <4>1. at' = "spawn" /\ results' = <<<<>>>>
        BY <1>n, <2>2, <3>2, <3>4 DEF NextEpisode
      <4>2. Len(results') = 1 /\ Len(results'[1]) = 0 /\ 1 .. Len(results') - 1 = {}
        BY <4>1
      <4>3. QED BY <1>n, <2>2, <3>1, <3>2, <3>4, <4>1, <4>2 DEF Progress
    <3>5. QED BY <1>n, <3>3, <3>4
  <2>3. QED BY <1>1, <2>1, <2>2, BeginEffect
<1>2. CASE Close /\ ~raised
  <2> DEFINE n == Len(results)
             done == [results EXCEPT ![n] = Append(@, local.success)]
  <2>1. /\ NextEpisode(done) /\ tasks' = tasks /\ raised' = raised
        /\ args.episodes > 0 /\ n \in 1 .. Len(tasks)
        /\ done \in Seq(Seq(BOOLEAN)) /\ Len(done) = n
        /\ \A i \in 1 .. n - 1 : Len(done[i]) = args.episodes
        /\ Len(done[n]) = Len(results[n]) + 1
        /\ results[n] \in Seq(BOOLEAN) /\ Len(results[n]) < args.episodes
    BY <1>2, EpisodeDone
  <2>2. tasks # <<>> /\ IsInjective(tasks) /\ Len(tasks) \in Nat
    BY <1>2 DEF Close, Progress, Busy, RunnerTypes
  <2> HIDE DEF done, n
  <2>3. n \in Nat /\ Len(done[n]) \in Nat /\ Len(done[n]) <= args.episodes
    BY <1>n, <2>1, <2>2
  <2>4. CASE Len(done[n]) < args.episodes
    <3>1. at' = "spawn" /\ results' = done
      BY <1>n, <2>1, <2>3, <2>4 DEF NextEpisode
    <3>2. QED BY <1>n, <1>2, <2>1, <2>2, <2>4, <3>1 DEF Progress
  <2>5. CASE Len(done[n]) = args.episodes /\ n < Len(tasks)
    <3>1. at' = "spawn" /\ results' = Append(done, <<>>)
      BY <1>n, <2>1, <2>3, <2>5 DEF NextEpisode
    <3>2. /\ Len(results') = n + 1 /\ results'[n + 1] = <<>>
          /\ \A i \in 1 .. n : results'[i] = done[i]
      BY <2>1, <2>3, <3>1
    <3>3. \A i \in 1 .. n : Len(results'[i]) = args.episodes
      BY <2>1, <2>3, <2>5, <3>2
    <3>4. Len(results') \in 1 .. Len(tasks') /\ Len(results') - 1 = n
          /\ Len(results'[Len(results')]) < args.episodes
      BY <1>n, <2>1, <2>2, <2>3, <2>5, <3>2
    <3>5. QED BY <1>n, <1>2, <2>1, <2>2, <3>1, <3>3, <3>4 DEF Progress
  <2>6. CASE Len(done[n]) = args.episodes /\ n = Len(tasks)
    <3>1. at' = "summary" /\ results' = done
      BY <1>n, <2>1, <2>3, <2>6 DEF NextEpisode
    <3>2. QED BY <1>n, <1>2, <2>1, <2>2, <2>6, <3>1 DEF Progress
  <2>7. QED BY <1>n, <2>1, <2>2, <2>3, <2>4, <2>5, <2>6
<1>3. CASE ~Begin /\ ~(Close /\ ~raised)
  <2>1. /\ tasks' = tasks /\ results' = results /\ (Busy' => Busy)
        /\ Busy' => (at' \in {"summary", "dump"} <=> at \in {"summary", "dump"})
    BY <1>3, OtherSteps DEF SpawnHelper
  <2>2. raised' => at' \in {"leave", "over"}
    <3>1. CASE UNCHANGED runnerVars
      BY <3>1 DEF Progress, runnerVars
    <3>2. CASE raised /\ ~UNCHANGED runnerVars
      BY <3>2 DEF RunnerNext, Runner, Helper, Fault, Interrupt, Begin, WriteSummary, SpawnHelper,
     AwaitReady, Request, RequestFails, Raise, ResetAnswered, FrameAnswered, ExpertAnswered,
     Decided, Manual, Query, QueryFails, StepAnswered, Write, CloseAsks, Close, Left,
     runVars, Progress, Answered, Command
    <3>3. CASE ~raised /\ ~UNCHANGED runnerVars
      BY <1>3, <3>3 DEF RunnerNext, Runner, Helper, Fault, Interrupt, WriteSummary, SpawnHelper,
     AwaitReady, Request, RequestFails, Raise, ResetAnswered, FrameAnswered, ExpertAnswered,
     Decided, Manual, Query, QueryFails, StepAnswered, Write, CloseAsks, Close, Left,
     runVars, Answered, Command
    <3>4. QED BY <3>1, <3>2, <3>3
  <2>3. QED BY <1>n, <2>1, <2>2 DEF Progress
<1>4. QED BY <1>1, <1>2, <1>3

LEMMA InitHelpers == RunnerInit => Helpers
BY DEF RunnerInit, Helpers, Busy

LEMMA OneRowMore ==
    ASSUME NEW n \in Nat, NEW e \in Nat
    PROVE  ((n + 1) - 1) * e = (n - 1) * e + e /\ (1 - 1) * e = 0
OBVIOUS

LEMMA StepHelpers ==
    ASSUME RunnerTypes, Progress, Helpers, [RunnerNext]_runVars
    PROVE  Helpers'
<1>n. args.episodes \in Nat /\ args' = args /\ spawned \in Nat
  BY EpisodesAreANumber, SameArguments DEF RunnerTypes
<1>1. CASE Begin
  <2>1. spawned' = spawned /\ spawned = 0 /\ at' # "start"
    BY <1>1 DEF Begin, Helpers, NextEpisode
  <2>2. CASE at' = "over"
    BY <2>1, <2>2 DEF Helpers, Busy
  <2>3. CASE at' # "over"
    <3>0. tasks' \in Seq(KnownTasks) /\ tasks' # <<>> /\ NextEpisode(<<>>)
      BY <1>1, <2>3, BeginEffect
    <3>1. NextEpisode(<<>>) /\ Len(tasks') \in Nat /\ Len(tasks') > 0
      BY <3>0
    <3>2. args.episodes > 0 => at' = "spawn" /\ results' = <<<<>>>>
      BY <1>n, <3>1 DEF NextEpisode
    <3>3. args.episodes > 0 =>
             Len(results') = 1 /\ Len(results'[Len(results')]) = 0 /\ at' = "spawn"
      BY <3>2
    <3>4. args.episodes = 0 \/ args.episodes > 0
      BY <1>n
    <3>5. (1 - 1) * args.episodes = 0 /\ 0 + 0 = 0
      BY <1>n, OneRowMore
    <3>6. CASE args.episodes = 0
      BY <1>n, <2>1, <3>6 DEF Helpers
    <3>7. CASE args.episodes > 0
      <4>1. (Len(results') - 1) * args.episodes = 0
        BY <3>3, <3>5, <3>7
      <4>2. (Len(results') - 1) * args'.episodes + Len(results'[Len(results')]) + 0 = 0
        BY <1>n, <3>3, <3>7, <4>1
      <4>3. QED BY <1>n, <2>1, <3>3, <3>7, <4>2 DEF Helpers
    <3>8. QED BY <3>4, <3>6, <3>7
  <2>4. QED BY <2>2, <2>3
<1>2. CASE Close /\ ~raised
  <2> DEFINE n == Len(results)
             done == [results EXCEPT ![n] = Append(@, local.success)]
             total == (n - 1) * args.episodes
  <2>1. /\ NextEpisode(done) /\ tasks' = tasks /\ raised' = raised /\ spawned' = spawned
        /\ args.episodes > 0 /\ n \in 1 .. Len(tasks)
        /\ done \in Seq(Seq(BOOLEAN)) /\ Len(done) = n
        /\ Len(done[n]) = Len(results[n]) + 1
        /\ results[n] \in Seq(BOOLEAN) /\ Len(results[n]) < args.episodes
    BY <1>2, EpisodeDone
  <2>2. spawned = total + Len(results[n]) + 1
    BY <1>2, <2>1 DEF Close, Helpers, Busy
  <2>3. n \in Nat /\ Len(done[n]) \in Nat /\ Len(results[n]) \in Nat /\ Len(tasks) \in Nat
    BY <1>n, <2>1 DEF RunnerTypes
  <2>4. total \in Int /\ ((n + 1) - 1) * args.episodes = total + args.episodes
    BY <1>n, <2>3, OneRowMore
  <2> HIDE DEF done, n, total
  <2>5. spawned = total + Len(done[n]) /\ Len(done[n]) <= args.episodes
    BY <1>n, <2>1, <2>2, <2>3, <2>4
  <2>6. CASE results' = done
    <3>1. at' \in {"spawn", "summary"} /\ (Len(results') - 1) * args.episodes = total
      BY <2>1, <2>6 DEF NextEpisode, n, total
    <3>2. Len(results'[Len(results')]) = Len(done[n])
      BY <2>1, <2>6
    <3>3. args.episodes # 0 /\ total + Len(done[n]) + 0 = total + Len(done[n])
      BY <1>n, <2>1, <2>3, <2>4
    <3>4. QED BY <1>n, <2>1, <2>5, <3>1, <3>2, <3>3 DEF Helpers
  <2>7. CASE results' # done
    <3>1. at' = "spawn" /\ results' = Append(done, <<>>) /\ Len(done[n]) = args.episodes
      BY <1>n, <2>1, <2>3, <2>5, <2>7 DEF NextEpisode
    <3>2. Len(results') = n + 1 /\ results'[n + 1] = <<>>
      BY <2>1, <2>3, <3>1
    <3>3. Len(results'[Len(results')]) = 0
      BY <3>2
    <3>4. (Len(results') - 1) * args.episodes = total + args.episodes
      BY <2>4, <3>2
    <3>5. spawned' = (Len(results') - 1) * args.episodes + Len(results'[Len(results')]) + 0
      <4>1. spawned' = total + args.episodes
        BY <2>1, <2>5, <3>1
      <4>2. total + args.episodes = (total + args.episodes) + 0 + 0
        BY <1>n, <2>4
      <4> QED  BY <3>3, <3>4, <4>1, <4>2
    <3>6. args.episodes # 0
      BY <1>n, <2>1
    <3>7. QED BY <1>n, <3>1, <3>5, <3>6 DEF Helpers
  <2>8. QED BY <2>6, <2>7
<1>3. CASE SpawnHelper
  <2>1. /\ at = "spawn" /\ at' = "ready" /\ spawned' = spawned + 1
        /\ results' = results /\ raised' = raised /\ Busy
    BY <1>3 DEF SpawnHelper, Busy
  <2>2. CASE ~raised
    <3>1. args.episodes # 0
      BY <2>1 DEF Progress
    <3>2. /\ spawned = (Len(results) - 1) * args.episodes + Len(results[Len(results)]) + 0
          /\ Len(results) \in Nat /\ (Len(results) - 1) * args.episodes \in Int
      <4>1. Len(results) \in Nat
        BY DEF RunnerTypes
      <4>2. QED BY <1>n, <2>1, <2>2, <3>1, <4>1 DEF Helpers
    <3>3. Len(results[Len(results)]) \in Nat
      BY <1>n, <2>1, <3>1 DEF Progress, RunnerTypes
    <3>4. spawned' = (Len(results) - 1) * args.episodes + Len(results[Len(results)]) + 1
      BY <2>1, <3>2, <3>3
    <3>5. QED BY <1>n, <2>1, <3>1, <3>4 DEF Helpers
  <2>3. CASE raised
    BY <2>1, <2>3 DEF Helpers
  <2>4. QED BY <2>2, <2>3
<1>4. CASE ~Begin /\ ~(Close /\ ~raised) /\ ~SpawnHelper
  <2>1. /\ results' = results /\ (raised => raised') /\ (Busy' => Busy)
        /\ Busy' => /\ spawned' = spawned /\ (at' = "spawn" <=> at = "spawn")
                    /\ (at' \in {"summary", "dump"} <=> at \in {"summary", "dump"})
    BY <1>4, OtherSteps
  <2>3. at' = "start" => spawned' = 0
    <3>1. ASSUME at' = "start" PROVE at = "start" /\ spawned' = spawned
      BY <1>4, <3>1 DEF RunnerNext, Runner, Helper, Fault, Interrupt, WriteSummary,
     AwaitReady, Request, RequestFails, Raise, ResetAnswered, FrameAnswered, ExpertAnswered,
     Decided, Manual, Query, QueryFails, StepAnswered, Write, CloseAsks, Close, Left, Turn,
     runVars, runnerVars, Answered
    <3>2. QED BY <3>1 DEF Helpers
  <2>4. QED BY <1>n, <2>1, <2>3 DEF Helpers
<1>5. QED BY <1>1, <1>2, <1>3, <1>4

-----------------------------------------------------------------------------
(* What the results and the files say.                                     *)

\* The lines of one episode are none of an earlier run's.
LEMMA OwnLines ==
    ASSUME NEW lines, OneEpisode(lines), \A i \in DOMAIN lines : i \in Nat \ {0}
    PROVE  EarlierRecord \notin Range(lines)
<1> SUFFICES ASSUME NEW i \in DOMAIN lines, lines[i] = EarlierRecord PROVE FALSE
  BY DEF Range
<1>1. lines[i].outcome.step = i /\ i # 0
  BY DEF OneEpisode
<1>2. EarlierRecord.outcome.step = 0
  BY DEF EarlierRecord, NotReset
<1>3. QED BY <1>1, <1>2

\* The episode under way is one of the files'.
LEMMA EpisodeIsAKey ==
    ASSUME RunnerTypes, Progress, Busy, at \notin {"summary", "dump"}
    PROVE  /\ Len(results) \in 1 .. Len(tasks) /\ Episode \in Keys
           /\ Len(results) \in DOMAIN tasks /\ Len(results) \in DOMAIN results
           /\ results[Len(results)] \in Seq(BOOLEAN)
           /\ Episode = <<tasks[Len(results)], Len(results[Len(results)]) + 1>>
<1>1. args.episodes \in Nat /\ args \in Invocations /\ Len(tasks) \in Nat
  BY EpisodesAreANumber DEF RunnerTypes
<1>2. args.episodes > 0
  BY <1>1 DEF Progress
<1>3. Len(results) \in 1 .. Len(tasks) /\ Len(results[Len(results)]) < args.episodes
  BY <1>2 DEF Progress
<1>4. /\ Len(results) \in DOMAIN tasks /\ Len(results) \in DOMAIN results
      /\ results[Len(results)] \in Seq(BOOLEAN) /\ tasks[Len(results)] \in KnownTasks
  BY <1>1, <1>3 DEF RunnerTypes
<1>5. Len(results[Len(results)]) + 1 \in 1 .. args.episodes
  BY <1>1, <1>3, <1>4
<1>6. QED BY <1>1, <1>3, <1>4, <1>5 DEF Episode, Task, Keys

\* The results are about other episodes than the one under way.
LEMMA OtherEpisodes ==
    ASSUME RunnerTypes, Progress, Busy, at \notin {"summary", "dump"},
           NEW i \in DOMAIN results, NEW e \in DOMAIN results[i]
    PROVE  <<tasks[i], e>> # Episode
<1>1. /\ Len(results) \in 1 .. Len(tasks) /\ Len(results) \in DOMAIN tasks
      /\ results[Len(results)] \in Seq(BOOLEAN)
      /\ Episode = <<tasks[Len(results)], Len(results[Len(results)]) + 1>>
  BY EpisodeIsAKey
<1>2. i \in 1 .. Len(results) /\ i \in DOMAIN tasks /\ IsInjective(tasks)
  BY <1>1 DEF RunnerTypes, Progress
<1>3. CASE i = Len(results)
  BY <1>1, <1>3
<1>4. CASE i # Len(results)
  BY <1>1, <1>2, <1>4 DEF IsInjective
<1>5. QED BY <1>3, <1>4

\* What the results say stays true while the files of other episodes change.
LEMMA ResultsStay ==
    ASSUME RunnerTypes, Progress, ResultsInv, Busy, at \notin {"summary", "dump"}, ~raised,
           tasks' = tasks, results' = results,
           \A k \in Keys : k # Episode => files'[k] = files[k],
           files' \in [Keys -> Seq(Lines)]
    PROVE  \A i \in DOMAIN results' : \A e \in DOMAIN results'[i] :
               TrueTo(files'[<<tasks'[i], e>>], results'[i][e])
<1> SUFFICES ASSUME NEW i \in DOMAIN results, NEW e \in DOMAIN results[i]
             PROVE  TrueTo(files'[<<tasks[i], e>>], results[i][e])
  OBVIOUS
<1>1. TrueTo(files[<<tasks[i], e>>], results[i][e]) /\ <<tasks[i], e>> # Episode
  BY OtherEpisodes DEF ResultsInv
<1>2. <<tasks[i], e>> \in Keys
  <2>1. args.episodes \in Nat /\ args \in Invocations /\ Len(tasks) \in Nat /\ Len(results) \in Nat
    BY EpisodesAreANumber DEF RunnerTypes
  <2>2. args.episodes > 0
    BY <2>1 DEF Progress
  <2>3. i \in 1 .. Len(results) /\ Len(results) \in 1 .. Len(tasks) /\ results[i] \in Seq(BOOLEAN)
    BY <2>1, EpisodeIsAKey DEF RunnerTypes
  <2>4. Len(results[i]) <= args.episodes /\ Len(results[i]) \in Nat
    BY <2>1, <2>2, <2>3 DEF Progress
  <2>5. e \in 1 .. args.episodes /\ tasks[i] \in KnownTasks
    BY <2>1, <2>3, <2>4 DEF RunnerTypes
  <2>6. QED BY <2>1, <2>5 DEF Keys
<1>3. QED BY <1>1, <1>2

LEMMA InitResults == RunnerInit => ResultsInv
BY DEF RunnerInit, ResultsInv, Busy

\* The file is opened: nothing has been done, nothing has succeeded.
LEMMA ResetResults ==
    ASSUME RecordsInv, RunnerTypes', Progress, ResultsInv, ResetAnswered PROVE ResultsInv'
<1>1. /\ Busy /\ at \notin {"summary", "dump"} /\ tasks' = tasks /\ results' = results
      /\ raised' = raised
      /\ files' = [files EXCEPT ![Episode] = <<>>] /\ Episode' = Episode
  BY DEF ResetAnswered, Answered, Opened, Busy, Episode, Task
<1>2. files' \in [Keys -> Seq(Lines)] /\ files \in [Keys -> Seq(Lines)] /\ Episode \in Keys
  BY <1>1, EpisodeIsAKey DEF RunnerTypes, RecordsInv, Keys
<1>3. files'[Episode] = <<>> /\ local'.success = FALSE
  BY <1>1, <1>2 DEF ResetAnswered, Answered, RecordsInv, LoopInv, NoLocal
<1>4. TrueTo(<<>>, FALSE)
  BY DEF TrueTo, Range
<1>5. CASE ~raised
  <2>1. \A k \in Keys : k # Episode => files'[k] = files[k]
    BY <1>1, <1>2
  <2>2. \A i \in DOMAIN results' : \A e \in DOMAIN results'[i] :
               TrueTo(files'[<<tasks'[i], e>>], results'[i][e])
    BY <1>1, <1>2, <1>5, <2>1, ResultsStay DEF RecordsInv
  <2>3. TrueTo(files'[Episode'], local'.success)
    BY <1>1, <1>3, <1>4
  <2>4. QED BY <2>2, <2>3 DEF ResultsInv, TrueTo
<1>6. QED BY <1>1, <1>5 DEF ResultsInv

\* A line is written: if it is the last, the success is the one it tells of.
LEMMA WriteResults ==
    ASSUME RecordsInv, RunnerTypes', Progress, ResultsInv, Write PROVE ResultsInv'
<1>1. /\ Busy /\ at = "write" /\ tasks' = tasks /\ results' = results /\ raised' = raised
      /\ files' = [files EXCEPT ![Episode] = Append(@, StepRecord)] /\ Episode' = Episode
  BY DEF Write, Busy, Episode, Task
<1>2. files' \in [Keys -> Seq(Lines)] /\ files \in [Keys -> Seq(Lines)] /\ Episode \in Keys
  BY <1>1, EpisodeIsAKey DEF RunnerTypes, RecordsInv, Keys
<1>3. /\ OneEpisode(files'[Episode]) /\ files'[Episode] = Append(files[Episode], StepRecord)
      /\ files[Episode] \in Seq(Lines) /\ local.index \in Nat
      /\ Len(files'[Episode]) = local.index + 1
  BY <1>2, WriteGoesOn DEF RecordsInv, RunnerTypes, Locals
<1>4. files'[Episode] # <<>> /\ files'[Episode][Len(files'[Episode])] = StepRecord
  BY <1>3
<1>5. EarlierRecord \notin Range(files'[Episode])
  <2>1. \A i \in DOMAIN files'[Episode] : i \in Nat \ {0}
    BY <1>3
  <2>2. QED BY <1>3, <2>1, OwnLines
<1>6. at' = "leave" => local'.success = (local.outcome.status = "success")
  <2>1. local.success = FALSE /\ local \in Locals
    BY <1>1 DEF RecordsInv, LoopInv, InLoop, RunnerTypes, Locals
  <2>2. CASE local.outcome.status # "none"
    BY <2>1, <2>2 DEF Write, Locals
  <2>3. CASE local.outcome.status = "none"
    BY <2>1, <2>3 DEF Write, Advance, Locals
  <2>4. QED BY <2>2, <2>3
<1>7. at' = "leave" => TrueTo(files'[Episode], local'.success)
  BY <1>4, <1>5, <1>6 DEF TrueTo, StepRecord
<1>8. CASE ~raised
  <2>1. \A k \in Keys : k # Episode => files'[k] = files[k]
    BY <1>1, <1>2
  <2>2. \A i \in DOMAIN results' : \A e \in DOMAIN results'[i] :
               TrueTo(files'[<<tasks'[i], e>>], results'[i][e])
    BY <1>1, <1>2, <1>8, <2>1, ResultsStay DEF RecordsInv
  <2>3. QED BY <1>1, <1>7, <2>2 DEF ResultsInv, TrueTo
<1>9. QED BY <1>1, <1>8 DEF ResultsInv

\* The episode that ended well adds the success its last line tells of.
LEMMA CloseResults ==
    ASSUME RunnerTypes, Progress, ResultsInv, Close, ~raised PROVE ResultsInv'
<1> DEFINE n == Len(results)
           done == [results EXCEPT ![n] = Append(@, local.success)]
<1>1. /\ NextEpisode(done) /\ tasks' = tasks /\ args' = args /\ files' = files
      /\ args.episodes > 0 /\ n \in 1 .. Len(tasks)
      /\ done \in Seq(Seq(BOOLEAN)) /\ Len(done) = n
      /\ \A i \in 1 .. n - 1 : done[i] = results[i]
      /\ done[n] = Append(results[n], local.success) /\ Len(done[n]) = Len(results[n]) + 1
      /\ results[n] \in Seq(BOOLEAN)
  BY EpisodeDone
<1>2. Busy /\ at = "leave"
  BY DEF Close, Busy
<1>3. Episode = <<tasks[n], Len(results[n]) + 1>> /\ TrueTo(files[Episode], local.success)
  BY <1>2, EpisodeIsAKey DEF ResultsInv
<1>4. /\ results \in Seq(Seq(BOOLEAN)) /\ n \in Nat
      /\ \A i \in 1 .. n : \A e \in DOMAIN results[i] :
            TrueTo(files[<<tasks[i], e>>], results[i][e])
  BY <1>2 DEF RunnerTypes, ResultsInv
<1> HIDE DEF done, n
<1>5. ASSUME NEW i \in 1 .. n, NEW e \in DOMAIN done[i]
      PROVE  TrueTo(files[<<tasks[i], e>>], done[i][e])
  <2>1. CASE i # n
    BY <1>1, <1>4, <1>5, <2>1
  <2>2. CASE i = n
    <3>1. e \in DOMAIN results[n] \/ e = Len(results[n]) + 1
      BY <1>1, <1>5, <2>2
    <3>2. CASE e \in DOMAIN results[n]
      BY <1>1, <1>4, <2>2, <3>2
    <3>3. CASE e = Len(results[n]) + 1
      BY <1>1, <1>3, <2>2, <3>3
    <3>4. QED BY <3>1, <3>2, <3>3
  <2>3. QED BY <2>1, <2>2
<1>6. CASE results' = done
  <2>1. DOMAIN done = 1 .. n
    BY <1>1
  <2>2. \A i \in DOMAIN results' : \A e \in DOMAIN results'[i] :
           TrueTo(files'[<<tasks'[i], e>>], results'[i][e])
    BY <1>1, <1>5, <1>6, <2>1
  <2>3. at' # "leave"
    BY <1>1 DEF NextEpisode
  <2>4. QED BY <2>2, <2>3 DEF ResultsInv, TrueTo
<1>7. CASE results' # done
  <2>1. results' = Append(done, <<>>) /\ at' = "spawn"
    BY <1>1, <1>7 DEF NextEpisode
  <2>2. /\ DOMAIN results' = 1 .. n + 1 /\ results'[n + 1] = <<>>
        /\ \A i \in 1 .. n : results'[i] = done[i]
    BY <1>1, <1>4, <2>1
  <2>3. ASSUME NEW i \in DOMAIN results', NEW e \in DOMAIN results'[i]
        PROVE  TrueTo(files'[<<tasks'[i], e>>], results'[i][e])
    <3>1. i \in 1 .. n \/ i = n + 1
      BY <1>4, <2>2
    <3>2. CASE i \in 1 .. n
      BY <1>1, <1>5, <2>2, <2>3, <3>2
    <3>3. CASE i = n + 1
      BY <2>2, <2>3, <3>3
    <3>4. QED BY <3>1, <3>2, <3>3
  <2>4. QED BY <2>1, <2>3 DEF ResultsInv, TrueTo
<1>8. QED BY <1>6, <1>7

LEMMA StepResults ==
    ASSUME RecordsInv, RunnerTypes', Progress, ResultsInv, [RunnerNext]_runVars
    PROVE  ResultsInv'
<1>1. CASE Begin
  <2>1. CASE at' = "over"
    BY <2>1 DEF ResultsInv, Busy
  <2>2. CASE at' # "over"
    <3>1. NextEpisode(<<>>) /\ tasks' \in Seq(KnownTasks)
      BY <1>1, <2>2, BeginEffect DEF RecordsInv
    <3>2. at' \in {"spawn", "summary"} /\ \A i \in DOMAIN results' : results'[i] = <<>>
      <4>1. Append(<<>>, <<>>) = <<<<>>>> /\ DOMAIN <<<<>>>> = {1} /\ <<<<>>>>[1] = <<>>
        OBVIOUS
      <4>2. \/ results' = [i \in DOMAIN tasks' |-> <<>>] \/ results' = <<>>
            \/ results' = Append(<<>>, <<>>)
        BY <3>1 DEF NextEpisode
      <4>3. at' \in {"spawn", "summary"}
        BY <3>1 DEF NextEpisode
      <4>4. QED BY <4>1, <4>2, <4>3
    <3>3. QED BY <3>2 DEF ResultsInv
  <2>3. QED BY <2>1, <2>2
<1>2. CASE Close /\ ~raised
  BY <1>2, CloseResults DEF RecordsInv
<1>3. CASE ResetAnswered
  BY <1>3, ResetResults
<1>4. CASE Write
  BY <1>4, WriteResults
<1>5. CASE ~Begin /\ ~(Close /\ ~raised) /\ ~ResetAnswered /\ ~Write
  <2>1. /\ tasks' = tasks /\ results' = results /\ (raised => raised') /\ (Busy' => Busy)
        /\ files' = files
    BY <1>5, OtherSteps, FilesStay
  <2>2. at' = "leave" /\ ~raised' => at = "leave" /\ local' = local
    BY <1>5 DEF RunnerNext, Runner, Helper, Fault, Interrupt, WriteSummary, SpawnHelper,
     AwaitReady, Request, RequestFails, Raise, FrameAnswered, ExpertAnswered,
     Decided, Manual, Query, QueryFails, StepAnswered, CloseAsks, Close, Left,
     runVars, runnerVars
  <2>3. Episode' = Episode
    BY <2>1 DEF Episode, Task
  <2>4. QED BY <2>1, <2>2, <2>3 DEF ResultsInv, TrueTo
<1>6. QED BY <1>1, <1>2, <1>3, <1>4, <1>5

-----------------------------------------------------------------------------
(* The summary.                                                            *)

LEMMA InitReported == RunnerInit => Reported
<1> SUFFICES ASSUME RunnerInit PROVE Reported
  OBVIOUS
<1>1. summary = NoSummary("none") \/ summary = NoSummary("earlier")
  BY DEF RunnerInit
<1>2. NoSummary("none").by = "none" /\ NoSummary("earlier").by = "earlier"
  BY DEF NoSummary
<1>3. summary.by # "this run"
  <2>1. summary.by = "none" \/ summary.by = "earlier"
    BY <1>1, <1>2
  <2>2. QED BY ONLY <2>1
<1>4. QED BY <1>3 DEF Reported, SummaryIsTheWholeRun

\* As many tasks as there are entries.
LEMMA TasksCounted ==
    ASSUME RunnerTypes, IsInjective(tasks)
    PROVE  Cardinality(Range(tasks)) = Len(tasks) /\ Len(tasks) \in Nat
<1>1. Len(tasks) \in Nat /\ DOMAIN tasks = 1 .. Len(tasks) /\ tasks \in Seq(KnownTasks)
  BY DEF RunnerTypes
<1>2. tasks \in [1 .. Len(tasks) -> Range(tasks)]
  BY <1>1 DEF Range
<1>3. tasks \in Bijection(1 .. Len(tasks), Range(tasks))
  BY <1>1, <1>2 DEF Bijection, Injection, Surjection, IsInjective, Range
<1>4. ExistsBijection(1 .. Len(tasks), Range(tasks))
  BY <1>3 DEF ExistsBijection
<1>5. QED BY <1>1, <1>4, FS_CountingElements

\* The row of a task is the result of its only entry.
LEMMA OnlyEntry ==
    ASSUME RunnerTypes, IsInjective(tasks), NEW i \in DOMAIN tasks
    PROVE  Max({j \in DOMAIN tasks : tasks[j] = tasks[i]}) = i
<1>1. {j \in DOMAIN tasks : tasks[j] = tasks[i]} = {i}
  BY DEF IsInjective
<1>2. i \in Nat
  BY DEF RunnerTypes
<1>3. Max({i}) = i
  BY <1>2 DEF Max
<1>4. QED BY <1>1, <1>3

LEMMA SummaryWritten ==
    ASSUME RunnerTypes, Progress, Helpers, ResultsInv, WriteSummary, at = "dump"
    PROVE  SummaryIsTheWholeRun'
<1>1. /\ at = "dump" /\ Busy /\ raised' = raised /\ tasks' = tasks /\ args' = args
      /\ spawned' = spawned /\ files' = files
      /\ summary'.rows = [t \in Range(tasks) |->
                            results[Max({i \in DOMAIN tasks : tasks[i] = t})]]
  <2> DEFINE rows == [t \in Range(tasks) |-> results[Max({i \in DOMAIN tasks : tasks[i] = t})]]
  <2>1. summary' = [by |-> "this run", rows |-> rows]
    BY DEF WriteSummary
  <2>2. /\ at = "dump" /\ Busy /\ raised' = raised /\ tasks' = tasks /\ args' = args
        /\ spawned' = spawned /\ files' = files
    BY DEF WriteSummary, Busy
  <2> HIDE DEF rows
  <2>3. summary'.rows = rows
    BY <2>1
  <2>4. QED BY <2>2, <2>3 DEF rows
<1>2. ~raised /\ IsInjective(tasks) /\ args.episodes \in Nat
  BY <1>1, EpisodesAreANumber DEF Progress
<1>3. Cardinality(Range(tasks)) = Len(tasks) /\ Len(tasks) \in Nat
      /\ DOMAIN tasks = 1 .. Len(tasks) /\ DOMAIN results = 1 .. Len(results)
  BY <1>2, TasksCounted DEF RunnerTypes
<1>4. Len(results) = Len(tasks) /\ \A i \in DOMAIN tasks : Len(results[i]) = args.episodes
  <2>1. CASE args.episodes = 0
    <3>1. results = [i \in DOMAIN tasks |-> <<>>]
      BY <1>1, <2>1 DEF Progress
    <3>2. DOMAIN results = 1 .. Len(tasks) /\ \A i \in DOMAIN tasks : Len(results[i]) = 0
      BY <1>3, <3>1
    <3>3. Len(results) = Len(tasks)
      BY <1>3, <3>2 DEF RunnerTypes
    <3>4. QED BY <2>1, <3>2, <3>3
  <2>2. CASE args.episodes > 0
    <3>1. /\ Len(results) = Len(tasks) /\ Len(results[Len(results)]) = args.episodes
          /\ \A i \in 1 .. Len(results) - 1 : Len(results[i]) = args.episodes
      BY <1>1, <2>2 DEF Progress
    <3>2. \A i \in DOMAIN tasks : i \in 1 .. Len(results) - 1 \/ i = Len(results)
      BY <1>3, <3>1
    <3>3. QED BY <3>1, <3>2
  <2>3. QED BY <1>2, <2>1, <2>2
<1>5. spawned = args.episodes * Len(tasks)
  <2>1. CASE args.episodes = 0
    BY <1>1, <1>2, <1>3, <2>1 DEF Helpers
  <2>2. CASE args.episodes > 0
    <3>1. args.episodes # 0 /\ Len(results) = Len(tasks)
          /\ Len(results[Len(results)]) = args.episodes
      BY <1>1, <2>2 DEF Progress
    <3>2. spawned = (Len(tasks) - 1) * args.episodes + args.episodes + 0
      BY <1>1, <1>2, <3>1 DEF Helpers
    <3>3. QED BY <1>2, <1>3, <3>2
  <2>3. QED BY <1>2, <2>1, <2>2
<1>6. ASSUME NEW t \in Range(tasks)
      PROVE  /\ Len(summary'.rows[t]) = args.episodes
             /\ \A e \in 1 .. args.episodes : TrueTo(files[<<t, e>>], summary'.rows[t][e])
  <2>1. PICK i \in DOMAIN tasks : tasks[i] = t
    BY DEF Range
  <2>2. summary'.rows[t] = results[i] /\ i \in DOMAIN results
    BY <1>1, <1>2, <1>3, <1>4, <2>1, OnlyEntry
  <2>3. results[i] \in Seq(BOOLEAN) /\ Len(results[i]) = args.episodes
    BY <1>4, <2>1, <2>2 DEF RunnerTypes
  <2>4. \A e \in DOMAIN results[i] : TrueTo(files[<<t, e>>], results[i][e])
    BY <1>1, <1>2, <2>1, <2>2 DEF ResultsInv
  <2>5. QED BY <2>2, <2>3, <2>4
<1>7. DOMAIN summary'.rows = Range(tasks)
  BY <1>1
<1>8. QED BY <1>1, <1>2, <1>3, <1>5, <1>6, <1>7 DEF SummaryIsTheWholeRun, TrueTo

LEMMA StepReported ==
    ASSUME RunnerTypes, Progress, Helpers, ResultsInv, Reported, [RunnerNext]_runVars
    PROVE  Reported'
<1>1. CASE WriteSummary
  <2>1. CASE at = "dump"
    BY <1>1, <2>1, SummaryWritten DEF WriteSummary, Reported
  <2>2. CASE at # "dump"
    <3>1. summary' = NoSummary("cut short")
      BY <1>1, <2>2 DEF WriteSummary
    <3>2. summary'.by # "this run"
      BY <3>1 DEF NoSummary
    <3>3. QED BY <3>2 DEF Reported, SummaryIsTheWholeRun
  <2>3. QED BY <2>1, <2>2
<1>2. CASE ~WriteSummary
  <2>1. summary' = summary
    BY <1>2 DEF RunnerNext, Runner, Helper, Fault, Interrupt, Begin, SpawnHelper,
     AwaitReady, Request, RequestFails, Raise, ResetAnswered, FrameAnswered, ExpertAnswered,
     Decided, Manual, Query, QueryFails, StepAnswered, Write, CloseAsks, Close, Left,
     runVars, runnerVars
  <2>2. CASE at = "over"
    <3>1. UNCHANGED runnerVars
      BY <1>2, <2>2 DEF RunnerNext, Runner, Helper, Fault, Interrupt, Begin, SpawnHelper,
     AwaitReady, Request, RequestFails, Raise, ResetAnswered, FrameAnswered, ExpertAnswered,
     Decided, Manual, Query, QueryFails, StepAnswered, Write, CloseAsks, Close, Left,
     runVars, Answered, Command
    <3>2. QED BY <3>1 DEF Reported, SummaryIsTheWholeRun, TrueTo, runnerVars
  <2>3. CASE at # "over"
    BY <2>1, <2>3 DEF Reported, SummaryIsTheWholeRun
  <2>4. QED BY <2>2, <2>3
<1>3. QED BY <1>1, <1>2

\* A summary is only written when every episode asked for has run once with a helper of
\* its own, and it tells what the files tell; no interrupt leaves a summary behind.
THEOREM SummariesTellTheRun == RunnerSpec => []SummaryIsTheWholeRun
<1>1. RunnerInit => SummaryInv
  BY InitProgress, InitHelpers, InitResults, InitReported DEF SummaryInv
<1>2. RecordsInv /\ RecordsInv' /\ SummaryInv /\ [RunnerNext]_runVars => SummaryInv'
  BY RunnerStepProgress, StepHelpers, StepResults, StepReported DEF SummaryInv, RecordsInv
<1>3. SummaryInv => SummaryIsTheWholeRun
  BY DEF SummaryInv, Reported
<1>4. QED BY <1>1, <1>2, <1>3, RecordsHold, PTL DEF RunnerSpec
=============================================================================
