---------------------------- MODULE SkillFeedback ----------------------------
(***************************************************************************)
(* What one tick of a CRIE-BT skill is made of: the feedback of the        *)
(* scripted executor, and the three judges that read it (progress monitor, *)
(* uncertainty estimator, failure detector).  Scores, confidences and      *)
(* uncertainties are in thousandths, distances in centimetres.             *)
(***************************************************************************)
EXTENDS Integers, FiniteSetsExt

CONSTANTS
    Patience,       \* no_progress_patience of the monitor and of the detector
    MaxSkillSteps   \* max_steps of the monitor and of the detector

ASSUME FeedbackAssumption ==
    Patience \in Nat \ {0} /\ MaxSkillSteps \in Nat \ {0}

Unknown == -1       \* a distance the observation has no positions for

FailureCodes ==
    {"NONE", "MISSED_GRASP", "SLIPPAGE", "NO_PROGRESS", "LOW_CONFIDENCE",
     "POSTCONDITION_FAILED", "TARGET_OCCUPIED", "TIMEOUT", "SAFETY_CONFLICT",
     "UNKNOWN"}

Observation ==
    [reach : Int, carry : Int, grasped : BOOLEAN, at_target : BOOLEAN]

-----------------------------------------------------------------------------
(* The scripted executor. *)

ScenarioCode(scenario) ==
    CASE scenario = "missed_grasp" -> "MISSED_GRASP"
      [] scenario = "slippage" -> "SLIPPAGE"
      [] scenario \in {"no_progress", "no_progress_always"} -> "NO_PROGRESS"
      [] scenario = "target_occupied" -> "TARGET_OCCUPIED"
      [] scenario = "low_confidence" -> "LOW_CONFIDENCE"
      [] scenario = "timeout" -> "TIMEOUT"
      [] scenario = "safety_conflict" -> "SAFETY_CONFLICT"
      [] OTHER -> "UNKNOWN"

FailureForAttempt(script, attempt) ==
    IF \/ script.scenario \in {"none", "human_interrupt"}
       \/ attempt > script.fail_attempts /\ script.scenario # "no_progress_always"
      THEN "NONE" ELSE ScenarioCode(script.scenario)

Reported(status, stage, score, tick, uncertainty, code, confidence) ==
    [status |-> status,
     progress |-> [stage |-> stage, score |-> score, elapsed |-> tick,
                   stagnant |-> 0, post |-> status = "SUCCESS"],
     uncertainty |-> uncertainty, code |-> code, confidence |-> confidence]

\* ScriptedSkillExecutor.step, at its tick-th call since start_skill.
ScriptedStep(script, attempt, tick) ==
    LET code == FailureForAttempt(script, attempt) IN
    CASE code # "NONE" ->
            Reported("FAILURE", "FAILED", 100, tick, 800, code, Unknown)
      [] code = "NONE" /\ script.low_confidence /\ tick = 1 ->
            Reported("RUNNING", "APPROACHING_OBJECT", 350, tick, 580, code, 420)
      [] OTHER ->
            IF tick >= script.success_after
              THEN Reported("SUCCESS", "STABLE_SUCCESS", 1000, tick, 0, code, Unknown)
              ELSE Reported("RUNNING", "TRANSPORTING", 600, tick, 200, code, Unknown)

-----------------------------------------------------------------------------
(* The progress monitor. *)

NewMonitor == [elapsed |-> 0, last_score |-> 0, stagnant |-> 0]

\* The best of what the observation shows, each part absent without positions.
ObservedScore(obs) ==
    IF obs.at_target THEN 1000
    ELSE Max({0}
        \union {250 - 2 * Min({obs.reach, 100}) : r \in {obs.reach} \ {Unknown}}
        \union {350 : r \in {obs.reach} \cap 0 .. 7}
        \union {550 : g \in {obs.grasped} \cap {TRUE}}
        \union {750 - 3 * Min({obs.carry, 100}) : c \in {obs.carry} \ {Unknown}}
        \union {820 : c \in {obs.carry} \cap 0 .. 11})

ObservedStage(obs) ==
    CASE obs.carry \in 0 .. 11 -> "NEAR_TARGET"
      [] obs.grasped /\ obs.carry > 11 -> "TRANSPORTING"
      [] obs.grasped /\ obs.carry = Unknown -> "OBJECT_GRASPED"
      [] ~obs.grasped /\ obs.carry \notin 0 .. 11 /\ obs.reach \in 0 .. 7 -> "NEAR_OBJECT"
      [] ~obs.grasped /\ obs.carry \notin 0 .. 11 /\ obs.reach > 7 -> "APPROACHING_OBJECT"
      [] OTHER -> "NOT_STARTED"

\* ProgressMonitor.update: the new monitor and the state it reports. STUCK is
\* decided from the stagnation before this update.
Progress(m, obs) ==
    LET elapsed == m.elapsed + 1
        score == ObservedScore(obs)
        stage == CASE obs.at_target -> "STABLE_SUCCESS"
                   [] ~obs.at_target /\ elapsed >= MaxSkillSteps -> "FAILED"
                   [] ~obs.at_target /\ elapsed < MaxSkillSteps
                        /\ m.stagnant >= Patience -> "STUCK"
                   [] OTHER -> ObservedStage(obs)
        stagnant == IF score > m.last_score THEN 0 ELSE m.stagnant + 1
        last == Max({m.last_score, score})
    IN  [monitor |-> [elapsed |-> elapsed, last_score |-> last, stagnant |-> stagnant],
         state |-> [stage |-> stage,
                    score |-> IF stage = "STUCK" THEN last ELSE score,
                    elapsed |-> elapsed, stagnant |-> stagnant,
                    post |-> obs.at_target]]

-----------------------------------------------------------------------------
(* The uncertainty estimator; no chunk is ever given to the ensemble mode. *)

Heuristic(fb) ==
    Min({1000,
         100 + (IF fb.status = "FAILURE" THEN 450 ELSE 0)
             + (IF fb.progress.stage \in {"STUCK", "FAILED"} THEN 350 ELSE 0)
             + (IF fb.progress.stagnant >= 2 THEN 200 ELSE 0)
             + (IF fb.code \in {"POSTCONDITION_FAILED", "TIMEOUT"} THEN 250 ELSE 0)})

Uncertainty(mode, fb) ==
    CASE mode \in {"none", "ensemble_variance"} -> 0
      [] mode = "heuristic" -> Heuristic(fb)
      [] mode = "policy_metadata" /\ fb.confidence # Unknown -> 1000 - fb.confidence
      [] OTHER -> 500

Risky(uncertainty) == uncertainty >= 330

-----------------------------------------------------------------------------
(* The failure detector, first match first. *)

Detected(progress, uncertainty, fb) ==
    CASE fb.code # "NONE" -> fb.code
      [] fb.code = "NONE" /\ fb.status = "FAILURE" -> "UNKNOWN"
      [] OTHER ->
         IF progress.elapsed >= MaxSkillSteps THEN "TIMEOUT"
         ELSE IF progress.stage = "STUCK" \/ progress.stagnant >= Patience
           THEN "NO_PROGRESS"
         ELSE IF progress.stage = "FAILED" THEN "POSTCONDITION_FAILED"
         ELSE IF uncertainty >= 700 THEN "LOW_CONFIDENCE"
         ELSE "NONE"

\* ExecuteSkillNode.tick after the executor has stepped: each part of the
\* feedback is the more telling of the executor's and the judges'.
Judged(fb, progress, uncertainty) ==
    LET code == Detected(progress, uncertainty, fb) IN
    [fb EXCEPT !.progress = IF progress.score >= @.score THEN progress ELSE @,
               !.uncertainty = Max({@, uncertainty}),
               !.code = code]
=============================================================================
