---------------------------- MODULE PolicyRollout ----------------------------
(***************************************************************************)
(* run_policy_rollout: one direct episode of a policy, from policy.reset() *)
(* to result.json.  It is one operator per stretch of code that an         *)
(* interrupt or a crash can fall between, over a record that holds the     *)
(* function's locals and one that holds the episode's directory.           *)
(***************************************************************************)
EXTENDS ActionChunks

CONSTANTS
    MaxSteps,       \* config.max_steps
    Window,         \* config.no_progress_window
    Patience,       \* config.no_progress_patience
    ResetInfos,     \* what env.reset may return: [is_success, obs]
    StepInfos,      \* what env.step may return besides raising
    PolicyAnswers   \* what the processors and the network may return

\* collision_limit is None.
NoLimit == 0

\* An info: what a step reports, with the observation that came with it.
Infos == [is_success : BOOLEAN, unsafe_state : BOOLEAN, object_lost : BOOLEAN,
          collision : BOOLEAN, terminated : BOOLEAN, truncated : BOOLEAN,
          state : {0, 1}, obs : RawObservations]

ASSUME RolloutAssumption ==
    /\ MaxSteps \in Nat \ {0} /\ Window \in Nat \ {0} /\ Patience \in Nat \ {0}
    /\ ResetInfos \subseteq [is_success : BOOLEAN, obs : RawObservations]
    /\ StepInfos \subseteq Infos /\ PolicyAnswers \subseteq RawChunks

NoInfo == [is_success |-> FALSE, unsafe_state |-> FALSE, object_lost |-> FALSE,
           collision |-> FALSE, terminated |-> FALSE, truncated |-> FALSE]

\* An episode directory: its logged steps, its chunk trace, the rows of actions.npz and
\* of states.npz (0 - 1: not written), result.json and benchmark_result.json. Of one
\* whose removal has begun (torn) nothing more is said.
Unwritten == 0 - 1
NoResult == [reason |-> "none"]
NewDirectory == [exists |-> TRUE, torn |-> FALSE, events |-> 0, trace |-> <<>>,
                 arrays |-> Unwritten, states |-> Unwritten,
                 result |-> NoResult, row |-> NoResult]
NoDirectory == [NewDirectory EXCEPT !.exists = FALSE]
TornDirectory == [NewDirectory EXCEPT !.torn = TRUE]

\* shutil.rmtree takes file after file out, and the directory itself last.
Removed(dir) == IF dir.torn THEN NoDirectory ELSE TornDirectory

\* The locals on entry, with the first and the last of the writer's lists of a
\* transition: states and, for all those of actions.npz, buffered.
NewRollout(horizon) ==
    [queue |-> NewQueue(horizon), monitor |-> NewMonitor, info |-> NoInfo,
     obs |-> "none", queued |-> "none", next |-> "none", steps |-> 0, collisions |-> 0,
     violations |-> 0, no_progress |-> 0, states |-> 0, buffered |-> 0,
     success |-> FALSE, terminated |-> FALSE, truncated |-> FALSE, reason |-> "MAX_STEPS"]

EndedBy(ro, reason) == [ro EXCEPT !.terminated = TRUE, !.reason = reason]

Running(ro) == ~ro.terminated /\ ~ro.truncated /\ ro.steps < MaxSteps

\* env.reset returned.
AfterReset(ro, reset) ==
    LET seen == [ro EXCEPT !.obs = reset.obs, !.info.is_success = reset.is_success]
    IN  IF reset.is_success THEN [EndedBy(seen, "SUCCESS") EXCEPT !.success = TRUE]
        ELSE seen

\* The queue was empty: adapt the observation, infer, validate, load. Nothing of
\* the queue changes unless the chunk is loaded.
Refusal(ro, checkpoint, instruction, raw) ==
    LET v == validate_native_action_chunk(raw.rows, raw.dim_ok) IN
    IF ~to_policy_inputs(checkpoint, instruction, ro.obs) \/ ~Predicted(raw)
      THEN "POLICY_ERROR"
    ELSE IF ~v.finite THEN "NONFINITE_ACTION"
    ELSE IF ~v.shape_ok THEN "POLICY_ERROR"
    ELSE IF v.violation_count > 0 THEN "ACTION_OUT_OF_BOUNDS"
    ELSE "none"

Violations(ro, checkpoint, instruction, raw) ==
    IF Refusal(ro, checkpoint, instruction, raw) = "ACTION_OUT_OF_BOUNDS"
      THEN validate_native_action_chunk(raw.rows, raw.dim_ok).violation_count ELSE 0

\* load_chunk raises ActionQueueError, which is not caught around it.
LoadRaises(ro, checkpoint, instruction, raw) ==
    /\ Refusal(ro, checkpoint, instruction, raw) = "none"
    /\ ~Loadable(ro.queue, raw.rows)

AfterInference(ro, checkpoint, instruction, raw) ==
    LET refusal == Refusal(ro, checkpoint, instruction, raw) IN
    IF refusal = "none" THEN [ro EXCEPT !.queue = Loaded(@, raw.rows)]
    ELSE [EndedBy(ro, refusal) EXCEPT
              !.violations = @ + Violations(ro, checkpoint, instruction, raw)]

\* The popped action is validated once more, by itself.
PopRefusal(action) ==
    LET v == validate_native_action_chunk(<<action>>, TRUE) IN
    IF ~v.finite THEN "NONFINITE_ACTION"
    ELSE IF v.violation_count > 0 THEN "ACTION_OUT_OF_BOUNDS"
    ELSE "none"

\* env.step returned info, or raised; steps counts before anything is recorded.
AfterStep(ro, info) ==
    [ro EXCEPT !.info = [f \in DOMAIN NoInfo |-> info[f]], !.steps = @ + 1,
               !.queued = Head(ro.queue.items), !.queue = Popped(@),
               !.next = [state |-> info.state, obs |-> info.obs]]

AfterBridgeError(ro) == [EndedBy(ro, "BRIDGE_ERROR") EXCEPT !.queue = Popped(@)]

\* What append_chunk_trace adds.
TraceRow(ro) == <<ro.queued.chunk_id, ro.queued.offset>>

_monitor_reason(info, collisions, limit) ==
    IF info.unsafe_state THEN "UNSAFE_STATE"
    ELSE IF info.object_lost THEN "OBJECT_LOST"
    ELSE IF limit # NoLimit /\ collisions + (IF info.collision THEN 1 ELSE 0) >= limit
      THEN "COLLISION_LIMIT"
    ELSE "none"

Stalled(ro) == Observe(ro.monitor, Window, <<ro.next.state, ro.queued.action>>)

\* Mutant of JudgedReason: the task predicate is asked before the safety monitor.
JudgedReasonSuccessFirst(ro, limit) ==
    LET unsafe == _monitor_reason(ro.info, ro.collisions, limit) IN
    IF ro.info.is_success THEN "SUCCESS"
    ELSE IF unsafe # "none" THEN unsafe
    ELSE IF ro.info.terminated THEN "UNSAFE_STATE"
    ELSE IF ro.info.truncated THEN "MAX_STEPS"
    ELSE IF Stalled(ro).stalled >= Patience THEN "NO_PROGRESS"
    ELSE "none"

\* The reason to stop after a step, if any: the monitor's first.
JudgedReason(ro, limit) ==
    LET unsafe == _monitor_reason(ro.info, ro.collisions, limit) IN
    IF unsafe # "none" THEN unsafe
    ELSE IF ro.info.is_success THEN "SUCCESS"
    ELSE IF ro.info.terminated THEN "UNSAFE_STATE"
    ELSE IF ro.info.truncated THEN "MAX_STEPS"
    ELSE IF Stalled(ro).stalled >= Patience THEN "NO_PROGRESS"
    ELSE "none"

AfterJudgement(ro, limit) ==
    LET reason == JudgedReason(ro, limit)
        judged == [ro EXCEPT
            !.collisions = @ + (IF ro.info.collision THEN 1 ELSE 0),
            !.monitor = IF reason \in {"none", "NO_PROGRESS"} THEN Stalled(ro) ELSE @,
            !.success = reason = "SUCCESS", !.obs = ro.next.obs,
            !.queued = "none", !.next = "none"]
    IN  CASE reason = "none" -> judged
          [] reason = "MAX_STEPS" -> [judged EXCEPT !.truncated = TRUE]
          [] reason = "NO_PROGRESS" ->
                 [EndedBy(judged, reason) EXCEPT !.no_progress = @ + 1]
          [] OTHER -> EndedBy(judged, reason)

\* After the loop; then queue.clear() in any case.
Left(ro) ==
    [ro EXCEPT !.truncated = @ \/ (~ro.terminated /\ ro.steps >= MaxSteps),
               !.queue = Cleared(@)]

\* KeyboardInterrupt, caught around the whole loop: a success already found stays.
Interrupted(ro) == [EndedBy(ro, "MANUAL_INTERRUPT") EXCEPT !.queue = Cleared(@)]

PolicyRolloutResult(ro) ==
    [reason |-> ro.reason, success |-> ro.success, steps |-> ro.steps,
     evidence |-> ro.info.is_success, violations |-> ro.violations]
=============================================================================
