---------------------------- MODULE BehaviourTree ----------------------------
(***************************************************************************)
(* BehaviorTreeController with its ExecuteSkillNode and the scripted       *)
(* executor they drive.  The tree's state is one record, so that a tick is *)
(* a function of the tree, the executor, the monitor and an observation.   *)
(***************************************************************************)
EXTENDS SkillFeedback, Sequences, FiniteSets, Functions, TLC

CONSTANT MaxRetries

ASSUME RetriesAssumption == MaxRetries \in Nat

RECOVERABLE_FAILURES == {"MISSED_GRASP", "NO_PROGRESS", "SLIPPAGE"}

Skills == {"front_left", "front_right", "second"}

NewExecutor == [active |-> "none", tick |-> 0, attempts |-> [s \in Skills |-> 0]]

\* reset and stop leave the attempts alone.
Stopped(ex) == [ex EXCEPT !.active = "none", !.tick = 0]

Started(ex, skill) ==
    [ex EXCEPT !.active = skill, !.tick = 0, !.attempts[skill] = @ + 1]

\* step, which raises when no skill is active.
Stepped(ex) == [ex EXCEPT !.tick = @ + 1]
StepFeedback(script, ex) ==
    ScriptedStep(script, ex.attempts[ex.active], ex.tick + 1)

\* The tree after reset. node is absent, or holds whether it has started; clock
\* numbers the events.
NewTree(plan, clock) ==
    [plan |-> plan, index |-> 1, completed |-> 0, failed |-> 0,
     retries |-> [k \in 1 .. Len(plan) |-> 0], node |-> "none",
     events |-> <<<<clock, "PLAN_STARTED">>>>, clock |-> clock + 1]

Emit(tree, types) ==
    [tree EXCEPT !.events = @ \o [k \in 1 .. Len(types) |-> <<tree.clock + k - 1, types[k]>>],
                 !.clock = @ + Len(types)]

LastEvents(tree, n) ==
    SubSeq(tree.events, Len(tree.events) - n + 1, Len(tree.events))

\* What a tick returns: the ControllerResult, and the state it leaves.
Ticked(tree, ex, monitor, feedback, status, decision, returned) ==
    [tree |-> tree, executor |-> ex, monitor |-> monitor, feedback |-> feedback,
     status |-> status, decision |-> decision, events |-> LastEvents(tree, returned)]

\* ExecuteSkillNode.tick, first half: start the skill unless it has started.
NodeStarts(tree, ex) ==
    IF tree.node = "started" THEN ex ELSE Started(ex, tree.plan[tree.index])

\* Mutant of NodeMonitor: a retried skill keeps the progress of its last try.
NodeMonitorKept(tree, monitor) == monitor

NodeMonitor(tree, monitor) ==
    IF tree.node = "started" THEN monitor ELSE NewMonitor

\* ExecuteSkillNode.tick, second half, with the events it reports.
NodeTick(script, mode, tree, ex, monitor, obs) ==
    LET fb == StepFeedback(script, NodeStarts(tree, ex))
        progress == Progress(NodeMonitor(tree, monitor), obs)
    IN  [executor |-> Stepped(NodeStarts(tree, ex)),
         monitor |-> progress.monitor,
         feedback |-> Judged(fb, progress.state, Uncertainty(mode, fb)),
         tree |-> Emit([tree EXCEPT !.node = "started"],
                       (IF tree.node = "started" THEN <<>> ELSE <<"SUBTASK_STARTED">>)
                         \o <<"EXECUTOR_FEEDBACK">>)]

Succeeded(fb) ==
    /\ fb.code = "NONE"
    /\ \/ fb.status = "SUCCESS"
       \/ fb.progress.post
       \/ fb.progress.stage = "STABLE_SUCCESS"

Complete(n) ==
    LET done == [n.tree EXCEPT !.completed = @ + 1, !.index = @ + 1, !.node = "none"]
    IN  IF done.index > Len(done.plan)
          THEN Ticked(Emit(done, <<"SUBTASK_COMPLETED", "TASK_COMPLETE">>), n.executor,
                      n.monitor, n.feedback, "SUCCESS", "CONTINUE", 2)
          ELSE Ticked(Emit(done, <<"SUBTASK_COMPLETED">>), n.executor, n.monitor,
                      n.feedback, "RUNNING", "CONTINUE", 1)

MayRetry(tree, code) ==
    code \in RECOVERABLE_FAILURES /\ tree.retries[tree.index] < MaxRetries

\* _handle_failure: explain, retry here, or hand the failure to the planner. A
\* replan leaves the step, its node and the executor as they are.
HandleFailure(n) ==
    LET code == n.feedback.code
        tree == n.tree
        retried == [tree EXCEPT !.retries[tree.index] = @ + 1, !.node = "idle"]
        given_up == [tree EXCEPT !.failed = @ + 1]
    IN  CASE code = "LOW_CONFIDENCE" ->
               Ticked(Emit(tree, <<"LOW_CONFIDENCE">>), n.executor, n.monitor,
                      n.feedback, "RUNNING", "EXPLAIN", 1)
          [] MayRetry(tree, code) ->
               Ticked(Emit(retried, <<"LOCAL_RETRY">>), Stopped(n.executor), n.monitor,
                      n.feedback, "RUNNING", "LOCAL_RETRY", 1)
          [] OTHER ->
               Ticked(Emit(given_up, <<"REQUEST_REPLAN">>), n.executor, n.monitor,
                      n.feedback, "FAILURE", "REQUEST_REPLAN", 1)

\* BehaviorTreeController.tick while there is a step left, given its node's tick.
TickStep(n) ==
    CASE Succeeded(n.feedback) -> Complete(n)
      [] n.feedback.code # "NONE" -> HandleFailure(n)
      [] OTHER ->
         IF Risky(n.feedback.uncertainty)
           THEN Ticked(Emit(n.tree, <<"EXPLAIN">>), n.executor, n.monitor, n.feedback,
                       "RUNNING", "EXPLAIN", 1)
           ELSE Ticked(n.tree, n.executor, n.monitor, n.feedback, "RUNNING", "CONTINUE", 0)
=============================================================================
