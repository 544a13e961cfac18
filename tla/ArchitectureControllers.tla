------------------------ MODULE ArchitectureControllers ------------------------
(***************************************************************************)
(* One row of the CRIE-BT ablation: run_episode of the three controllers   *)
(* (open loop, direct feedback, behaviour tree) over a planner, a skill    *)
(* executor and the observation that env.reset() returned once.            *)
(***************************************************************************)
EXTENDS BehaviourTree

CONSTANTS
    Scenarios,      \* failure scenarios the executor is built with
    SuccessAfter,   \* values of success_after_steps
    FailAttempts,   \* values of fail_attempts
    UncertaintyModes,
    InjectedPlans,  \* what a planner injected into LLMPlannerAdapter may return
    Observations,   \* what env.reset() may return
    MaxSteps        \* max_steps of the episode

ASSUME EpisodeAssumption ==
    /\ MaxSteps = MaxSkillSteps /\ Observations \subseteq Observation
    /\ InjectedPlans \subseteq Seq(Skills)

VARIABLES
    setup,      \* the arguments of the episode
    pc,         \* what run_episode does next
    tree, executor, monitor,
    result,     \* the last ControllerResult or ExecutionFeedback
    seen_events,
    log         \* the row the episode writes

vars == <<setup, pc, tree, executor, monitor, result, seen_events, log>>

Modes == {"open_loop", "direct_feedback", "bt_mediated"}

Setups ==
    [mode : Modes, planner : {"scripted", "llm", "injected"},
     backend : {"scripted", "stub"}, script :
        [scenario : Scenarios, success_after : SuccessAfter,
         fail_attempts : FailAttempts, low_confidence : BOOLEAN],
     uncertainty : UncertaintyModes, obs : Observations]

_empty_log ==
    [success |-> FALSE, steps |-> 0, completed |-> 0, failed |-> 0,
     planner_calls |-> 0, replans |-> 0, local_retries |-> 0, failures |-> 0,
     events |-> <<>>, explanations |-> 0]

NoFeedback == ScriptedStep([scenario |-> "none", success_after |-> 2,
                            fail_attempts |-> 0, low_confidence |-> FALSE], 1, 1)
NoResult == [status |-> "RUNNING", decision |-> "CONTINUE", feedback |-> NoFeedback]

Init ==
    /\ setup \in Setups
    /\ pc = "plan"
    /\ tree = NewTree(<<>>, 0)
    /\ executor = NewExecutor
    /\ monitor = NewMonitor
    /\ result = NoResult
    /\ seen_events = 0
    /\ log = _empty_log

-----------------------------------------------------------------------------
(* Planning. *)

\* ScriptedPlanner: one step; a failed target is replaced by its neighbour.
ScriptedPlan(code) ==
    <<IF code = "TARGET_OCCUPIED" THEN "front_right" ELSE "front_left">>

\* generate_plan, for a plan or for its replacement.
Planned(code, plan) ==
    \/ setup.planner = "scripted" /\ plan = ScriptedPlan(code)
    \/ setup.planner = "injected" /\ plan \in InjectedPlans

\* The adapter without a planner, and the executors without a backend, raise
\* NotImplementedError: the row is written as skipped, with nothing counted.
Skip ==
    /\ pc' = "skipped"
    /\ log' = _empty_log
    /\ UNCHANGED <<setup, tree, executor, monitor, result, seen_events>>

CannotPlan == pc = "plan" /\ setup.planner = "llm" /\ Skip

Backend(p) == pc = p /\ setup.backend = "stub" /\ Skip

\* start_skill of a stub, wherever a controller first calls it.
CannotExecute ==
    \/ Backend("start") /\ tree.index <= Len(tree.plan)
    \/ Backend("direct") /\ Len(tree.plan) > 0
    \/ Backend("tick") /\ tree.index <= Len(tree.plan)

FirstStep == CASE setup.mode = "open_loop" -> "start"
               [] setup.mode = "direct_feedback" -> "direct"
               [] OTHER -> "tick"

Plan ==
    /\ pc = "plan"
    /\ \E plan \in InjectedPlans \union {ScriptedPlan("NONE")} :
          /\ Planned("NONE", plan)
          /\ tree' = NewTree(plan, tree.clock)
    /\ log' = [log EXCEPT !.planner_calls = 1]
    /\ pc' = FirstStep
    /\ executor' = Stopped(executor)
    /\ UNCHANGED <<setup, monitor, result, seen_events>>

-----------------------------------------------------------------------------
(* OpenLoopController.run_episode. *)

StartSkill ==
    /\ pc = "start" /\ setup.backend = "scripted"
    /\ tree.index <= Len(tree.plan)
    /\ executor' = Started(executor, tree.plan[tree.index])
    /\ pc' = IF log.steps < MaxSteps THEN "step" ELSE "stop"
    /\ result' = [result EXCEPT !.feedback = NoFeedback]
    /\ UNCHANGED <<setup, tree, monitor, seen_events, log>>

OpenLoopStep ==
    /\ pc = "step"
    /\ LET fb == StepFeedback(setup.script, executor) IN
         /\ result' = [result EXCEPT !.feedback = fb]
         /\ pc' = IF fb.status = "RUNNING" /\ log.steps + 1 < MaxSteps
                    THEN "step" ELSE "stop"
    /\ executor' = Stepped(executor)
    /\ log' = [log EXCEPT !.steps = @ + 1]
    /\ UNCHANGED <<setup, tree, monitor, seen_events>>

Failing(fb) == IF fb.code # "NONE" THEN 1 ELSE 0

\* A skill that ended without success ends the episode.
StopSkill ==
    /\ pc = "stop"
    /\ LET fb == result.feedback
           done == fb.status = "SUCCESS" /\ fb.code = "NONE"
       IN  /\ tree' = [tree EXCEPT !.index = @ + 1]
           /\ log' = [log EXCEPT !.failures = @ + Failing(fb),
                                 !.completed = IF done THEN @ + 1 ELSE @,
                                 !.failed = IF done THEN @ ELSE @ + 1]
           /\ pc' = IF done THEN "start" ELSE "report"
    /\ executor' = Stopped(executor)
    /\ UNCHANGED <<setup, monitor, result, seen_events>>

\* Mutant of OpenLoopReport: the last step decides.
OpenLoopReportLast ==
    /\ \/ pc = "report"
       \/ pc = "start" /\ tree.index > Len(tree.plan)
    /\ log' = [log EXCEPT !.success = log.completed > 0 \/ Len(tree.plan) = 0]
    /\ pc' = "done"
    /\ UNCHANGED <<setup, tree, executor, monitor, result, seen_events>>

OpenLoopReport ==
    /\ \/ pc = "report"
       \/ pc = "start" /\ tree.index > Len(tree.plan)
    /\ log' = [log EXCEPT !.success = log.completed = Len(tree.plan)]
    /\ pc' = "done"
    /\ UNCHANGED <<setup, tree, executor, monitor, result, seen_events>>

-----------------------------------------------------------------------------
(* DirectFeedbackController.run_episode. *)

\* Mutant of NoFirstStep: the step is looked for again.
NoFirstStepRetried ==
    /\ pc = "direct" /\ Len(tree.plan) = 0
    /\ pc' = pc
    /\ UNCHANGED <<setup, tree, executor, monitor, result, seen_events, log>>

\* plan.steps[0] of a plan without steps raises IndexError, which no caller
\* catches.
NoFirstStep ==
    /\ pc = "direct" /\ Len(tree.plan) = 0
    /\ pc' = "raised"
    /\ UNCHANGED <<setup, tree, executor, monitor, result, seen_events, log>>

\* One iteration: start the first skill, step it once, stop it, and replan
\* unless it succeeded.
DirectStep ==
    /\ pc = "direct" /\ setup.backend = "scripted" /\ Len(tree.plan) > 0
    /\ LET started == Started(executor, tree.plan[1])
           fb == StepFeedback(setup.script, started)
       IN  /\ executor' = Stopped(Stepped(started))
           /\ result' = [result EXCEPT !.feedback = fb]
           /\ IF fb.status = "SUCCESS" /\ fb.code = "NONE"
                THEN /\ pc' = "done"
                     /\ log' = [log EXCEPT !.steps = @ + 1, !.completed = @ + 1,
                                           !.success = TRUE]
                ELSE /\ pc' = "redirect"
                     /\ log' = [log EXCEPT !.steps = @ + 1, !.failures = @ + Failing(fb),
                                           !.failed = @ + 1, !.replans = @ + 1,
                                           !.planner_calls = @ + 1]
    /\ UNCHANGED <<setup, tree, monitor, seen_events>>

DirectReplan ==
    /\ pc = "redirect"
    /\ \E plan \in InjectedPlans \union {ScriptedPlan(result.feedback.code)} :
          /\ Planned(result.feedback.code, plan)
          /\ tree' = NewTree(plan, tree.clock)
    /\ pc' = IF log.steps < MaxSteps THEN "direct" ELSE "done"
    /\ UNCHANGED <<setup, executor, monitor, result, seen_events, log>>

-----------------------------------------------------------------------------
(* BTMediatedController.run_episode. *)

\* The communication manager has something to say about an event.
Spoken(e) == e[2] \notin {"PLAN_STARTED", "EXECUTOR_FEEDBACK"}

\* What the loop over the tree's events adds: in their order, those the row does
\* not hold yet.
Unlogged(s, logged) ==
    LET kept == {k \in DOMAIN s : s[k] \notin logged}
    IN  [n \in 1 .. Cardinality(kept) |->
            s[CHOOSE k \in kept : Cardinality({j \in kept : j <= k}) = n]]

\* The returned events first, then whatever the tree has logged since.
Recorded(events, returned, all, seen) ==
    events \o returned
           \o Unlogged(SubSeq(all, seen + 1, Len(all)), Range(events) \union Range(returned))

\* A tick of a tree whose plan has no step left completes the task.
Emptied ==
    Ticked(Emit(tree, <<"TASK_COMPLETE">>), executor, monitor, NoFeedback,
           "SUCCESS", "CONTINUE", 1)

\* The results a tick can have: one.
TickResults ==
    IF tree.index > Len(tree.plan) THEN {Emptied}
    ELSE {TickStep(n) : n \in {NodeTick(setup.script, setup.uncertainty, tree,
                                        executor, monitor, setup.obs)}}

Tick ==
    /\ pc = "tick"
    /\ tree.index <= Len(tree.plan) => setup.backend = "scripted"
    /\ \E t \in TickResults :
          /\ tree' = t.tree
          /\ executor' = t.executor
          /\ monitor' = t.monitor
          /\ result' = [status |-> t.status, decision |-> t.decision,
                        feedback |-> t.feedback]
          /\ seen_events' = Len(t.tree.events)
          /\ log' = [log EXCEPT
                !.steps = @ + 1,
                !.events = Recorded(@, t.events, t.tree.events, seen_events),
                !.explanations = Len(SelectSeq(
                    Recorded(log.events, t.events, t.tree.events, seen_events), Spoken)),
                !.failures = @ + Failing(t.feedback),
                !.local_retries = IF t.decision = "LOCAL_RETRY" THEN @ + 1 ELSE @,
                !.success = t.status = "SUCCESS",
                !.completed = IF t.status = "SUCCESS" THEN t.tree.completed ELSE @]
          /\ pc' = CASE t.status = "SUCCESS" -> "done"
                     [] t.status = "FAILURE" -> "replan"
                     [] OTHER -> IF log.steps + 1 < MaxSteps THEN "tick" ELSE "done"
    /\ UNCHANGED setup

\* Mutant of Replan: the events of the new tree are counted from the old one.
ReplanKeepingSeen ==
    /\ pc = "replan"
    /\ \E plan \in InjectedPlans \union {ScriptedPlan(result.feedback.code)} :
          /\ Planned(result.feedback.code, plan)
          /\ tree' = NewTree(plan, tree.clock)
    /\ log' = [log EXCEPT !.failed = tree.failed, !.replans = @ + 1,
                          !.planner_calls = @ + 1]
    /\ executor' = Stopped(executor)
    /\ result' = NoResult
    /\ pc' = IF log.steps < MaxSteps THEN "tick" ELSE "done"
    /\ UNCHANGED <<setup, monitor, seen_events>>

\* Mutant of Replan: the new plan is taken without resetting the tree.
ReplanWithoutReset ==
    /\ pc = "replan"
    /\ \E plan \in InjectedPlans \union {ScriptedPlan(result.feedback.code)} :
          /\ Planned(result.feedback.code, plan)
    /\ log' = [log EXCEPT !.failed = tree.failed, !.replans = @ + 1,
                          !.planner_calls = @ + 1]
    /\ pc' = IF log.steps < MaxSteps THEN "tick" ELSE "done"
    /\ UNCHANGED <<setup, tree, executor, monitor, result, seen_events>>

\* A failure that asks for a replan: a fresh plan, and bt.reset.
Replan ==
    /\ pc = "replan"
    /\ \E plan \in InjectedPlans \union {ScriptedPlan(result.feedback.code)} :
          /\ Planned(result.feedback.code, plan)
          /\ tree' = NewTree(plan, tree.clock)
    /\ log' = [log EXCEPT !.failed = tree.failed, !.replans = @ + 1,
                          !.planner_calls = @ + 1]
    /\ executor' = Stopped(executor)
    /\ result' = NoResult
    /\ seen_events' = 0
    /\ pc' = IF log.steps < MaxSteps THEN "tick" ELSE "done"
    /\ UNCHANGED <<setup, monitor>>

Next ==
    \/ CannotPlan \/ CannotExecute \/ Plan
    \/ StartSkill \/ OpenLoopStep \/ StopSkill \/ OpenLoopReport
    \/ NoFirstStep \/ DirectStep \/ DirectReplan
    \/ Tick \/ Replan

Ended == pc \in {"done", "skipped", "raised"}

Spec == Init /\ [][Next]_vars /\ WF_vars(Next)

-----------------------------------------------------------------------------
(* Properties. *)

Recordings(type) == Cardinality({k \in DOMAIN log.events : log.events[k][2] = type})
Starts == executor.attempts["front_left"] + executor.attempts["front_right"]
            + executor.attempts["second"]

\* The row of a behaviour-tree episode can be read back from its events:
\* whatever the order in which returned and logged events were merged, and
\* across the resets of the tree, each event is there once, and the counters
\* agree with what the events tell (controllers.py, run_episode; events.py).
RowMatchesEvents ==
    setup.mode = "bt_mediated" /\ pc \notin {"plan", "skipped"} =>
        /\ \A j, k \in DOMAIN log.events : log.events[j] = log.events[k] => j = k
        /\ Recordings("SUBTASK_STARTED") = Starts
        /\ Recordings("EXECUTOR_FEEDBACK") =
               log.steps - (IF log.success /\ Len(tree.plan) = 0 THEN 1 ELSE 0)
        /\ Recordings("LOCAL_RETRY") = log.local_retries
        /\ Recordings("REQUEST_REPLAN") =
               log.replans + (IF pc = "replan" THEN 1 ELSE 0)
        /\ pc = "done" /\ log.success => Recordings("TASK_COMPLETE") = 1

\* While a skill is being ticked, the monitor has seen it exactly as often as
\* the executor has stepped it: the node restarts both or neither, also after
\* a local retry and after a replan.
MonitorFollowsExecutor ==
    pc = "tick" /\ tree.node = "started" =>
        /\ executor.active = tree.plan[tree.index]
        /\ monitor.elapsed = executor.tick

\* A row says success only if every step of the last plan was completed, and
\* in the tree only on feedback that carries no failure. Direct feedback looks
\* at the first step of a plan only and is left out.
SuccessIsTheWholePlan ==
    log.success /\ setup.mode # "direct_feedback" =>
        /\ log.completed = Len(tree.plan)
        /\ result.feedback.code = "NONE"

\* A failure that asks for a replan leaves the step and its started node in
\* place and the controller not done (bt_controller.py:144): such a tree is not
\* ticked again before the planner has answered and the tree was reset.
NoTickOnAbandonedPlan ==
    pc = "tick" => tree.failed = 0 /\ result.decision # "REQUEST_REPLAN"

\* Every episode comes to an end: retries, explanations and replans all spend
\* steps of the same budget.
EpisodeEnds == <>Ended
=============================================================================
