-------------------- MODULE ArchitectureControllers_proofs --------------------
(***************************************************************************)
(* Four invariants of the ablation's rows, for every scenario, plan,       *)
(* observation and limit: the monitor sees what the executor does, success *)
(* is success of the whole plan, an abandoned plan is not ticked, and a    *)
(* row can be read back from its events.                                   *)
(***************************************************************************)
EXTENDS ArchitectureControllers, TLAPS, FiniteSetTheorems, SequenceTheorems

TreeFields == {"plan", "index", "completed", "failed", "retries", "node", "events", "clock"}

IsTree(t) ==
    /\ DOMAIN t = TreeFields
    /\ t.plan \in Seq(Skills) /\ t.index \in 1 .. Len(t.plan) + 1

RecordsOK ==
    /\ IsTree(tree)
    /\ DOMAIN executor = {"active", "tick", "attempts"}
    /\ DOMAIN log = DOMAIN _empty_log
    /\ DOMAIN result = DOMAIN NoResult

\* Where each controller can be.
PlacesOK ==
    /\ pc \in {"plan", "done", "skipped"}
         \cup (CASE setup.mode = "open_loop" -> {"start", "step", "stop", "report"}
                 [] setup.mode = "direct_feedback" -> {"direct", "redirect", "raised"}
                 [] OTHER -> {"tick", "replan"})
    /\ log.success => pc = "done"
    /\ pc = "plan" => result = NoResult /\ log = _empty_log

\* The tree completes one step after the other.
Following(t, ex, m) ==
    /\ t.failed = 0 /\ t.completed = t.index - 1
    /\ t.node = "started" => ex.active = t.plan[t.index] /\ m.elapsed = ex.tick

TickInv ==
    pc = "tick" => Following(tree, executor, monitor) /\ result.decision # "REQUEST_REPLAN"

\* The open loop does, too, and stops at the first that is not completed.
OpenLoopInv ==
    /\ pc \in {"start", "step", "stop"} => log.completed = tree.index - 1
    /\ pc \in {"step", "stop"} => tree.index <= Len(tree.plan)
    /\ pc = "start" => result.feedback.code = "NONE"
    /\ pc = "report" => log.completed < Len(tree.plan)

IInv == RecordsOK /\ PlacesOK /\ TickInv /\ OpenLoopInv /\ SuccessIsTheWholePlan

-----------------------------------------------------------------------------
(* One tick.                                                               *)

LEMMA EmitKeeps ==
    ASSUME NEW t, IsTree(t), NEW types, NEW e, e = Emit(t, types)
    PROVE  /\ IsTree(e)
           /\ e.plan = t.plan /\ e.index = t.index /\ e.completed = t.completed
           /\ e.failed = t.failed /\ e.node = t.node
  BY DEF Emit, IsTree, TreeFields

LEMMA MonitorCounts ==
    ASSUME NEW m, NEW obs
    PROVE  Progress(m, obs).monitor.elapsed = m.elapsed + 1
  BY DEF Progress

\* The node starts executor and monitor together, and lets each do one step.
LEMMA NodeTickFollows ==
    ASSUME RecordsOK, tree.index <= Len(tree.plan), Following(tree, executor, monitor),
           NEW script, NEW mode, NEW obs,
           NEW n, n = NodeTick(script, mode, tree, executor, monitor, obs)
    PROVE  /\ IsTree(n.tree) /\ n.tree.plan = tree.plan /\ n.tree.index = tree.index
           /\ n.tree.node = "started"
           /\ DOMAIN n.executor = DOMAIN executor
           /\ Following(n.tree, n.executor, n.monitor)
  <1> DEFINE ex == NodeStarts(tree, executor)
             m == NodeMonitor(tree, monitor)
             started == [tree EXCEPT !.node = "started"]
  <1>1. /\ n.executor = Stepped(ex)
        /\ n.monitor = Progress(m, obs).monitor
        /\ \E types : n.tree = Emit(started, types)
    BY DEF NodeTick
  <1>2. /\ IsTree(started) /\ started.plan = tree.plan /\ started.index = tree.index
        /\ started.completed = tree.completed /\ started.failed = tree.failed
        /\ started.node = "started"
    BY DEF RecordsOK, IsTree, TreeFields
  <1>3. /\ IsTree(n.tree) /\ n.tree.plan = tree.plan /\ n.tree.index = tree.index
        /\ n.tree.completed = tree.completed /\ n.tree.failed = tree.failed
        /\ n.tree.node = "started"
    <2>1. PICK types : n.tree = Emit(started, types)
      BY <1>1
    <2> HIDE DEF started
    <2> QED
      BY <1>2, <2>1, EmitKeeps
  <1>4. /\ DOMAIN ex = DOMAIN executor
        /\ ex.active = tree.plan[tree.index] /\ m.elapsed = ex.tick
    BY DEF NodeStarts, NodeMonitor, NewMonitor, Started, Following, RecordsOK
  <1> HIDE DEF ex, m
  <1>5. /\ DOMAIN n.executor = DOMAIN ex
        /\ n.executor.active = ex.active /\ n.executor.tick = ex.tick + 1
    BY <1>1, <1>4 DEF Stepped, RecordsOK
  <1>6. n.monitor.elapsed = m.elapsed + 1
    BY <1>1, MonitorCounts
  <1> QED
    BY <1>3, <1>4, <1>5, <1>6 DEF Following

\* What a tick leaves: a tree to be ticked again, the whole plan done, or a failure.
Leaves(t) ==
    /\ IsTree(t.tree) /\ DOMAIN t.executor = {"active", "tick", "attempts"}
    /\ \/ /\ t.status = "RUNNING" /\ t.decision # "REQUEST_REPLAN"
          /\ Following(t.tree, t.executor, t.monitor)
       \/ /\ t.status = "SUCCESS" /\ t.feedback.code = "NONE"
          /\ t.tree.completed = Len(t.tree.plan)
       \/ t.status = "FAILURE"

LEMMA TickStepLeaves ==
    ASSUME NEW n, IsTree(n.tree), n.tree.index <= Len(n.tree.plan),
           n.tree.node = "started", DOMAIN n.executor = {"active", "tick", "attempts"},
           Following(n.tree, n.executor, n.monitor)
    PROVE  Leaves(TickStep(n))
  <1>1. CASE Succeeded(n.feedback)
    <2> DEFINE done == [n.tree EXCEPT !.completed = @ + 1, !.index = @ + 1, !.node = "none"]
    <2>1. /\ IsTree(done) /\ done.plan = n.tree.plan /\ done.index = n.tree.index + 1
          /\ done.completed = n.tree.completed + 1 /\ done.failed = n.tree.failed
          /\ done.node = "none"
      BY DEF IsTree, TreeFields
    <2>3. n.feedback.code = "NONE"
      BY <1>1 DEF Succeeded
    <2>2. TickStep(n) = Complete(n)
      BY <1>1, <2>3 DEF TickStep
    <2>4. CASE done.index > Len(done.plan)
      <3> DEFINE e == Emit(done, <<"SUBTASK_COMPLETED", "TASK_COMPLETE">>)
      <3>1. TickStep(n) = Ticked(e, n.executor, n.monitor, n.feedback, "SUCCESS",
                                 "CONTINUE", 2)
        BY <2>2, <2>4 DEF Complete
      <3> HIDE DEF done
      <3>2. IsTree(e) /\ e.plan = done.plan /\ e.completed = done.completed
        BY <2>1, EmitKeeps
      <3>3. done.completed = Len(done.plan)
        BY <2>1, <2>4 DEF IsTree, Following
      <3> HIDE DEF e
      <3> QED
        BY <2>3, <3>1, <3>2, <3>3 DEF Leaves, Ticked
    <2>5. CASE ~(done.index > Len(done.plan))
      <3> DEFINE e == Emit(done, <<"SUBTASK_COMPLETED">>)
      <3>1. TickStep(n) = Ticked(e, n.executor, n.monitor, n.feedback, "RUNNING",
                                 "CONTINUE", 1)
        BY <2>2, <2>5 DEF Complete
      <3> HIDE DEF done
      <3>2. /\ IsTree(e) /\ e.plan = done.plan /\ e.completed = done.completed
            /\ e.index = done.index /\ e.failed = done.failed /\ e.node = done.node
        BY <2>1, EmitKeeps
      <3>3. Following(e, n.executor, n.monitor)
        BY <2>1, <3>2 DEF IsTree, Following
      <3> HIDE DEF e
      <3> QED
        BY <3>1, <3>2, <3>3 DEF Leaves, Ticked
    <2> QED
      BY <2>4, <2>5
  <1>2. CASE ~Succeeded(n.feedback) /\ n.feedback.code # "NONE"
    <2> DEFINE code == n.feedback.code
               retried == [n.tree EXCEPT !.retries[n.tree.index] = @ + 1, !.node = "idle"]
               given_up == [n.tree EXCEPT !.failed = @ + 1]
    <2>1. TickStep(n) = HandleFailure(n)
      BY <1>2 DEF TickStep
    <2>2. CASE code = "LOW_CONFIDENCE"
      <3> DEFINE e == Emit(n.tree, <<"LOW_CONFIDENCE">>)
      <3>1. TickStep(n) = Ticked(e, n.executor, n.monitor, n.feedback, "RUNNING", "EXPLAIN", 1)
        BY <2>1, <2>2 DEF HandleFailure, MayRetry, RECOVERABLE_FAILURES
      <3>2. IsTree(e) /\ Following(e, n.executor, n.monitor)
        BY EmitKeeps DEF Following
      <3> HIDE DEF e
      <3> QED
        BY <3>1, <3>2 DEF Leaves, Ticked
    <2>3. CASE code # "LOW_CONFIDENCE" /\ MayRetry(n.tree, code)
      <3> DEFINE e == Emit(retried, <<"LOCAL_RETRY">>)
                 ex == Stopped(n.executor)
      <3>1. TickStep(n) = Ticked(e, ex, n.monitor, n.feedback, "RUNNING", "LOCAL_RETRY", 1)
        BY <2>1, <2>3 DEF HandleFailure
      <3>2. /\ IsTree(retried) /\ retried.plan = n.tree.plan /\ retried.index = n.tree.index
            /\ retried.completed = n.tree.completed /\ retried.failed = n.tree.failed
            /\ retried.node = "idle"
        BY DEF IsTree, TreeFields
      <3> HIDE DEF retried
      <3>3. IsTree(e) /\ Following(e, ex, n.monitor)
        BY <3>2, EmitKeeps DEF Following
      <3>4. DOMAIN ex = {"active", "tick", "attempts"}
        BY DEF Stopped
      <3> HIDE DEF e, ex
      <3> QED
        BY <3>1, <3>3, <3>4 DEF Leaves, Ticked
    <2>4. CASE code # "LOW_CONFIDENCE" /\ ~MayRetry(n.tree, code)
      <3> DEFINE e == Emit(given_up, <<"REQUEST_REPLAN">>)
      <3>1. TickStep(n) = Ticked(e, n.executor, n.monitor, n.feedback, "FAILURE",
                                 "REQUEST_REPLAN", 1)
        BY <2>1, <2>4 DEF HandleFailure
      <3>2. IsTree(given_up)
        BY DEF IsTree, TreeFields
      <3> HIDE DEF given_up
      <3>3. IsTree(e)
        BY <3>2, EmitKeeps
      <3> HIDE DEF e
      <3> QED
        BY <3>1, <3>3 DEF Leaves, Ticked
    <2> QED
      BY <2>2, <2>3, <2>4
  <1>3. CASE ~Succeeded(n.feedback) /\ n.feedback.code = "NONE"
    <2>1. CASE Risky(n.feedback.uncertainty)
      <3> DEFINE e == Emit(n.tree, <<"EXPLAIN">>)
      <3>1. TickStep(n) = Ticked(e, n.executor, n.monitor, n.feedback, "RUNNING", "EXPLAIN", 1)
        BY <1>3, <2>1 DEF TickStep
      <3>2. IsTree(e) /\ Following(e, n.executor, n.monitor)
        BY EmitKeeps DEF Following
      <3> HIDE DEF e
      <3> QED
        BY <3>1, <3>2 DEF Leaves, Ticked
    <2>2. CASE ~Risky(n.feedback.uncertainty)
      <3>1. TickStep(n) = Ticked(n.tree, n.executor, n.monitor, n.feedback, "RUNNING",
                                 "CONTINUE", 0)
        BY <1>3, <2>2 DEF TickStep
      <3> QED
        BY <3>1 DEF Leaves, Ticked
    <2> QED
      BY <2>1, <2>2
  <1> QED
    BY <1>1, <1>2, <1>3

-----------------------------------------------------------------------------
(* The rows.                                                               *)

LEMMA NoFeedbackIsGood == NoFeedback.code = "NONE"
  BY DEF NoFeedback, ScriptedStep, FailureForAttempt, Reported

LEMMA NewTrees ==
    ASSUME NEW plan \in Seq(Skills), NEW clock, NEW t, t = NewTree(plan, clock)
    PROVE  /\ IsTree(t) /\ t.plan = plan /\ t.index = 1 /\ t.completed = 0 /\ t.failed = 0
           /\ t.node = "none"
  BY DEF NewTree, IsTree, TreeFields

LEMMA PlansAreSteps ==
    ASSUME NEW code, NEW plan, Planned(code, plan)
    PROVE  plan \in Seq(Skills)
  <1>1. \A skill \in Skills : <<skill>> \in Seq(Skills)
    OBVIOUS
  <1>2. ScriptedPlan(code) \in Seq(Skills)
    BY <1>1 DEF ScriptedPlan, Skills
  <1> QED
    BY <1>2, EpisodeAssumption DEF Planned

LEMMA RowsInit == Init => IInv
  <1> SUFFICES ASSUME Init PROVE IInv
    OBVIOUS
  <1>1. setup.mode \in Modes
    BY DEF Init, Setups
  <1>2. IsTree(tree)
    <2>1. <<>> \in Seq(Skills)
      OBVIOUS
    <2> QED
      BY <2>1, NewTrees DEF Init
  <1>3. RecordsOK
    BY <1>2 DEF Init, RecordsOK, NewExecutor
  <1>4. PlacesOK
    BY <1>1 DEF Init, PlacesOK, _empty_log, Modes
  <1>5. TickInv /\ OpenLoopInv /\ SuccessIsTheWholePlan
    BY DEF Init, TickInv, OpenLoopInv, SuccessIsTheWholePlan, _empty_log
  <1> QED
    BY <1>3, <1>4, <1>5 DEF IInv

LEMMA RowsStep == IInv /\ [Next]_vars => IInv'
  <1> SUFFICES ASSUME IInv, [Next]_vars PROVE IInv'
    OBVIOUS
  <1>0. RecordsOK /\ PlacesOK /\ TickInv /\ OpenLoopInv /\ SuccessIsTheWholePlan
    BY DEF IInv
  <1> USE DEF _empty_log, NoResult
  <1>1. CASE CannotPlan \/ CannotExecute
    BY <1>0, <1>1
    DEF CannotPlan, CannotExecute, Backend, Skip, IInv, RecordsOK, PlacesOK, TickInv,
        OpenLoopInv, SuccessIsTheWholePlan
  <1>2. CASE Plan
    <2>1. PICK plan : Planned("NONE", plan) /\ tree' = NewTree(plan, tree.clock)
      BY <1>2 DEF Plan
    <2>2. /\ IsTree(tree') /\ tree'.index = 1 /\ tree'.completed = 0 /\ tree'.failed = 0
          /\ tree'.node = "none"
      BY <2>1, PlansAreSteps, NewTrees
    <2>3. /\ pc = "plan" /\ pc' = FirstStep /\ executor' = Stopped(executor)
          /\ log' = [log EXCEPT !.planner_calls = 1]
          /\ result = NoResult /\ log = _empty_log
          /\ UNCHANGED <<setup, monitor, result, seen_events>>
      BY <1>0, <1>2 DEF Plan, PlacesOK
    <2>4. RecordsOK'
      BY <1>0, <2>2, <2>3 DEF RecordsOK, Stopped
    <2>5. PlacesOK'
      BY <2>3 DEF PlacesOK, FirstStep
    <2>6. TickInv'
      BY <2>2, <2>3 DEF TickInv, Following
    <2>7. OpenLoopInv' /\ SuccessIsTheWholePlan'
      BY <2>2, <2>3, NoFeedbackIsGood DEF OpenLoopInv, SuccessIsTheWholePlan, FirstStep
    <2> QED
      BY <2>4, <2>5, <2>6, <2>7 DEF IInv
  <1>3. CASE StartSkill
    BY <1>0, <1>3
    DEF StartSkill, Started, IInv, RecordsOK, PlacesOK, TickInv, OpenLoopInv,
        SuccessIsTheWholePlan
  <1>4. CASE OpenLoopStep
    BY <1>0, <1>4
    DEF OpenLoopStep, Stepped, IInv, RecordsOK, PlacesOK, TickInv, OpenLoopInv,
        SuccessIsTheWholePlan
  <1>5. CASE StopSkill
    <2>1. setup.mode = "open_loop"
      BY <1>0, <1>5 DEF StopSkill, PlacesOK
    <2>2. /\ IsTree(tree') /\ tree'.plan = tree.plan /\ tree'.index = tree.index + 1
      BY <1>0, <1>5 DEF StopSkill, RecordsOK, IsTree, TreeFields, OpenLoopInv
    <2>3. RecordsOK'
      BY <1>0, <1>5, <2>2 DEF StopSkill, Stopped, RecordsOK
    <2>4. PlacesOK'
      BY <1>0, <1>5, <2>1 DEF StopSkill, RecordsOK, PlacesOK
    <2>5. OpenLoopInv'
      BY <1>0, <1>5, <2>2 DEF StopSkill, RecordsOK, IsTree, OpenLoopInv
    <2>6. TickInv' /\ SuccessIsTheWholePlan'
      BY <1>0, <1>5 DEF StopSkill, RecordsOK, PlacesOK, TickInv, SuccessIsTheWholePlan
    <2> QED
      BY <2>3, <2>4, <2>5, <2>6 DEF IInv
  <1>6. CASE OpenLoopReport
    <2>1. /\ \/ pc = "report"
             \/ pc = "start" /\ tree.index > Len(tree.plan)
          /\ log' = [log EXCEPT !.success = log.completed = Len(tree.plan)]
          /\ pc' = "done"
          /\ UNCHANGED <<setup, tree, executor, monitor, result, seen_events>>
      BY <1>6 DEF OpenLoopReport
    <2>2. /\ DOMAIN log' = DOMAIN log /\ log'.completed = log.completed
          /\ log'.success <=> log.completed = Len(tree.plan)
      BY <1>0, <2>1 DEF RecordsOK
    <2>3. RecordsOK' /\ PlacesOK' /\ TickInv' /\ OpenLoopInv'
      BY <1>0, <2>1, <2>2 DEF RecordsOK, PlacesOK, TickInv, OpenLoopInv
    <2>4. log.completed = Len(tree.plan) => result.feedback.code = "NONE"
      BY <1>0, <2>1 DEF OpenLoopInv, RecordsOK, IsTree
    <2>5. SuccessIsTheWholePlan'
      BY <2>1, <2>2, <2>4 DEF SuccessIsTheWholePlan
    <2> QED
      BY <2>3, <2>5 DEF IInv
  <1>7. CASE NoFirstStep
    BY <1>0, <1>7
    DEF NoFirstStep, IInv, RecordsOK, PlacesOK, TickInv, OpenLoopInv, SuccessIsTheWholePlan
  <1>8. CASE DirectStep
    <2>1. setup.mode = "direct_feedback" /\ setup' = setup
      BY <1>0, <1>8 DEF DirectStep, PlacesOK
    <2>2. RecordsOK'
      BY <1>0, <1>8 DEF DirectStep, Started, Stepped, Stopped, RecordsOK
    <2>3. PlacesOK'
      BY <1>0, <1>8, <2>1 DEF DirectStep, PlacesOK, RecordsOK
    <2>4. TickInv' /\ OpenLoopInv' /\ SuccessIsTheWholePlan'
      BY <1>8, <2>1 DEF DirectStep, TickInv, OpenLoopInv, SuccessIsTheWholePlan
    <2> QED
      BY <2>2, <2>3, <2>4 DEF IInv
  <1>9. CASE DirectReplan
    <2>1. PICK plan : /\ Planned(result.feedback.code, plan)
                      /\ tree' = NewTree(plan, tree.clock)
      BY <1>9 DEF DirectReplan
    <2>2. IsTree(tree')
      BY <2>1, PlansAreSteps, NewTrees
    <2>3. setup.mode = "direct_feedback" /\ setup' = setup
      BY <1>0, <1>9 DEF DirectReplan, PlacesOK
    <2> QED
      BY <1>0, <1>9, <2>2, <2>3
      DEF DirectReplan, IInv, RecordsOK, PlacesOK, TickInv, OpenLoopInv,
          SuccessIsTheWholePlan
  <1>10. CASE Tick
    <2>1. PICK t \in TickResults :
              /\ tree' = t.tree /\ executor' = t.executor /\ monitor' = t.monitor
              /\ result' = [status |-> t.status, decision |-> t.decision,
                            feedback |-> t.feedback]
              /\ DOMAIN log' = DOMAIN log
              /\ log'.success <=> t.status = "SUCCESS"
              /\ log'.completed = IF t.status = "SUCCESS" THEN t.tree.completed
                                  ELSE log.completed
              /\ pc' = CASE t.status = "SUCCESS" -> "done"
                         [] t.status = "FAILURE" -> "replan"
                         [] OTHER -> IF log.steps + 1 < MaxSteps THEN "tick" ELSE "done"
      BY <1>0, <1>10 DEF Tick, RecordsOK
    <2>2. /\ pc = "tick" /\ setup' = setup
          /\ setup.mode # "open_loop" /\ setup.mode # "direct_feedback"
      BY <1>0, <1>10 DEF Tick, PlacesOK
    <2>3. Following(tree, executor, monitor)
      BY <1>0, <2>2 DEF TickInv
    <2>4. Leaves(t)
      <3>1. CASE tree.index > Len(tree.plan)
        <4> DEFINE e == Emit(tree, <<"TASK_COMPLETE">>)
        <4>1. t = Ticked(e, executor, monitor, NoFeedback, "SUCCESS", "CONTINUE", 1)
          BY <2>1, <3>1 DEF TickResults, Emptied
        <4>2. IsTree(e) /\ e.plan = tree.plan /\ e.completed = tree.completed
          BY <1>0, EmitKeeps DEF RecordsOK
        <4> HIDE DEF e
        <4>3. tree.completed = Len(tree.plan)
          BY <1>0, <2>3, <3>1 DEF RecordsOK, IsTree, Following
        <4> QED
          BY <1>0, <4>1, <4>2, <4>3, NoFeedbackIsGood DEF Leaves, Ticked, RecordsOK
      <3>2. CASE ~(tree.index > Len(tree.plan))
        <4>1. PICK n : /\ n = NodeTick(setup.script, setup.uncertainty, tree, executor,
                                       monitor, setup.obs)
                       /\ t = TickStep(n)
          BY <2>1, <3>2 DEF TickResults
        <4>2. tree.index <= Len(tree.plan)
          BY <1>0, <3>2 DEF RecordsOK, IsTree
        <4>3. /\ IsTree(n.tree) /\ n.tree.plan = tree.plan /\ n.tree.index = tree.index
              /\ n.tree.node = "started"
              /\ DOMAIN n.executor = DOMAIN executor
              /\ Following(n.tree, n.executor, n.monitor)
          BY <1>0, <2>3, <4>1, <4>2, NodeTickFollows
        <4>4. DOMAIN executor = {"active", "tick", "attempts"}
          BY <1>0 DEF RecordsOK
        <4> QED
          BY <4>1, <4>2, <4>3, <4>4, TickStepLeaves
      <3> QED
        BY <3>1, <3>2
    <2>5. RecordsOK'
      BY <1>0, <2>1, <2>4 DEF RecordsOK, Leaves
    <2>6. PlacesOK'
      BY <2>1, <2>2, <2>4 DEF PlacesOK, Leaves
    <2>7. TickInv'
      BY <2>1, <2>4 DEF TickInv, Leaves
    <2>8. OpenLoopInv'
      BY <2>1, <2>4 DEF OpenLoopInv, Leaves
    <2>9. SuccessIsTheWholePlan'
      BY <2>1, <2>4 DEF SuccessIsTheWholePlan, Leaves
    <2> QED
      BY <2>5, <2>6, <2>7, <2>8, <2>9 DEF IInv
  <1>11. CASE Replan
    <2>1. PICK plan : /\ Planned(result.feedback.code, plan)
                      /\ tree' = NewTree(plan, tree.clock)
      BY <1>11 DEF Replan
    <2>2. /\ IsTree(tree') /\ tree'.index = 1 /\ tree'.completed = 0 /\ tree'.failed = 0
          /\ tree'.node = "none"
      BY <2>1, PlansAreSteps, NewTrees
    <2>3. /\ pc = "replan" /\ pc' \in {"tick", "done"} /\ setup' = setup
          /\ setup.mode # "open_loop" /\ setup.mode # "direct_feedback"
          /\ executor' = Stopped(executor) /\ result' = NoResult /\ ~log.success
      BY <1>0, <1>11 DEF Replan, PlacesOK
    <2>4. DOMAIN log' = DOMAIN log /\ ~log'.success
      BY <1>0, <1>11, <2>3 DEF Replan, RecordsOK
    <2>5. RecordsOK'
      BY <1>0, <2>2, <2>3, <2>4 DEF RecordsOK, Stopped
    <2>6. PlacesOK' /\ TickInv' /\ OpenLoopInv' /\ SuccessIsTheWholePlan'
      BY <2>2, <2>3, <2>4
      DEF PlacesOK, TickInv, Following, OpenLoopInv, SuccessIsTheWholePlan
    <2> QED
      BY <2>5, <2>6 DEF IInv
  <1>12. CASE UNCHANGED vars
    BY <1>0, <1>12
    DEF vars, IInv, RecordsOK, PlacesOK, TickInv, OpenLoopInv, SuccessIsTheWholePlan
  <1> QED
    BY <1>1, <1>2, <1>3, <1>4, <1>5, <1>6, <1>7, <1>8, <1>9, <1>10, <1>11, <1>12 DEF Next

LEMMA RowsHold == Spec => []IInv
  BY RowsInit, RowsStep, PTL DEF Spec

\* While a skill is being ticked the monitor has seen it exactly as often as the
\* executor has stepped it, across retries and replans (ExecuteSkillNode.tick).
THEOREM MonitorAlwaysFollowsExecutor == Spec => []MonitorFollowsExecutor
  <1>1. IInv => MonitorFollowsExecutor
    BY DEF IInv, TickInv, Following, MonitorFollowsExecutor
  <1> QED
    BY <1>1, RowsHold, PTL

\* Open loop and behaviour tree say success only when every step of the last plan was
\* completed and the last feedback carries no failure (run_episode of both).
THEOREM SuccessIsAlwaysTheWholePlan == Spec => []SuccessIsTheWholePlan
  <1>1. IInv => SuccessIsTheWholePlan
    BY DEF IInv
  <1> QED
    BY <1>1, RowsHold, PTL

\* A tree that asked for a replan is not ticked again before it was reset
\* (BTMediatedController.run_episode, BehaviorTreeController._handle_failure).
THEOREM AbandonedPlansAreNeverTicked == Spec => []NoTickOnAbandonedPlan
  <1>1. IInv => NoTickOnAbandonedPlan
    BY DEF IInv, TickInv, Following, NoTickOnAbandonedPlan
  <1> QED
    BY <1>1, RowsHold, PTL

-----------------------------------------------------------------------------
(* Sequences without repetition, and what the loop over the events adds.   *)

\* A sequence that holds each of its elements once.
Once(s) == \A j, k \in DOMAIN s : s[j] = s[k] => j = k

UpTo(kept, k) == {j \in kept : j <= k}

\* Among n kept positions, the ranks are 1 .. n, each taken once.
LEMMA RanksAreTaken ==
    ASSUME NEW m \in Nat, NEW kept \in SUBSET (1 .. m)
    PROVE  /\ Cardinality(kept) \in Nat
           /\ \A k \in kept : Cardinality(UpTo(kept, k)) \in 1 .. Cardinality(kept)
           /\ \A j, k \in kept : Cardinality(UpTo(kept, j)) = Cardinality(UpTo(kept, k)) => j = k
           /\ \A n \in 1 .. Cardinality(kept) : \E k \in kept : Cardinality(UpTo(kept, k)) = n
  <1> DEFINE rank == [k \in kept |-> Cardinality(UpTo(kept, k))]
             N == Cardinality(kept)
  <1>1. IsFiniteSet(kept) /\ N \in Nat
    <2>1. IsFiniteSet(1 .. m)
      BY FS_Interval
    <2> QED
      BY <2>1, FS_Subset, FS_CardinalityType
  <1>2. ASSUME NEW k \in kept
        PROVE  IsFiniteSet(UpTo(kept, k)) /\ Cardinality(UpTo(kept, k)) \in 1 .. N
    <2>1. UpTo(kept, k) \in SUBSET kept /\ k \in UpTo(kept, k)
      BY DEF UpTo
    <2>2. /\ IsFiniteSet(UpTo(kept, k)) /\ Cardinality(UpTo(kept, k)) <= N
          /\ Cardinality(UpTo(kept, k)) \in Nat
      BY <1>1, <2>1, FS_Subset, FS_CardinalityType
    <2>3. Cardinality(UpTo(kept, k)) # 0
      BY <2>1, <2>2, FS_EmptySet
    <2> QED
      BY <1>1, <2>2, <2>3
  <1>3. ASSUME NEW j \in kept, NEW k \in kept, j < k
        PROVE  Cardinality(UpTo(kept, j)) # Cardinality(UpTo(kept, k))
    <2>1. UpTo(kept, j) \in SUBSET UpTo(kept, k) /\ k \in UpTo(kept, k) \ UpTo(kept, j)
      <3>1. j \in Int /\ k \in Int /\ \A a \in kept : a \in Int
        OBVIOUS
      <3>2. k <= k /\ ~(k <= j) /\ \A a \in kept : a <= j => a <= k
        BY <1>3, <3>1
      <3> QED
        BY <3>2 DEF UpTo
    <2> QED
      BY <1>2, <2>1, FS_Subset
  <1>4. \A j, k \in kept : Cardinality(UpTo(kept, j)) = Cardinality(UpTo(kept, k)) => j = k
    <2> SUFFICES ASSUME NEW j \in kept, NEW k \in kept, j # k
                 PROVE  Cardinality(UpTo(kept, j)) # Cardinality(UpTo(kept, k))
      OBVIOUS
    <2>1. j < k \/ k < j
      OBVIOUS
    <2> QED
      BY <1>3, <2>1
  <1>5. rank \in Injection(kept, 1 .. N)
    <2>1. rank \in [kept -> 1 .. N]
      BY <1>2
    <2>2. \A a, b \in kept : rank[a] = rank[b] => a = b
      BY <1>4
    <2> QED
      BY <2>1, <2>2 DEF Injection, IsInjective
  <1>6. rank \in Surjection(kept, 1 .. N)
    <2>1. IsFiniteSet(1 .. N) /\ Cardinality(1 .. N) = N
      BY <1>1, FS_Interval
    <2> HIDE DEF rank
    <2> QED
      BY <1>5, <2>1, FS_Injection
  <1>7. \A n \in 1 .. N : \E k \in kept : rank[k] = n
    <2> HIDE DEF rank
    <2> QED
      BY <1>6 DEF Surjection
  <1> QED
    BY <1>1, <1>2, <1>4, <1>7

\* What the loop adds: once each, the elements that were not logged.
LEMMA UnloggedIsTheRest ==
    ASSUME NEW S, NEW s \in Seq(S), Once(s), NEW logged, NEW u, u = Unlogged(s, logged)
    PROVE  /\ u \in Seq(S) /\ Once(u)
           /\ \A e : (\E k \in DOMAIN u : u[k] = e)
                       <=> e \notin logged /\ \E k \in DOMAIN s : s[k] = e
  <1> DEFINE kept == {k \in DOMAIN s : s[k] \notin logged}
             N == Cardinality(kept)
             pick(n) == CHOOSE k \in kept : Cardinality(UpTo(kept, k)) = n
  <1>1. DOMAIN s = 1 .. Len(s) /\ Len(s) \in Nat /\ \A k \in 1 .. Len(s) : s[k] \in S
    OBVIOUS
  <1>2. kept \in SUBSET (1 .. Len(s))
    BY <1>1
  <1>3. u = [n \in 1 .. N |-> s[pick(n)]]
    BY DEF Unlogged, UpTo
  <1>9. \A k \in kept : k \in DOMAIN s /\ s[k] \notin logged
    OBVIOUS
  <1>10. \A k \in DOMAIN s : s[k] \notin logged => k \in kept
    OBVIOUS
  <1> HIDE DEF kept
  <1>4. /\ N \in Nat
        /\ \A k \in kept : Cardinality(UpTo(kept, k)) \in 1 .. N
        /\ \A j, k \in kept : Cardinality(UpTo(kept, j)) = Cardinality(UpTo(kept, k)) => j = k
        /\ \A n \in 1 .. N : \E k \in kept : Cardinality(UpTo(kept, k)) = n
    BY <1>1, <1>2, RanksAreTaken
  <1> HIDE DEF N
  <1>5. \A n \in 1 .. N : pick(n) \in kept /\ Cardinality(UpTo(kept, pick(n))) = n
    BY <1>4
  <1>6. \A k \in kept : pick(Cardinality(UpTo(kept, k))) = k
    BY <1>4, <1>5
  <1> HIDE DEF pick
  <1>7. u \in [1 .. N -> S] /\ DOMAIN u = 1 .. N /\ \A n \in 1 .. N : u[n] = s[pick(n)]
    BY <1>1, <1>2, <1>3, <1>5
  <1>11. u \in Seq(S)
    BY <1>4, <1>7
  <1>12. Once(u)
    <2> SUFFICES ASSUME NEW m \in 1 .. N, NEW n \in 1 .. N, u[m] = u[n] PROVE m = n
      BY <1>7 DEF Once
    <2>1. pick(m) = pick(n)
      BY <1>5, <1>7, <1>9 DEF Once
    <2> QED
      BY <1>5, <2>1
  <1>13. ASSUME NEW e, NEW k \in DOMAIN u, u[k] = e
         PROVE  e \notin logged /\ \E j \in DOMAIN s : s[j] = e
    BY <1>5, <1>7, <1>9, <1>13
  <1>14. ASSUME NEW k \in DOMAIN s, s[k] \notin logged
         PROVE  \E n \in DOMAIN u : u[n] = s[k]
    <2>1. k \in kept
      BY <1>10, <1>14
    <2> QED
      BY <1>4, <1>6, <1>7, <2>1
  <1> QED
    BY <1>11, <1>12, <1>13, <1>14

-----------------------------------------------------------------------------
EventTypes ==
    {"PLAN_STARTED", "SUBTASK_STARTED", "EXECUTOR_FEEDBACK", "SUBTASK_COMPLETED",
     "TASK_COMPLETE", "LOW_CONFIDENCE", "LOCAL_RETRY", "REQUEST_REPLAN", "EXPLAIN"}

Event == Int \X EventTypes

Telling(s, type) == {k \in DOMAIN s : s[k][2] = type}

\* The events of a row are counted by what they are, not by where they stand.
LEMMA CountIsOfEvents ==
    ASSUME NEW s \in Seq(Event), Once(s), NEW type
    PROVE  /\ IsFiniteSet({e \in Range(s) : e[2] = type})
           /\ Cardinality({e \in Range(s) : e[2] = type}) = Cardinality(Telling(s, type))
           /\ Cardinality(Telling(s, type)) \in Nat
  <1> DEFINE T == {e \in Range(s) : e[2] = type}
             K == Telling(s, type)
             f == [k \in K |-> s[k]]
  <1>1. DOMAIN s = 1 .. Len(s) /\ Len(s) \in Nat
    OBVIOUS
  <1>2. IsFiniteSet(K)
    <2>1. IsFiniteSet(1 .. Len(s))
      BY <1>1, FS_Interval
    <2> QED
      BY <1>1, <2>1, FS_Subset DEF Telling
  <1>3. f \in [K -> T]
    BY DEF Telling, Range
  <1>4. \A a, b \in K : f[a] = f[b] => a = b
    BY DEF Once, Telling
  <1>5. \A e \in T : \E k \in K : f[k] = e
    BY DEF Telling, Range
  <1> HIDE DEF f, T, K
  <1>6. ExistsBijection(K, T)
    BY <1>3, <1>4, <1>5
    DEF ExistsBijection, Bijection, Injection, Surjection, IsInjective
  <1> USE DEF T, K
  <1> QED
    BY <1>2, <1>6, FS_Bijection, FS_CardinalityType

\* A row grown by new events counts one more of a type if one of them tells it,
\* and no more than one does.
LEMMA CountGrows ==
    ASSUME NEW s \in Seq(Event), Once(s), NEW r \in Seq(Event), Once(r),
           NEW N, Range(r) = Range(s) \cup N, Range(s) \cap N = {}, NEW type,
           \A a, b \in N : a[2] = type /\ b[2] = type => a = b
    PROVE  Cardinality(Telling(r, type)) =
             Cardinality(Telling(s, type)) + IF \E e \in N : e[2] = type THEN 1 ELSE 0
  <1> DEFINE R == {e \in Range(r) : e[2] = type}
             S == {e \in Range(s) : e[2] = type}
  <1>1. /\ IsFiniteSet(S) /\ Cardinality(S) = Cardinality(Telling(s, type))
        /\ Cardinality(R) = Cardinality(Telling(r, type)) /\ Cardinality(S) \in Nat
    BY CountIsOfEvents
  <1>2. CASE \E e \in N : e[2] = type
    <2>1. PICK e \in N : e[2] = type
      BY <1>2
    <2>2. R = S \cup {e} /\ e \notin S
      BY <2>1
    <2> HIDE DEF R, S
    <2> QED
      BY <1>1, <1>2, <2>2, FS_AddElement
  <1>3. CASE ~\E e \in N : e[2] = type
    <2>1. R = S
      BY <1>3
    <2> HIDE DEF R, S
    <2>2. Cardinality(Telling(r, type)) = Cardinality(Telling(s, type)) + 0
      BY <1>1, <2>1
    <2> QED
      BY <1>3, <2>2
  <1> QED
    BY <1>2, <1>3

\* The returned events are some the tree has not shown, and the row holds none of those.
Mergeable(events, returned, all, seen) ==
    /\ events \in Seq(Event) /\ Once(events)
    /\ returned \in Seq(Event) /\ Once(returned)
    /\ all \in Seq(Event) /\ seen \in 0 .. Len(all)
    /\ \A j \in DOMAIN returned : \E k \in seen + 1 .. Len(all) : all[k] = returned[j]
    /\ \A j, k \in seen + 1 .. Len(all) : all[j] = all[k] => j = k
    /\ \A j \in DOMAIN events, k \in seen + 1 .. Len(all) : events[j] # all[k]

\* What the loop leaves in the row: what was there and what the tree had not shown.
LEMMA RecordedHolds ==
    ASSUME NEW events, NEW returned, NEW all, NEW seen,
           Mergeable(events, returned, all, seen),
           NEW r, r = Recorded(events, returned, all, seen)
    PROVE  /\ r \in Seq(Event) /\ Once(r)
           /\ Range(r) = Range(events) \cup {all[k] : k \in seen + 1 .. Len(all)}
  <1> DEFINE fresh == SubSeq(all, seen + 1, Len(all))
             logged == Range(events) \cup Range(returned)
             u == Unlogged(fresh, logged)
  <1> USE DEF Mergeable
  <1>1. /\ fresh \in Seq(Event) /\ Len(fresh) = Len(all) - seen
        /\ \A k \in 1 .. Len(fresh) : fresh[k] = all[seen + k]
    OBVIOUS
  <1>2. DOMAIN fresh = 1 .. Len(fresh) /\ Len(fresh) \in Nat /\ Len(all) \in Nat
    BY <1>1
  <1> HIDE DEF fresh
  <1>3. \A e : (\E k \in DOMAIN fresh : fresh[k] = e) <=> \E k \in seen + 1 .. Len(all) : all[k] = e
    <2>1. ASSUME NEW k \in DOMAIN fresh PROVE seen + k \in seen + 1 .. Len(all)
      BY <1>1, <1>2
    <2>2. ASSUME NEW k \in seen + 1 .. Len(all)
          PROVE  k - seen \in DOMAIN fresh /\ fresh[k - seen] = all[k]
      BY <1>1, <1>2
    <2>3. \A k \in DOMAIN fresh : fresh[k] = all[seen + k]
      BY <1>1, <1>2
    <2>4. ASSUME NEW e, NEW k \in DOMAIN fresh, fresh[k] = e
          PROVE  \E i \in seen + 1 .. Len(all) : all[i] = e
      BY <2>1, <2>3, <2>4
    <2>5. ASSUME NEW e, NEW k \in seen + 1 .. Len(all), all[k] = e
          PROVE  \E i \in DOMAIN fresh : fresh[i] = e
      BY <2>2, <2>5
    <2> QED
      BY <2>4, <2>5
  <1>4. Once(fresh)
    <2> SUFFICES ASSUME NEW j \in DOMAIN fresh, NEW k \in DOMAIN fresh, fresh[j] = fresh[k]
                 PROVE  j = k
      BY DEF Once
    <2>1. /\ seen + j \in seen + 1 .. Len(all) /\ seen + k \in seen + 1 .. Len(all)
          /\ all[seen + j] = all[seen + k]
      BY <1>1, <1>2
    <2>2. seen + j = seen + k
      BY <2>1
    <2> QED
      BY <1>2, <2>2
  <1>5. /\ u \in Seq(Event) /\ Once(u)
        /\ \A e : (\E k \in DOMAIN u : u[k] = e)
                    <=> e \notin logged /\ \E k \in DOMAIN fresh : fresh[k] = e
    <2>1. u = Unlogged(fresh, logged)
      OBVIOUS
    <2> HIDE DEF u, logged
    <2> QED
      BY <1>1, <1>4, <2>1, UnloggedIsTheRest
  <1>6. r = events \o returned \o u
    BY DEF Recorded, fresh
  <1> HIDE DEF u
  <1>7. /\ r \in Seq(Event) /\ Len(r) = Len(events) + Len(returned) + Len(u)
        /\ \A k \in 1 .. Len(events) : r[k] = events[k]
        /\ \A k \in 1 .. Len(returned) : r[Len(events) + k] = returned[k]
        /\ \A k \in 1 .. Len(u) : r[Len(events) + Len(returned) + k] = u[k]
    BY <1>5, <1>6
  <1> DEFINE E == Len(events)
             R == Len(returned)
  <1>8. /\ E \in Nat /\ R \in Nat /\ Len(u) \in Nat
        /\ DOMAIN events = 1 .. E /\ DOMAIN returned = 1 .. R /\ DOMAIN u = 1 .. Len(u)
        /\ DOMAIN r = 1 .. E + R + Len(u)
    BY <1>5, <1>7
  <1>9. ASSUME NEW k \in DOMAIN r
        PROVE  \/ k \in DOMAIN events /\ r[k] = events[k]
               \/ k - E \in DOMAIN returned /\ r[k] = returned[k - E]
               \/ k - E - R \in DOMAIN u /\ r[k] = u[k - E - R]
    <2>1. CASE k <= E
      BY <1>7, <1>8, <2>1
    <2>2. CASE E < k /\ k <= E + R
      <3>1. k - E \in 1 .. R /\ E + (k - E) = k
        BY <1>8, <2>2
      <3> QED
        BY <1>7, <1>8, <3>1
    <2>3. CASE E + R < k
      <3>1. k - E - R \in 1 .. Len(u) /\ E + R + (k - E - R) = k
        BY <1>8, <2>3
      <3> QED
        BY <1>7, <1>8, <3>1
    <2> QED
      BY <1>8, <2>1, <2>2, <2>3
  <1>10. /\ \A k \in DOMAIN events : k \in DOMAIN r /\ r[k] = events[k]
         /\ \A k \in DOMAIN returned : E + k \in DOMAIN r /\ r[E + k] = returned[k]
         /\ \A k \in DOMAIN u : E + R + k \in DOMAIN r /\ r[E + R + k] = u[k]
    BY <1>7, <1>8
  <1>11. \A e : e \in Range(u) <=> e \notin logged /\ \E k \in seen + 1 .. Len(all) : all[k] = e
    <2>1. \A e : e \in Range(u) <=> \E k \in DOMAIN u : u[k] = e
      BY DEF Range
    <2> QED
      BY <1>3, <1>5, <2>1
  <1>12. Range(r) = Range(events) \cup Range(returned) \cup Range(u)
    <2>1. \A e : e \in Range(r) => e \in Range(events) \cup Range(returned) \cup Range(u)
      BY <1>9 DEF Range
    <2>2. \A e : e \in Range(events) \cup Range(returned) \cup Range(u) => e \in Range(r)
      BY <1>10 DEF Range
    <2> QED
      BY <2>1, <2>2
  <1>13. Range(r) = Range(events) \cup {all[k] : k \in seen + 1 .. Len(all)}
    <2>1. \A e : e \in Range(returned) => e \in {all[k] : k \in seen + 1 .. Len(all)}
      BY DEF Range
    <2>2. \A e : e \in Range(u)
             <=> /\ e \notin Range(events) /\ e \notin Range(returned)
                 /\ e \in {all[k] : k \in seen + 1 .. Len(all)}
      BY <1>11 DEF logged
    <2> QED
      BY <1>12, <2>1, <2>2
  <1>14. Once(r)
    <2> SUFFICES ASSUME NEW j \in DOMAIN r, NEW k \in DOMAIN r, r[j] = r[k]
                 PROVE  j = k
      BY DEF Once
    <2>1. \A a \in DOMAIN u : u[a] \notin Range(events) /\ u[a] \notin Range(returned)
      BY <1>5 DEF logged
    <2>2. \A a \in DOMAIN events, b \in DOMAIN returned : events[a] # returned[b]
      OBVIOUS
    <2>3. /\ \A a \in DOMAIN events, b \in DOMAIN u : events[a] # u[b]
          /\ \A a \in DOMAIN returned, b \in DOMAIN u : returned[a] # u[b]
      BY <2>1 DEF Range
    <2>4. /\ \A a, b \in DOMAIN events : events[a] = events[b] => a = b
          /\ \A a, b \in DOMAIN returned : returned[a] = returned[b] => a = b
          /\ \A a, b \in DOMAIN u : u[a] = u[b] => a = b
      BY <1>5 DEF Once
    <2>5. \/ j \in DOMAIN events /\ k \in DOMAIN events /\ j = k
          \/ j - E \in DOMAIN returned /\ k - E \in DOMAIN returned /\ j - E = k - E
          \/ j - E - R \in DOMAIN u /\ k - E - R \in DOMAIN u /\ j - E - R = k - E - R
      <3> HIDE DEF E, R
      <3> QED
        BY <1>9, <2>2, <2>3, <2>4
    <2> QED
      BY <1>8, <2>5
  <1> QED
    BY <1>7, <1>13, <1>14

-----------------------------------------------------------------------------
(* The events of a tree.                                                   *)

\* They are numbered in a row up to the clock, across the resets.
Numbered(t) ==
    /\ t.events \in Seq(Event) /\ t.clock \in Int
    /\ \A k \in 1 .. Len(t.events) : t.events[k][1] = t.clock - Len(t.events) + k - 1

New(t0, t1) == Len(t0.events) + 1 .. Len(t1.events)

\* t1 has logged one event of each of the types told, and no other, since t0.
Grew(t0, t1, told) ==
    /\ Numbered(t1)
    /\ t1.clock - Len(t1.events) = t0.clock - Len(t0.events)
    /\ Len(t0.events) <= Len(t1.events)
    /\ \A k \in 1 .. Len(t0.events) : t1.events[k] = t0.events[k]
    /\ \A k \in New(t0, t1) : t1.events[k][2] \in told
    /\ \A type \in told : \E k \in New(t0, t1) : t1.events[k][2] = type
    /\ \A j, k \in New(t0, t1) : t1.events[j][2] = t1.events[k][2] => j = k

LEMMA EmitGrows ==
    ASSUME NEW t, Numbered(t), NEW x, DOMAIN x = TreeFields,
           x.events = t.events, x.clock = t.clock,
           NEW types \in Seq(EventTypes), Once(types), NEW e, e = Emit(x, types)
    PROVE  Grew(t, e, Range(types)) /\ Len(e.events) = Len(t.events) + Len(types)
  <1> DEFINE L == Len(t.events)
             M == Len(types)
             added == [k \in 1 .. M |-> <<t.clock + k - 1, types[k]>>]
  <1>1. /\ L \in Nat /\ M \in Nat /\ t.clock \in Int /\ t.events \in Seq(Event)
        /\ DOMAIN types = 1 .. M /\ \A k \in 1 .. M : types[k] \in EventTypes
    BY DEF Numbered
  <1>2. e.events = t.events \o added /\ e.clock = t.clock + M
    BY DEF Emit, TreeFields
  <1>3. added \in Seq(Event) /\ Len(added) = M
    <2>1. added \in [1 .. M -> Event]
      BY <1>1 DEF Event
    <2> QED
      BY <1>1, <2>1
  <1>4. \A k \in 1 .. M : added[k] = <<t.clock + k - 1, types[k]>>
    OBVIOUS
  <1> HIDE DEF added
  <1>5. /\ e.events \in Seq(Event) /\ Len(e.events) = L + M
        /\ \A k \in 1 .. L : e.events[k] = t.events[k]
        /\ \A k \in 1 .. M : e.events[L + k] = added[k]
    BY <1>1, <1>2, <1>3
  <1>6. ASSUME NEW k \in L + 1 .. L + M
        PROVE  /\ k - L \in 1 .. M
               /\ e.events[k][1] = t.clock + (k - L) - 1
               /\ e.events[k][2] = types[k - L]
    <2>1. k - L \in 1 .. M /\ L + (k - L) = k
      BY <1>1
    <2>2. e.events[k] = <<t.clock + (k - L) - 1, types[k - L]>>
      BY <1>4, <1>5, <2>1
    <2> QED
      BY <2>1, <2>2
  <1>7. New(t, e) = L + 1 .. L + M
    BY <1>5 DEF New
  <1>8. Numbered(e)
    <2> SUFFICES ASSUME NEW k \in 1 .. L + M
                 PROVE  e.events[k][1] = e.clock - (L + M) + k - 1
      BY <1>1, <1>2, <1>5 DEF Numbered
    <2>1. CASE k <= L
      <3>1. k \in 1 .. L
        BY <1>1, <2>1
      <3>2. e.events[k][1] = t.clock - L + k - 1
        BY <1>5, <3>1 DEF Numbered
      <3> QED
        BY <1>1, <1>2, <3>2
    <2>2. CASE L < k
      <3>1. k \in L + 1 .. L + M
        BY <1>1, <2>2
      <3>2. e.events[k][1] = t.clock + (k - L) - 1
        BY <1>6, <3>1
      <3> QED
        BY <1>1, <1>2, <3>2
    <2> QED
      BY <1>1, <2>1, <2>2
  <1>9. e.clock - Len(e.events) = t.clock - L /\ L <= Len(e.events)
    BY <1>1, <1>2, <1>5
  <1>10. \A k \in New(t, e) : e.events[k][2] \in Range(types)
    BY <1>1, <1>6, <1>7 DEF Range
  <1>11. ASSUME NEW type \in Range(types)
         PROVE  \E k \in New(t, e) : e.events[k][2] = type
    <2>1. PICK i \in 1 .. M : types[i] = type
      BY <1>1 DEF Range
    <2>2. L + i \in L + 1 .. L + M /\ L + i - L = i
      BY <1>1
    <2>3. e.events[L + i][2] = types[L + i - L]
      BY <1>6, <2>2
    <2> QED
      BY <1>7, <2>1, <2>2, <2>3
  <1>12. ASSUME NEW j \in New(t, e), NEW k \in New(t, e), e.events[j][2] = e.events[k][2]
         PROVE  j = k
    <2>1. /\ j - L \in DOMAIN types /\ k - L \in DOMAIN types
          /\ types[j - L] = types[k - L]
      BY <1>1, <1>6, <1>7, <1>12
    <2>2. j - L = k - L
      BY <2>1 DEF Once
    <2> QED
      BY <1>1, <1>7, <2>2
  <1> QED
    BY <1>5, <1>8, <1>9, <1>10, <1>11, <1>12 DEF Grew

LEMMA GrowsOn ==
    ASSUME NEW a, Numbered(a), NEW b, NEW c, NEW S, NEW T, S \cap T = {},
           Grew(a, b, S), Grew(b, c, T)
    PROVE  Grew(a, c, S \cup T)
  <1> DEFINE A == Len(a.events)
             B == Len(b.events)
             C == Len(c.events)
  <1>1. /\ A \in Nat /\ B \in Nat /\ C \in Nat /\ A <= B /\ B <= C
        /\ a.clock \in Int /\ b.clock \in Int /\ c.clock \in Int
        /\ Numbered(c) /\ c.clock - C = b.clock - B /\ b.clock - B = a.clock - A
    BY DEF Grew, Numbered
  <1>2. /\ \A k \in 1 .. A : b.events[k] = a.events[k]
        /\ \A k \in 1 .. B : c.events[k] = b.events[k]
    BY DEF Grew
  <1>3. /\ \A k \in A + 1 .. B : b.events[k][2] \in S
        /\ \A type \in S : \E k \in A + 1 .. B : b.events[k][2] = type
        /\ \A j, k \in A + 1 .. B : b.events[j][2] = b.events[k][2] => j = k
    BY DEF Grew, New
  <1>4. /\ \A k \in B + 1 .. C : c.events[k][2] \in T
        /\ \A type \in T : \E k \in B + 1 .. C : c.events[k][2] = type
        /\ \A j, k \in B + 1 .. C : c.events[j][2] = c.events[k][2] => j = k
    BY DEF Grew, New
  <1> HIDE DEF A, B, C
  <1>5. /\ \A k \in 1 .. A : k \in 1 .. B
        /\ \A k \in A + 1 .. B : k \in 1 .. B /\ k \in A + 1 .. C
        /\ \A k \in B + 1 .. C : k \in A + 1 .. C
        /\ \A k \in A + 1 .. C : k \in A + 1 .. B \/ k \in B + 1 .. C
    BY <1>1
  <1>6. \A k \in A + 1 .. B : c.events[k] = b.events[k]
    BY <1>2, <1>5
  <1>7. \A k \in 1 .. A : c.events[k] = a.events[k]
    BY <1>2, <1>5
  <1>8. \A k \in A + 1 .. C : c.events[k][2] \in S \cup T
    BY <1>3, <1>4, <1>5, <1>6
  <1>9. \A type \in S \cup T : \E k \in A + 1 .. C : c.events[k][2] = type
    BY <1>3, <1>4, <1>5, <1>6
  <1>10. \A j, k \in A + 1 .. C : c.events[j][2] = c.events[k][2] => j = k
    <2> SUFFICES ASSUME NEW j \in A + 1 .. C, NEW k \in A + 1 .. C,
                        c.events[j][2] = c.events[k][2]
                 PROVE  j = k
      OBVIOUS
    <2>1. \/ j \in A + 1 .. B /\ k \in A + 1 .. B
          \/ j \in B + 1 .. C /\ k \in B + 1 .. C
      BY <1>3, <1>4, <1>5, <1>6
    <2> QED
      BY <1>3, <1>4, <1>6, <2>1
  <1>11. c.clock - C = a.clock - A /\ A <= C
    BY <1>1
  <1> QED
    BY <1>1, <1>7, <1>8, <1>9, <1>10, <1>11 DEF Grew, New, A, C

IsTypes(types, told) ==
    types \in Seq(EventTypes) /\ Once(types) /\ Range(types) = told

LEMMA OneType ==
    ASSUME NEW a \in EventTypes
    PROVE  IsTypes(<<a>>, {a}) /\ Len(<<a>>) = 1
  <1>1. <<a>> \in Seq(EventTypes) /\ Len(<<a>>) = 1 /\ DOMAIN <<a>> = 1 .. 1 /\ <<a>>[1] = a
    OBVIOUS
  <1> QED
    BY <1>1 DEF IsTypes, Once, Range

LEMMA TwoTypes ==
    ASSUME NEW a \in EventTypes, NEW b \in EventTypes, a # b
    PROVE  IsTypes(<<a, b>>, {a, b}) /\ Len(<<a, b>>) = 2
  <1>1. /\ <<a, b>> \in Seq(EventTypes) /\ Len(<<a, b>>) = 2 /\ DOMAIN <<a, b>> = 1 .. 2
        /\ <<a, b>>[1] = a /\ <<a, b>>[2] = b
    OBVIOUS
  <1> QED
    BY <1>1 DEF IsTypes, Once, Range

\* What a controller result tells besides the feedback of its step.
Tells(t, told) ==
    /\ "SUBTASK_STARTED" \notin told /\ "EXECUTOR_FEEDBACK" \notin told
    /\ "LOCAL_RETRY" \in told <=> t.decision = "LOCAL_RETRY"
    /\ "REQUEST_REPLAN" \in told <=> t.status = "FAILURE"
    /\ "TASK_COMPLETE" \in told <=> t.status = "SUCCESS"

\* Events returned are among the last, and logged since t0.
Returns(t0, t1, events) ==
    \E m \in 0 .. Len(t1.events) - Len(t0.events) : events = LastEvents(t1, m)

\* e is x after it emitted the types, x being tr but for what it says of its steps.
Emitted(tr, x, types, said, e) ==
    /\ Numbered(tr) /\ DOMAIN x = TreeFields
    /\ x.events = tr.events /\ x.clock = tr.clock
    /\ IsTypes(types, said) /\ e = Emit(x, types)

LEMMA EmitTells ==
    ASSUME NEW tr, NEW x, NEW types, NEW said, NEW e, Emitted(tr, x, types, said, e)
    PROVE  /\ Grew(tr, e, said) /\ Returns(tr, e, LastEvents(e, Len(types)))
           /\ e.plan = x.plan /\ e.index = x.index
  <1>1. /\ Grew(tr, e, said) /\ Len(e.events) = Len(tr.events) + Len(types)
        /\ types \in Seq(EventTypes)
    BY EmitGrows DEF Emitted, IsTypes
  <1>2. e.plan = x.plan /\ e.index = x.index
    BY DEF Emitted, Emit, TreeFields
  <1>3. Len(types) \in 0 .. Len(e.events) - Len(tr.events)
    <2>1. Len(tr.events) \in Nat /\ Len(types) \in Nat
      BY <1>1 DEF Emitted, Numbered
    <2> QED
      BY <1>1, <2>1
  <1> QED
    BY <1>1, <1>2, <1>3 DEF Returns

LEMMA TickStepTells ==
    ASSUME NEW n, IsTree(n.tree), Numbered(n.tree), n.tree.index <= Len(n.tree.plan),
           DOMAIN n.executor = {"active", "tick", "attempts"},
           NEW t, t = TickStep(n)
    PROVE  /\ \E told : Grew(n.tree, t.tree, told) /\ Tells(t, told)
           /\ Returns(n.tree, t.tree, t.events) /\ t.tree.plan = n.tree.plan
           /\ t.executor.attempts = n.executor.attempts
           /\ t.status = "RUNNING" => t.tree.index <= Len(t.tree.plan)
           /\ t.status \in {"RUNNING", "SUCCESS", "FAILURE"}
  <1> DEFINE tr == n.tree
             fb == n.feedback
             code == fb.code
             done == [tr EXCEPT !.completed = @ + 1, !.index = @ + 1, !.node = "none"]
             retried == [tr EXCEPT !.retries[tr.index] = @ + 1, !.node = "idle"]
             given_up == [tr EXCEPT !.failed = @ + 1]
  <1>1. /\ Numbered(tr) /\ DOMAIN tr = TreeFields /\ tr.index \in Int /\ Len(tr.plan) \in Int
        /\ DOMAIN done = TreeFields /\ done.events = tr.events /\ done.clock = tr.clock
        /\ done.plan = tr.plan
        /\ DOMAIN retried = TreeFields /\ retried.events = tr.events
        /\ retried.clock = tr.clock /\ retried.plan = tr.plan /\ retried.index = tr.index
        /\ DOMAIN given_up = TreeFields /\ given_up.events = tr.events
        /\ given_up.clock = tr.clock /\ given_up.plan = tr.plan
    BY DEF IsTree, TreeFields
  <1>2. /\ Stopped(n.executor).attempts = n.executor.attempts
    BY DEF Stopped
  <1>3. CASE Succeeded(fb)
    <2>1. code = "NONE"
      BY <1>3 DEF Succeeded
    <2>2. t = Complete(n)
      BY <1>3, <2>1 DEF TickStep
    <2>3. CASE done.index > Len(done.plan)
      <3> DEFINE types == <<"SUBTASK_COMPLETED", "TASK_COMPLETE">>
                 said == {"SUBTASK_COMPLETED", "TASK_COMPLETE"}
                 e == Emit(done, types)
      <3>1. t = Ticked(e, n.executor,
                       n.monitor, fb, "SUCCESS", "CONTINUE", 2)
        BY <2>2, <2>3 DEF Complete
      <3>2. IsTypes(types, said) /\ Len(types) = 2
        BY TwoTypes DEF EventTypes
      <3>3. /\ t.status = "SUCCESS" /\ t.decision = "CONTINUE"
            /\ t.tree = e /\ t.events = LastEvents(e, Len(types))
            /\ t.executor = n.executor
        BY <3>1, <3>2 DEF Ticked
      <3>4. Tells(t, said)
        BY <3>3 DEF Tells
      <3>5. /\ Grew(tr, e, said) /\ Returns(tr, e, LastEvents(e, Len(types)))
            /\ e.plan = done.plan /\ e.index = done.index
        <4>1. Emitted(tr, done, types, said, e)
          <5> HIDE DEF types, said
          <5> QED
            BY <1>1, <3>2 DEF Emitted
        <4> HIDE DEF tr, done, retried, given_up, types, said, e
        <4> QED
          BY <4>1, EmitTells
      <3> HIDE DEF e
      <3> QED
        BY <1>1, <1>2, <3>3, <3>4, <3>5
    <2>4. CASE ~(done.index > Len(done.plan))
      <3> DEFINE types == <<"SUBTASK_COMPLETED">>
                 said == {"SUBTASK_COMPLETED"}
                 e == Emit(done, types)
      <3>1. t = Ticked(e, n.executor,
                       n.monitor, fb, "RUNNING", "CONTINUE", 1)
        BY <2>2, <2>4 DEF Complete
      <3>2. IsTypes(types, said) /\ Len(types) = 1
        BY OneType DEF EventTypes
      <3>3. /\ t.status = "RUNNING" /\ t.decision = "CONTINUE"
            /\ t.tree = e /\ t.events = LastEvents(e, Len(types))
            /\ t.executor = n.executor
        BY <3>1, <3>2 DEF Ticked
      <3>4. Tells(t, said)
        BY <3>3 DEF Tells
      <3>6. done.index <= Len(done.plan)
        BY <1>1, <2>4 DEF TreeFields
      <3>5. /\ Grew(tr, e, said) /\ Returns(tr, e, LastEvents(e, Len(types)))
            /\ e.plan = done.plan /\ e.index = done.index
        <4>1. Emitted(tr, done, types, said, e)
          <5> HIDE DEF types, said
          <5> QED
            BY <1>1, <3>2 DEF Emitted
        <4> HIDE DEF tr, done, retried, given_up, types, said, e
        <4> QED
          BY <4>1, EmitTells
      <3> HIDE DEF e
      <3> QED
        BY <1>1, <1>2, <3>3, <3>4, <3>5, <3>6
    <2> QED
      BY <2>3, <2>4
  <1>4. CASE ~Succeeded(fb) /\ code # "NONE"
    <2>1. t = HandleFailure(n)
      BY <1>4 DEF TickStep
    <2>2. CASE code = "LOW_CONFIDENCE"
      <3> DEFINE types == <<"LOW_CONFIDENCE">>
                 said == {"LOW_CONFIDENCE"}
                 e == Emit(tr, types)
      <3>1. t = Ticked(e, n.executor, n.monitor, fb,
                       "RUNNING", "EXPLAIN", 1)
        BY <2>1, <2>2 DEF HandleFailure, MayRetry, RECOVERABLE_FAILURES
      <3>2. IsTypes(types, said) /\ Len(types) = 1
        BY OneType DEF EventTypes
      <3>3. /\ t.status = "RUNNING" /\ t.decision = "EXPLAIN"
            /\ t.tree = e /\ t.events = LastEvents(e, Len(types))
            /\ t.executor = n.executor
        BY <3>1, <3>2 DEF Ticked
      <3>4. Tells(t, said)
        BY <3>3 DEF Tells
      <3>5. /\ Grew(tr, e, said) /\ Returns(tr, e, LastEvents(e, Len(types)))
            /\ e.plan = tr.plan /\ e.index = tr.index
        <4>1. Emitted(tr, tr, types, said, e)
          <5> HIDE DEF types, said
          <5> QED
            BY <1>1, <3>2 DEF Emitted
        <4> HIDE DEF tr, done, retried, given_up, types, said, e
        <4> QED
          BY <4>1, EmitTells
      <3> HIDE DEF e
      <3> QED
        BY <1>1, <1>2, <3>3, <3>4, <3>5
    <2>3. CASE code # "LOW_CONFIDENCE" /\ MayRetry(tr, code)
      <3> DEFINE types == <<"LOCAL_RETRY">>
                 said == {"LOCAL_RETRY"}
                 e == Emit(retried, types)
      <3>1. t = Ticked(e, Stopped(n.executor), n.monitor, fb,
                       "RUNNING", "LOCAL_RETRY", 1)
        BY <2>1, <2>3 DEF HandleFailure
      <3>2. IsTypes(types, said) /\ Len(types) = 1
        BY OneType DEF EventTypes
      <3>3. /\ t.status = "RUNNING" /\ t.decision = "LOCAL_RETRY"
            /\ t.tree = e /\ t.events = LastEvents(e, Len(types))
            /\ t.executor = Stopped(n.executor)
        BY <3>1, <3>2 DEF Ticked
      <3>4. Tells(t, said)
        BY <3>3 DEF Tells
      <3>5. /\ Grew(tr, e, said) /\ Returns(tr, e, LastEvents(e, Len(types)))
            /\ e.plan = retried.plan /\ e.index = retried.index
        <4>1. Emitted(tr, retried, types, said, e)
          <5> HIDE DEF types, said
          <5> QED
            BY <1>1, <3>2 DEF Emitted
        <4> HIDE DEF tr, done, retried, given_up, types, said, e
        <4> QED
          BY <4>1, EmitTells
      <3> HIDE DEF e
      <3> QED
        BY <1>1, <1>2, <3>3, <3>4, <3>5
    <2>4. CASE code # "LOW_CONFIDENCE" /\ ~MayRetry(tr, code)
      <3> DEFINE types == <<"REQUEST_REPLAN">>
                 said == {"REQUEST_REPLAN"}
                 e == Emit(given_up, types)
      <3>1. t = Ticked(e, n.executor, n.monitor, fb,
                       "FAILURE", "REQUEST_REPLAN", 1)
        BY <2>1, <2>4 DEF HandleFailure
      <3>2. IsTypes(types, said) /\ Len(types) = 1
        BY OneType DEF EventTypes
      <3>3. /\ t.status = "FAILURE" /\ t.decision = "REQUEST_REPLAN"
            /\ t.tree = e /\ t.events = LastEvents(e, Len(types))
            /\ t.executor = n.executor
        BY <3>1, <3>2 DEF Ticked
      <3>4. Tells(t, said)
        BY <3>3 DEF Tells
      <3>5. /\ Grew(tr, e, said) /\ Returns(tr, e, LastEvents(e, Len(types)))
            /\ e.plan = given_up.plan /\ e.index = given_up.index
        <4>1. Emitted(tr, given_up, types, said, e)
          <5> HIDE DEF types, said
          <5> QED
            BY <1>1, <3>2 DEF Emitted
        <4> HIDE DEF tr, done, retried, given_up, types, said, e
        <4> QED
          BY <4>1, EmitTells
      <3> HIDE DEF e
      <3> QED
        BY <1>1, <1>2, <3>3, <3>4, <3>5
    <2> QED
      BY <2>2, <2>3, <2>4
  <1>5. CASE ~Succeeded(fb) /\ code = "NONE"
    <2>1. CASE Risky(fb.uncertainty)
      <3> DEFINE types == <<"EXPLAIN">>
                 said == {"EXPLAIN"}
                 e == Emit(tr, types)
      <3>1. t = Ticked(e, n.executor, n.monitor, fb,
                       "RUNNING", "EXPLAIN", 1)
        BY <1>5, <2>1 DEF TickStep
      <3>2. IsTypes(types, said) /\ Len(types) = 1
        BY OneType DEF EventTypes
      <3>3. /\ t.status = "RUNNING" /\ t.decision = "EXPLAIN"
            /\ t.tree = e /\ t.events = LastEvents(e, Len(types))
            /\ t.executor = n.executor
        BY <3>1, <3>2 DEF Ticked
      <3>4. Tells(t, said)
        BY <3>3 DEF Tells
      <3>5. /\ Grew(tr, e, said) /\ Returns(tr, e, LastEvents(e, Len(types)))
            /\ e.plan = tr.plan /\ e.index = tr.index
        <4>1. Emitted(tr, tr, types, said, e)
          <5> HIDE DEF types, said
          <5> QED
            BY <1>1, <3>2 DEF Emitted
        <4> HIDE DEF tr, done, retried, given_up, types, said, e
        <4> QED
          BY <4>1, EmitTells
      <3> HIDE DEF e
      <3> QED
        BY <1>1, <1>2, <3>3, <3>4, <3>5
    <2>2. CASE ~Risky(fb.uncertainty)
      <3>1. t = Ticked(tr, n.executor, n.monitor, fb, "RUNNING", "CONTINUE", 0)
        BY <1>5, <2>2 DEF TickStep
      <3>2. /\ t.tree = tr /\ t.status = "RUNNING" /\ t.decision = "CONTINUE"
            /\ t.executor = n.executor /\ t.events = LastEvents(tr, 0)
        BY <3>1 DEF Ticked
      <3>3. Tells(t, {})
        BY <3>2 DEF Tells
      <3>4. Grew(tr, tr, {}) /\ Len(tr.events) \in Nat
        BY DEF Grew, New, Numbered
      <3>5. Returns(tr, t.tree, t.events)
        <4>1. 0 \in 0 .. Len(t.tree.events) - Len(tr.events)
          BY <3>2, <3>4
        <4> QED
          BY <3>2, <4>1 DEF Returns
      <3> QED
        BY <3>2, <3>3, <3>4, <3>5
    <2> QED
      BY <2>1, <2>2
  <1> QED
    BY <1>3, <1>4, <1>5

\* The node tells that it started its skill, unless it has, and what the step said.
NodeTold(started) == {"EXECUTOR_FEEDBACK"} \cup IF started THEN {} ELSE {"SUBTASK_STARTED"}

LEMMA JoinedPair ==
    ASSUME NEW s \in Seq(EventTypes), Len(s) = 1, NEW t \in Seq(EventTypes), Len(t) = 1
    PROVE  s \o t = <<s[1], t[1]>>
  <1> DEFINE c == s \o t
  <1>1. c \in Seq(EventTypes) /\ Len(c) = 2
    OBVIOUS
  <1>2. \A i \in 1 .. Len(s) + Len(t) : c[i] = IF i <= Len(s) THEN s[i] ELSE t[i - Len(s)]
    BY ConcatProperties
  <1>3. c[1] = s[1] /\ c[2] = t[1]
    <2>1. 1 \in 1 .. Len(s) + Len(t) /\ 2 \in 1 .. Len(s) + Len(t)
      OBVIOUS
    <2>2. c[1] = IF 1 <= 1 THEN s[1] ELSE t[1 - 1]
      BY <1>2, <2>1
    <2>3. c[2] = IF 2 <= 1 THEN s[2] ELSE t[2 - 1]
      BY <1>2, <2>1
    <2>4. 2 - 1 = 1
      OBVIOUS
    <2> HIDE DEF c
    <2> QED
      BY <2>2, <2>3, <2>4
  <1> HIDE DEF c
  <1>4. c = <<s[1], t[1]>>
    BY <1>1, <1>3
  <1> QED
    BY <1>4 DEF c

LEMMA TwoInARow ==
    ASSUME NEW a \in EventTypes, NEW b \in EventTypes
    PROVE  <<a>> \o <<b>> = <<a, b>>
  <1>1. /\ <<a>> \in Seq(EventTypes) /\ Len(<<a>>) = 1 /\ <<a>>[1] = a
        /\ <<b>> \in Seq(EventTypes) /\ Len(<<b>>) = 1 /\ <<b>>[1] = b
    OBVIOUS
  <1> QED
    BY <1>1, JoinedPair

LEMMA NodeTickTells ==
    ASSUME IsTree(tree), Numbered(tree), DOMAIN executor = {"active", "tick", "attempts"},
           NEW script, NEW mode, NEW obs,
           NEW n, n = NodeTick(script, mode, tree, executor, monitor, obs)
    PROVE  /\ Grew(tree, n.tree, NodeTold(tree.node = "started"))
           /\ n.executor.attempts =
                IF tree.node = "started" THEN executor.attempts
                ELSE [executor.attempts EXCEPT ![tree.plan[tree.index]] = @ + 1]
  <1> DEFINE x == [tree EXCEPT !.node = "started"]
             started == tree.node = "started"
  <1>1. /\ DOMAIN x = TreeFields /\ x.events = tree.events /\ x.clock = tree.clock
    BY DEF IsTree, TreeFields
  <1>2. n.executor.attempts = IF started THEN executor.attempts
                ELSE [executor.attempts EXCEPT ![tree.plan[tree.index]] = @ + 1]
    BY DEF NodeTick, Stepped, NodeStarts, Started
  <1>3. n.tree = Emit(x, (IF started THEN <<>> ELSE <<"SUBTASK_STARTED">>)
                           \o <<"EXECUTOR_FEEDBACK">>)
    BY DEF NodeTick
  <1>4. CASE started
    <2> DEFINE types == <<"EXECUTOR_FEEDBACK">>
    <2>1. n.tree = Emit(x, types)
      <3>1. <<>> \o <<"EXECUTOR_FEEDBACK">> = <<"EXECUTOR_FEEDBACK">>
        OBVIOUS
      <3> QED
        BY <1>3, <1>4, <3>1
    <2>2. IsTypes(types, {"EXECUTOR_FEEDBACK"})
      BY OneType DEF EventTypes
    <2> HIDE DEF types, x
    <2>3. Grew(tree, n.tree, {"EXECUTOR_FEEDBACK"})
      BY <1>1, <2>1, <2>2, EmitGrows DEF IsTypes
    <2>4. NodeTold(TRUE) = {"EXECUTOR_FEEDBACK"}
      BY DEF NodeTold
    <2> QED
      BY <1>2, <1>4, <2>3 DEF NodeTold
  <1>5. CASE ~started
    <2> DEFINE types == <<"SUBTASK_STARTED", "EXECUTOR_FEEDBACK">>
    <2>1. n.tree = Emit(x, types)
      <3>1. <<"SUBTASK_STARTED">> \o <<"EXECUTOR_FEEDBACK">>
              = <<"SUBTASK_STARTED", "EXECUTOR_FEEDBACK">>
        BY TwoInARow DEF EventTypes
      <3> QED
        BY <1>3, <1>5, <3>1
    <2>2. IsTypes(types, {"SUBTASK_STARTED", "EXECUTOR_FEEDBACK"})
      BY TwoTypes DEF EventTypes
    <2> HIDE DEF types, x
    <2>3. Grew(tree, n.tree, {"SUBTASK_STARTED", "EXECUTOR_FEEDBACK"})
      BY <1>1, <2>1, <2>2, EmitGrows DEF IsTypes
    <2>4. {"SUBTASK_STARTED", "EXECUTOR_FEEDBACK"} = NodeTold(started)
      BY <1>5 DEF NodeTold
    <2> QED
      BY <1>2, <2>3, <2>4
  <1> QED
    BY <1>4, <1>5

-----------------------------------------------------------------------------
(* The row of a behaviour-tree episode.                                    *)

\* The row holds what the tree had logged before the events it has not shown yet.
RowFollows ==
    /\ Numbered(tree)
    /\ seen_events \in 0 .. Len(tree.events)
    /\ \A k \in seen_events + 1 .. Len(tree.events) : tree.events[k][2] = "PLAN_STARTED"
    /\ log.events \in Seq(Event) /\ Once(log.events)
    /\ \A k \in DOMAIN log.events :
          log.events[k][1] < tree.clock - Len(tree.events) + seen_events

LEMMA RowGrows ==
    ASSUME RowFollows, NEW t1, NEW returned, NEW told, Grew(tree, t1, told),
           Returns(tree, t1, returned),
           NEW r, r = Recorded(log.events, returned, t1.events, seen_events)
    PROVE  /\ r \in Seq(Event) /\ Once(r)
           /\ \A k \in DOMAIN r : r[k][1] < t1.clock
           /\ \A type \in EventTypes \ {"PLAN_STARTED"} :
                 Cardinality(Telling(r, type)) =
                   Cardinality(Telling(log.events, type)) + IF type \in told THEN 1 ELSE 0
  <1> DEFINE all == t1.events
             L == Len(all)
             O == Len(tree.events)
             B == tree.clock - O
             N == {all[k] : k \in seen_events + 1 .. L}
  <1>1. /\ all \in Seq(Event) /\ L \in Nat /\ O \in Nat /\ O <= L /\ B \in Int
        /\ seen_events \in 0 .. O /\ t1.clock = B + L
        /\ \A k \in 1 .. O : all[k] = tree.events[k]
    BY DEF RowFollows, Grew, Numbered
  <1>2. \A k \in 1 .. L : all[k][1] = B + k - 1
    <2>1. \A k \in 1 .. L : all[k][1] = t1.clock - L + k - 1
      BY DEF Grew, Numbered
    <2> QED
      BY <1>1, <2>1
  <1>3. /\ \A k \in O + 1 .. L : all[k][2] \in told
        /\ \A type \in told : \E k \in O + 1 .. L : all[k][2] = type
        /\ \A j, k \in O + 1 .. L : all[j][2] = all[k][2] => j = k
    BY DEF Grew, New
  <1>4. \A k \in seen_events + 1 .. O : all[k][2] = "PLAN_STARTED"
    <2>1. \A k \in seen_events + 1 .. O : k \in 1 .. O
      BY <1>1
    <2> QED
      BY <1>1, <2>1 DEF RowFollows
  <1>5. \A k \in DOMAIN log.events : log.events[k][1] < B + seen_events
    BY DEF RowFollows
  <1>6. /\ log.events \in Seq(Event) /\ Once(log.events)
    BY DEF RowFollows
  <1>7. PICK m \in 0 .. L - O : returned = SubSeq(all, L - m + 1, L)
    BY DEF Returns, LastEvents
  <1> HIDE DEF all, L, O, B
  <1>8. \A k \in seen_events + 1 .. L : k \in 1 .. L /\ (k \in seen_events + 1 .. O \/ k \in O + 1 .. L)
    BY <1>1
  <1>9. /\ returned \in Seq(Event) /\ Len(returned) = m
        /\ \A j \in 1 .. m : returned[j] = all[L - m + j]
    <2>1. m \in Nat /\ m <= L
      BY <1>1
    <2>2. L = Len(all)
      BY DEF L
    <2> QED
      BY <1>1, <1>7, <2>1, <2>2
  <1>10. DOMAIN returned = 1 .. m /\ \A j \in 1 .. m : L - m + j \in seen_events + 1 .. L
    BY <1>1, <1>9
  <1>11. \A j, k \in 1 .. L : all[j] = all[k] => j = k
    <2> SUFFICES ASSUME NEW j \in 1 .. L, NEW k \in 1 .. L, all[j] = all[k] PROVE j = k
      OBVIOUS
    <2>1. B + j - 1 = B + k - 1
      BY <1>2
    <2> QED
      BY <1>1, <2>1
  <1>12. Once(returned)
    <2> SUFFICES ASSUME NEW j \in 1 .. m, NEW k \in 1 .. m, returned[j] = returned[k]
                 PROVE  j = k
      BY <1>10 DEF Once
    <2>1. L - m + j = L - m + k
      BY <1>8, <1>9, <1>10, <1>11
    <2> QED
      BY <1>1, <2>1
  <1>13. \A j \in DOMAIN returned : \E k \in seen_events + 1 .. L : all[k] = returned[j]
    BY <1>9, <1>10
  <1>14. \A k \in seen_events + 1 .. L : all[k][1] >= B + seen_events /\ all[k][1] < B + L
    <2> SUFFICES ASSUME NEW k \in seen_events + 1 .. L
                 PROVE  all[k][1] >= B + seen_events /\ all[k][1] < B + L
      OBVIOUS
    <2>1. all[k][1] = B + k - 1
      BY <1>2, <1>8
    <2> QED
      BY <1>1, <2>1
  <1>15. \A j \in DOMAIN log.events : log.events[j][1] \in Int
    <2>1. \A j \in DOMAIN log.events : log.events[j] \in Event
      BY <1>6
    <2> QED
      BY <2>1 DEF Event
  <1>16. \A j \in DOMAIN log.events, k \in seen_events + 1 .. L : log.events[j] # all[k]
    <2> SUFFICES ASSUME NEW j \in DOMAIN log.events, NEW k \in seen_events + 1 .. L
                 PROVE  log.events[j][1] # all[k][1]
      OBVIOUS
    <2>1. all[k][1] \in Int
      BY <1>1, <1>2, <1>8
    <2> QED
      BY <1>1, <1>5, <1>14, <1>15, <2>1
  <1>17. /\ r \in Seq(Event) /\ Once(r) /\ Range(r) = Range(log.events) \cup N
    <2>1. seen_events \in 0 .. Len(all) /\ L = Len(all)
      BY <1>1 DEF L
    <2>2. r = Recorded(log.events, returned, all, seen_events)
      BY DEF all
    <2>3. \A j, k \in seen_events + 1 .. L : all[j] = all[k] => j = k
      BY <1>8, <1>11
    <2>4. Mergeable(log.events, returned, all, seen_events)
      BY <1>1, <1>6, <1>9, <1>12, <1>13, <1>16, <2>1, <2>3 DEF Mergeable
    <2>5. Range(r) = Range(log.events) \cup {all[k] : k \in seen_events + 1 .. Len(all)}
      BY <2>2, <2>4, RecordedHolds
    <2> QED
      BY <2>1, <2>2, <2>4, <2>5, RecordedHolds
  <1>18. \A k \in DOMAIN r : r[k][1] < t1.clock
    <2> SUFFICES ASSUME NEW k \in DOMAIN r PROVE r[k][1] < B + L
      BY <1>1
    <2>1. r[k] \in Range(log.events) \cup N
      BY <1>17 DEF Range
    <2>2. CASE r[k] \in N
      BY <1>14, <2>2
    <2>3. CASE r[k] \in Range(log.events)
      <3>1. PICK j \in DOMAIN log.events : r[k] = log.events[j]
        BY <2>3 DEF Range
      <3> QED
        BY <1>1, <1>5, <1>15, <3>1
    <2> QED
      BY <2>1, <2>2, <2>3
  <1>19. ASSUME NEW type \in EventTypes \ {"PLAN_STARTED"}
         PROVE  Cardinality(Telling(r, type)) =
                   Cardinality(Telling(log.events, type)) + IF type \in told THEN 1 ELSE 0
    <2>1. Range(log.events) \cap N = {}
      BY <1>16 DEF Range
    <2>2. \A k \in seen_events + 1 .. L : all[k][2] = type => k \in O + 1 .. L
      BY <1>4, <1>8
    <2>3. \A a, b \in N : a[2] = type /\ b[2] = type => a = b
      BY <1>3, <2>2
    <2>4. (\E e \in N : e[2] = type) <=> type \in told
      <3>1. \A k \in O + 1 .. L : k \in seen_events + 1 .. L
        BY <1>1
      <3> QED
        BY <1>3, <2>2, <3>1
    <2> HIDE DEF N
    <2> QED
      BY <1>6, <1>17, <2>1, <2>3, <2>4, CountGrows
  <1> QED
    BY <1>17, <1>18, <1>19

CountsMatch ==
    /\ executor.attempts \in [Skills -> Int]
    /\ log.steps \in Int /\ log.local_retries \in Int /\ log.replans \in Int
    /\ Recordings("SUBTASK_STARTED") = Starts
    /\ Recordings("EXECUTOR_FEEDBACK") =
           log.steps - (IF log.success /\ Len(tree.plan) = 0 THEN 1 ELSE 0)
    /\ Recordings("LOCAL_RETRY") = log.local_retries
    /\ Recordings("REQUEST_REPLAN") = log.replans + (IF pc = "replan" THEN 1 ELSE 0)
    /\ Recordings("TASK_COMPLETE") = IF log.success THEN 1 ELSE 0

EventsInv ==
    setup.mode = "bt_mediated" =>
        /\ pc = "plan" => executor = NewExecutor /\ seen_events = 0 /\ tree.clock \in Int
        /\ pc \in {"tick", "replan", "done"} => RowFollows /\ CountsMatch
        /\ pc = "tick" => tree.index <= Len(tree.plan) \/ Len(tree.plan) = 0

LEMMA OneMoreStart ==
    ASSUME executor.attempts \in [Skills -> Int], NEW s \in Skills,
           executor'.attempts = [executor.attempts EXCEPT ![s] = @ + 1]
    PROVE  Starts' = Starts + 1 /\ executor'.attempts \in [Skills -> Int]
  BY DEF Starts, Skills

\* What a tick does to the tree's events and to the attempts.
LEMMA TickTells ==
    ASSUME RecordsOK, Following(tree, executor, monitor), Numbered(tree),
           executor.attempts \in [Skills -> Int],
           tree.index <= Len(tree.plan) \/ Len(tree.plan) = 0,
           NEW t \in TickResults, executor' = t.executor
    PROVE  \E told :
              /\ Grew(tree, t.tree, told) /\ Returns(tree, t.tree, t.events)
              /\ t.tree.plan = tree.plan
              /\ t.status = "RUNNING" => t.tree.index <= Len(t.tree.plan)
              /\ t.status \in {"RUNNING", "SUCCESS", "FAILURE"}
              /\ executor'.attempts \in [Skills -> Int]
              /\ Starts' = Starts + IF "SUBTASK_STARTED" \in told THEN 1 ELSE 0
              /\ "EXECUTOR_FEEDBACK" \in told <=> Len(tree.plan) # 0
              /\ "LOCAL_RETRY" \in told <=> t.decision = "LOCAL_RETRY"
              /\ "REQUEST_REPLAN" \in told <=> t.status = "FAILURE"
              /\ "TASK_COMPLETE" \in told <=> t.status = "SUCCESS"
              /\ Len(tree.plan) = 0 => t.status = "SUCCESS"
  <1>1. /\ IsTree(tree) /\ DOMAIN executor = {"active", "tick", "attempts"}
        /\ tree.index \in Nat /\ tree.index >= 1 /\ Len(tree.plan) \in Nat
        /\ DOMAIN tree = TreeFields /\ tree.plan \in Seq(Skills)
    BY DEF RecordsOK, IsTree
  <1>2. CASE tree.index > Len(tree.plan)
    <2> DEFINE types == <<"TASK_COMPLETE">>
               said == {"TASK_COMPLETE"}
               e == Emit(tree, types)
    <2>1. t = Ticked(e, executor, monitor, NoFeedback, "SUCCESS", "CONTINUE", 1)
      BY <1>2 DEF TickResults, Emptied
    <2>2. IsTypes(types, said) /\ Len(types) = 1
      BY OneType DEF EventTypes
    <2>3. /\ t.tree = e /\ t.status = "SUCCESS" /\ t.decision = "CONTINUE"
          /\ t.executor = executor /\ t.events = LastEvents(e, Len(types))
      BY <2>1, <2>2 DEF Ticked
    <2>4. Emitted(tree, tree, types, said, e)
      <3> HIDE DEF types, said
      <3> QED
        BY <1>1, <2>2 DEF Emitted
    <2>5. Grew(tree, e, said) /\ Returns(tree, e, LastEvents(e, Len(types)))
          /\ e.plan = tree.plan
      <3> HIDE DEF types, said, e
      <3> QED
        BY <2>4, EmitTells
    <2>6. Starts' = Starts + 0
      <3>1. Starts \in Int
        BY DEF Starts, Skills
      <3> QED
        BY <2>3, <3>1 DEF Starts
    <2>7. Len(tree.plan) = 0
      BY <1>1, <1>2
    <2>8. /\ "SUBTASK_STARTED" \notin said /\ "EXECUTOR_FEEDBACK" \notin said
          /\ "LOCAL_RETRY" \notin said /\ "REQUEST_REPLAN" \notin said
          /\ "TASK_COMPLETE" \in said
      OBVIOUS
    <2> HIDE DEF types, said, e
    <2> WITNESS said
    <2> QED
      BY <2>3, <2>5, <2>6, <2>7, <2>8
  <1>3. CASE ~(tree.index > Len(tree.plan))
    <2>1. PICK n : /\ n = NodeTick(setup.script, setup.uncertainty, tree, executor,
                                   monitor, setup.obs)
                   /\ t = TickStep(n)
      BY <1>3 DEF TickResults
    <2> DEFINE first == tree.node = "started"
    <2>2. tree.index <= Len(tree.plan) /\ Len(tree.plan) # 0
      BY <1>1, <1>3
    <2>3. /\ Grew(tree, n.tree, NodeTold(first))
          /\ n.executor.attempts =
                IF first THEN executor.attempts
                ELSE [executor.attempts EXCEPT ![tree.plan[tree.index]] = @ + 1]
      BY <1>1, <2>1, NodeTickTells
    <2>4. /\ IsTree(n.tree) /\ n.tree.plan = tree.plan /\ n.tree.index = tree.index
          /\ DOMAIN n.executor = {"active", "tick", "attempts"}
      BY <1>1, <2>1, <2>2, NodeTickFollows
    <2>5. Numbered(n.tree)
      BY <2>3 DEF Grew
    <2>6. /\ \E told : Grew(n.tree, t.tree, told) /\ Tells(t, told)
          /\ Returns(n.tree, t.tree, t.events) /\ t.tree.plan = n.tree.plan
          /\ t.executor.attempts = n.executor.attempts
          /\ t.status = "RUNNING" => t.tree.index <= Len(t.tree.plan)
          /\ t.status \in {"RUNNING", "SUCCESS", "FAILURE"}
      BY <2>1, <2>2, <2>4, <2>5, TickStepTells
    <2>7. PICK told : Grew(n.tree, t.tree, told) /\ Tells(t, told)
      BY <2>6
    <2> DEFINE all == NodeTold(first) \cup told
    <2>8. Grew(tree, t.tree, all)
      <3>1. NodeTold(first) \cap told = {}
        BY <2>7 DEF NodeTold, Tells
      <3> QED
        BY <2>3, <2>7, <3>1, GrowsOn
    <2>9. Returns(tree, t.tree, t.events)
      <3>1. PICK m \in 0 .. Len(t.tree.events) - Len(n.tree.events) :
                t.events = LastEvents(t.tree, m)
        BY <2>6 DEF Returns
      <3>2. /\ Len(tree.events) \in Nat /\ Len(n.tree.events) \in Nat
            /\ Len(t.tree.events) \in Nat /\ Len(tree.events) <= Len(n.tree.events)
        BY <2>3, <2>8 DEF Grew, Numbered
      <3>3. m \in 0 .. Len(t.tree.events) - Len(tree.events)
        BY <3>2
      <3> QED
        BY <3>1, <3>3 DEF Returns
    <2>10. /\ executor'.attempts \in [Skills -> Int]
           /\ Starts' = Starts + IF first THEN 0 ELSE 1
      <3>1. tree.plan[tree.index] \in Skills
        BY <1>1, <2>2
      <3>2. CASE first
        <4>1. Starts \in Int
          BY DEF Starts, Skills
        <4>2. executor'.attempts = executor.attempts
          BY <2>3, <2>6, <3>2
        <4> QED
          BY <3>2, <4>1, <4>2 DEF Starts
      <3>3. CASE ~first
        <4>1. executor'.attempts = [executor.attempts EXCEPT ![tree.plan[tree.index]] = @ + 1]
          BY <2>3, <2>6, <3>3
        <4> QED
          BY <3>1, <3>3, <4>1, OneMoreStart
      <3> QED
        BY <3>2, <3>3
    <2>11. /\ "SUBTASK_STARTED" \in all <=> ~first
           /\ "EXECUTOR_FEEDBACK" \in all
           /\ "LOCAL_RETRY" \in all <=> t.decision = "LOCAL_RETRY"
           /\ "REQUEST_REPLAN" \in all <=> t.status = "FAILURE"
           /\ "TASK_COMPLETE" \in all <=> t.status = "SUCCESS"
      BY <2>7 DEF NodeTold, Tells
    <2> HIDE DEF all, first
    <2> WITNESS all
    <2> QED
      BY <2>2, <2>4, <2>6, <2>8, <2>9, <2>10, <2>11
  <1> QED
    BY <1>2, <1>3

LEMMA EventsInit == Init => EventsInv
  BY DEF Init, EventsInv, NewTree

\* The tree made for a plan, and the row before its first event or between two trees.
LEMMA FreshTree ==
    ASSUME NEW plan, NEW clock \in Int, NEW t, t = NewTree(plan, clock)
    PROVE  /\ Numbered(t) /\ Len(t.events) = 1 /\ t.events[1][2] = "PLAN_STARTED"
           /\ t.clock = clock + 1 /\ t.plan = plan /\ t.index = 1
  <1>1. /\ t.events = <<<<clock, "PLAN_STARTED">>>> /\ t.clock = clock + 1
        /\ t.plan = plan /\ t.index = 1
    BY DEF NewTree
  <1>2. <<clock, "PLAN_STARTED">> \in Event
    BY DEF Event, EventTypes
  <1>3. /\ t.events \in Seq(Event) /\ Len(t.events) = 1
        /\ t.events[1] = <<clock, "PLAN_STARTED">>
    BY <1>1, <1>2
  <1>4. \A k \in 1 .. Len(t.events) : t.events[k][1] = t.clock - Len(t.events) + k - 1
    <2> SUFFICES ASSUME NEW k \in 1 .. 1
                 PROVE  t.events[k][1] = t.clock - 1 + k - 1
      BY <1>3
    <2>1. k = 1
      OBVIOUS
    <2>2. t.events[1][1] = clock
      BY <1>3
    <2> QED
      BY <1>1, <2>1, <2>2
  <1> QED
    BY <1>1, <1>3, <1>4 DEF Numbered

LEMMA EventsStep == IInv /\ EventsInv /\ [Next]_vars => EventsInv'
  <1> SUFFICES ASSUME IInv, EventsInv, [Next]_vars, setup'.mode = "bt_mediated"
               PROVE  EventsInv'
    BY DEF EventsInv
  <1>0. RecordsOK /\ PlacesOK /\ TickInv
    BY DEF IInv
  <1>1. /\ setup' = setup /\ setup.mode = "bt_mediated"
        /\ CannotPlan \/ CannotExecute \/ Plan \/ Tick \/ Replan \/ UNCHANGED vars
    <2>1. setup' = setup
      BY DEF Next, vars, CannotPlan, CannotExecute, Backend, Skip, Plan, StartSkill,
             OpenLoopStep, StopSkill, OpenLoopReport, NoFirstStep, DirectStep,
             DirectReplan, Tick, Replan
    <2>2. pc \in {"plan", "done", "skipped", "tick", "replan"}
      BY <1>0, <2>1 DEF PlacesOK
    <2> QED
      BY <2>1, <2>2
      DEF Next, StartSkill, OpenLoopStep, StopSkill, OpenLoopReport, NoFirstStep,
          DirectStep, DirectReplan
  <1>2. CASE CannotPlan \/ CannotExecute
    BY <1>2 DEF CannotPlan, CannotExecute, Backend, Skip, EventsInv
  <1>3. CASE Plan
    <2>1. PICK plan : Planned("NONE", plan) /\ tree' = NewTree(plan, tree.clock)
      BY <1>3 DEF Plan
    <2>2. /\ pc = "plan" /\ pc' = "tick" /\ executor' = Stopped(executor)
          /\ log' = [log EXCEPT !.planner_calls = 1] /\ log = _empty_log
          /\ seen_events' = seen_events
          /\ executor = NewExecutor /\ seen_events = 0 /\ tree.clock \in Int
      BY <1>0, <1>1, <1>3 DEF Plan, FirstStep, PlacesOK, EventsInv
    <2>3. /\ Numbered(tree') /\ Len(tree'.events) = 1
          /\ tree'.events[1][2] = "PLAN_STARTED"
          /\ tree'.clock \in Int /\ tree'.index = 1 /\ Len(tree'.plan) \in Nat
      BY <2>1, <2>2, FreshTree, PlansAreSteps
    <2>4. /\ log'.events = <<>> /\ log'.steps = 0 /\ log'.local_retries = 0
          /\ log'.replans = 0 /\ log'.success = FALSE
      BY <2>2 DEF _empty_log
    <2>5. \A type : Recordings(type)' = 0
      <3>1. \A type : {k \in DOMAIN log'.events : log'.events[k][2] = type} = {}
        BY <2>4
      <3> QED
        BY <3>1, FS_EmptySet DEF Recordings
    <2>6. executor'.attempts = [s \in Skills |-> 0]
      BY <2>2 DEF NewExecutor, Stopped
    <2>7. Starts' = 0
      BY <2>6 DEF Starts, Skills
    <2>8. RowFollows'
      <3>1. log'.events \in Seq(Event) /\ Once(log'.events)
        BY <2>4 DEF Once
      <3> QED
        BY <2>2, <2>3, <2>4, <3>1 DEF RowFollows
    <2>9. CountsMatch'
      BY <2>2, <2>4, <2>5, <2>6, <2>7 DEF CountsMatch
    <2>10. tree'.index <= Len(tree'.plan) \/ Len(tree'.plan) = 0
      BY <2>3
    <2> QED
      BY <2>2, <2>8, <2>9, <2>10 DEF EventsInv
  <1>4. CASE Tick
    <2>1. PICK t \in TickResults :
              LET r == Recorded(log.events, t.events, t.tree.events, seen_events)
              IN  /\ tree' = t.tree /\ executor' = t.executor
                  /\ seen_events' = Len(t.tree.events)
                  /\ log'.events = r /\ log'.steps = log.steps + 1
                  /\ log'.local_retries = IF t.decision = "LOCAL_RETRY"
                                            THEN log.local_retries + 1
                                            ELSE log.local_retries
                  /\ log'.replans = log.replans
                  /\ log'.success = (t.status = "SUCCESS")
                  /\ pc' = CASE t.status = "SUCCESS" -> "done"
                             [] t.status = "FAILURE" -> "replan"
                             [] OTHER -> IF log.steps + 1 < MaxSteps THEN "tick" ELSE "done"
      BY <1>0, <1>4 DEF Tick, RecordsOK, _empty_log
    <2>2. pc = "tick"
      BY <1>4 DEF Tick
    <2>3. /\ RowFollows /\ CountsMatch /\ Following(tree, executor, monitor)
          /\ tree.index <= Len(tree.plan) \/ Len(tree.plan) = 0
          /\ ~log.success
      BY <1>0, <1>1, <2>2 DEF EventsInv, TickInv, PlacesOK
    <2> DEFINE r == Recorded(log.events, t.events, t.tree.events, seen_events)
    <2>4. PICK told :
              /\ Grew(tree, t.tree, told) /\ Returns(tree, t.tree, t.events)
              /\ t.tree.plan = tree.plan
              /\ t.status = "RUNNING" => t.tree.index <= Len(t.tree.plan)
              /\ t.status \in {"RUNNING", "SUCCESS", "FAILURE"}
              /\ executor'.attempts \in [Skills -> Int]
              /\ Starts' = Starts + IF "SUBTASK_STARTED" \in told THEN 1 ELSE 0
              /\ "EXECUTOR_FEEDBACK" \in told <=> Len(tree.plan) # 0
              /\ "LOCAL_RETRY" \in told <=> t.decision = "LOCAL_RETRY"
              /\ "REQUEST_REPLAN" \in told <=> t.status = "FAILURE"
              /\ "TASK_COMPLETE" \in told <=> t.status = "SUCCESS"
              /\ Len(tree.plan) = 0 => t.status = "SUCCESS"
      BY <1>0, <2>1, <2>3, TickTells DEF RowFollows, CountsMatch
    <2>5. /\ r \in Seq(Event) /\ Once(r)
          /\ \A k \in DOMAIN r : r[k][1] < t.tree.clock
          /\ \A type \in EventTypes \ {"PLAN_STARTED"} :
                 Cardinality(Telling(r, type)) =
                   Cardinality(Telling(log.events, type)) + IF type \in told THEN 1 ELSE 0
      <3>1. r = Recorded(log.events, t.events, t.tree.events, seen_events)
        OBVIOUS
      <3>2. /\ RowFollows /\ Grew(tree, t.tree, told)
            /\ Returns(tree, t.tree, t.events)
        BY <2>3, <2>4
      <3> HIDE DEF r
      <3> QED
        BY <3>1, <3>2, RowGrows
    <2>6. log'.events = r
      BY <2>1
    <2>7. \A type \in EventTypes \ {"PLAN_STARTED"} :
             Recordings(type)' = Recordings(type) + IF type \in told THEN 1 ELSE 0
      BY <2>5, <2>6 DEF Recordings, Telling
    <2>8. RowFollows'
      <3>1. Numbered(t.tree) /\ Len(t.tree.events) \in Nat /\ t.tree.clock \in Int
        BY <2>4 DEF Grew, Numbered
      <3>2. tree' = t.tree /\ seen_events' = Len(t.tree.events)
        BY <2>1
      <3>3. /\ seen_events' \in 0 .. Len(tree'.events)
            /\ seen_events' + 1 .. Len(tree'.events) = {}
            /\ tree'.clock - Len(tree'.events) + seen_events' = t.tree.clock
        BY <3>1, <3>2
      <3> HIDE DEF r
      <3> QED
        BY <2>5, <2>6, <3>1, <3>2, <3>3 DEF RowFollows
    <2>9. CountsMatch'
      <3>1. /\ Recordings("SUBTASK_STARTED")' = Starts'
            /\ Recordings("EXECUTOR_FEEDBACK")' =
                 log.steps + IF Len(tree.plan) # 0 THEN 1 ELSE 0
            /\ Recordings("LOCAL_RETRY")' =
                 log.local_retries + IF t.decision = "LOCAL_RETRY" THEN 1 ELSE 0
            /\ Recordings("REQUEST_REPLAN")' =
                 log.replans + IF t.status = "FAILURE" THEN 1 ELSE 0
            /\ Recordings("TASK_COMPLETE")' = IF t.status = "SUCCESS" THEN 1 ELSE 0
        BY <2>2, <2>3, <2>4, <2>7 DEF CountsMatch, EventTypes
      <3>2. tree'.plan = tree.plan
        BY <2>1, <2>4
      <3>3. /\ log.steps \in Int /\ log.local_retries \in Int /\ log.replans \in Int
        BY <2>3 DEF CountsMatch
      <3>4. /\ pc' = "replan" <=> t.status = "FAILURE"
            /\ log'.success <=> t.status = "SUCCESS"
            /\ log'.steps = log.steps + 1 /\ log'.replans = log.replans
            /\ log'.local_retries = log.local_retries
                  + IF t.decision = "LOCAL_RETRY" THEN 1 ELSE 0
        <4>1. /\ pc' = CASE t.status = "SUCCESS" -> "done"
                          [] t.status = "FAILURE" -> "replan"
                          [] OTHER -> IF log.steps + 1 < MaxSteps THEN "tick" ELSE "done"
              /\ log'.success = (t.status = "SUCCESS")
              /\ log'.steps = log.steps + 1 /\ log'.replans = log.replans
              /\ log'.local_retries = IF t.decision = "LOCAL_RETRY"
                                        THEN log.local_retries + 1 ELSE log.local_retries
          BY <2>1
        <4>2. t.status \in {"RUNNING", "SUCCESS", "FAILURE"}
          BY <2>4
        <4>3. pc' = "replan" <=> t.status = "FAILURE"
          BY <4>1, <4>2
        <4>4. log'.local_retries = log.local_retries
                + IF t.decision = "LOCAL_RETRY" THEN 1 ELSE 0
          BY <3>3, <4>1
        <4> QED
          BY <4>1, <4>3, <4>4
      <3>5. log.steps + (IF Len(tree.plan) # 0 THEN 1 ELSE 0) =
              log'.steps - (IF log'.success /\ Len(tree'.plan) = 0 THEN 1 ELSE 0)
        BY <2>4, <3>2, <3>3, <3>4
      <3>6. executor'.attempts \in [Skills -> Int]
        BY <2>4
      <3>7. /\ log'.steps \in Int /\ log'.local_retries \in Int /\ log'.replans \in Int
        BY <3>3, <3>4
      <3> HIDE DEF r
      <3> QED
        BY <3>1, <3>4, <3>5, <3>6, <3>7 DEF CountsMatch
    <2>10. pc' = "tick" => tree'.index <= Len(tree'.plan)
      BY <2>1, <2>4
    <2>11. pc' \in {"tick", "replan", "done"}
      BY <2>1
    <2> QED
      BY <2>8, <2>9, <2>10, <2>11 DEF EventsInv
  <1>5. CASE Replan
    <2>1. PICK plan : /\ Planned(result.feedback.code, plan)
                      /\ tree' = NewTree(plan, tree.clock)
      BY <1>5 DEF Replan
    <2>2. /\ pc = "replan" /\ pc' \in {"tick", "done"} /\ executor' = Stopped(executor)
          /\ log' = [log EXCEPT !.failed = tree.failed, !.replans = @ + 1,
                                !.planner_calls = @ + 1]
          /\ seen_events' = 0 /\ ~log.success
      BY <1>0, <1>5 DEF Replan, PlacesOK
    <2>3. RowFollows /\ CountsMatch
      BY <1>1, <2>2 DEF EventsInv
    <2>4. /\ Numbered(tree') /\ Len(tree'.events) = 1
          /\ tree'.events[1][2] = "PLAN_STARTED"
          /\ tree'.clock = tree.clock + 1 /\ tree'.index = 1 /\ Len(tree'.plan) \in Nat
      <3>1. tree.clock \in Int
        BY <2>3 DEF RowFollows, Numbered
      <3>2. plan \in Seq(Skills) /\ Len(plan) \in Nat
        BY <2>1, PlansAreSteps
      <3> QED
        BY <2>1, <3>1, <3>2, FreshTree
    <2>5. /\ log'.events = log.events /\ log'.steps = log.steps
          /\ log'.local_retries = log.local_retries /\ log'.replans = log.replans + 1
          /\ log'.success = log.success
      BY <1>0, <2>2 DEF RecordsOK, _empty_log
    <2>6. executor'.attempts = executor.attempts
      BY <1>0, <2>2 DEF Stopped, RecordsOK
    <2>7. RowFollows'
      <3>1. tree.clock - Len(tree.events) + seen_events <= tree.clock
        BY <2>3 DEF RowFollows, Numbered
      <3>2. tree.clock \in Int /\ Len(tree.events) \in Nat /\ seen_events \in Nat
        BY <2>3 DEF RowFollows, Numbered
      <3>3. tree'.clock - Len(tree'.events) + seen_events' = tree.clock
        BY <2>2, <2>4, <3>2
      <3>4. \A k \in DOMAIN log.events : log.events[k][1] \in Int
        <4>1. \A k \in DOMAIN log.events : log.events[k] \in Event
          BY <2>3 DEF RowFollows
        <4> QED
          BY <4>1 DEF Event
      <3>5. \A k \in DOMAIN log.events : log.events[k][1] < tree.clock
        BY <2>3, <3>1, <3>2, <3>4 DEF RowFollows
      <3>6. /\ seen_events' \in 0 .. Len(tree'.events)
            /\ seen_events' + 1 .. Len(tree'.events) = {1}
        BY <2>2, <2>4
      <3> QED
        BY <2>3, <2>4, <2>5, <3>3, <3>5, <3>6 DEF RowFollows
    <2>8. CountsMatch'
      <3>1. \A type : Recordings(type)' = Recordings(type)
        BY <2>5 DEF Recordings
      <3>2. Starts' = Starts
        BY <2>6 DEF Starts
      <3> QED
        BY <2>2, <2>3, <2>5, <2>6, <3>1, <3>2 DEF CountsMatch
    <2>9. tree'.index <= Len(tree'.plan) \/ Len(tree'.plan) = 0
      BY <2>4
    <2> QED
      BY <2>2, <2>7, <2>8, <2>9 DEF EventsInv
  <1>6. CASE UNCHANGED vars
    BY <1>6 DEF vars, EventsInv, RowFollows, CountsMatch, Recordings, Starts
  <1> QED
    BY <1>1, <1>2, <1>3, <1>4, <1>5, <1>6

LEMMA EventsHold == Spec => [](IInv /\ EventsInv)
  BY RowsInit, RowsStep, EventsInit, EventsStep, PTL DEF Spec

\* The row of a behaviour-tree episode can be read back from its events, across
\* retries and the resets of the tree (BTMediatedController.run_episode).
THEOREM RowsAlwaysMatchEvents == Spec => []RowMatchesEvents
  <1>1. IInv /\ EventsInv => RowMatchesEvents
    <2> SUFFICES ASSUME IInv, EventsInv, setup.mode = "bt_mediated",
                        pc \notin {"plan", "skipped"}
                 PROVE  RowMatchesEvents
      BY DEF RowMatchesEvents
    <2>1. RowFollows /\ CountsMatch
      BY DEF IInv, PlacesOK, EventsInv
    <2> QED
      BY <2>1 DEF RowMatchesEvents, RowFollows, CountsMatch, Once
  <1> QED
    BY <1>1, EventsHold, PTL
=============================================================================
