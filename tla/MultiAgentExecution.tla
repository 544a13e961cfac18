------------------------ MODULE MultiAgentExecution ------------------------
(***************************************************************************)
(* A caller with one simulator: it schedules a joint plan and hands the    *)
(* schedule to the synchronized or to the sequential executor, again and   *)
(* again, with the same executors (whose token and stepper persist).  One  *)
(* plan is enough: nothing an executor keeps depends on earlier plans.     *)
(***************************************************************************)
EXTENDS SynchronizedExecutor, SequentialExecutor

CONSTANTS
    Plans,                \* agent -> [skill, object, target]
    Configs,              \* the scheduler configurations
    MaxRuns               \* bound: executions

ASSUME CallerAssumption ==
    /\ \A plan \in Plans : DOMAIN plan = Agents
    /\ MaxRuns \in Nat

VARIABLES
    plan, schedule,       \* the joint plan and the decision about it
    runs                  \* executions so far

caller_vars == <<plan, schedule, runs>>
vars == <<sync_vars, seq_vars, caller_vars>>

Idle == pc = "idle" /\ seq_pc = "idle"

Init ==
    /\ SyncInit /\ SeqInit
    /\ \E config \in Configs : plan \in Plans /\ schedule = Schedule(config, plan)
    /\ runs = 0

Synchronized ==
    /\ Idle /\ runs < MaxRuns /\ runs' = runs + 1
    /\ IF schedule.mode = "concurrent" THEN BeginRun ELSE Refuse(schedule.mode)
    /\ UNCHANGED <<seq_vars, plan, schedule>>

Sequential ==
    /\ Idle /\ runs < MaxRuns /\ runs' = runs + 1
    /\ SeqExecute(schedule)
    /\ UNCHANGED <<sync_vars, plan, schedule>>

SequentialCall ==
    \E steps \in 0..MaxSkillSteps :
        /\ SeqCall(steps)
        /\ clock' = clock + steps
        /\ UNCHANGED <<pc, cancelled, step_index, obs, tick, frags, slow, events,
                       metrics, acted, applied, result>>

Next ==
    \/ Synchronized \/ Sequential
    \/ (RunStep \/ Cancel) /\ UNCHANGED <<seq_vars, caller_vars>>
    \/ SequentialCall /\ UNCHANGED caller_vars
    \/ (SeqNoExecutor \/ SeqRaises \/ SeqSucceeds) /\ UNCHANGED <<sync_vars, caller_vars>>

Spec == Init /\ [][Next]_vars

-----------------------------------------------------------------------------

\* Arms move at the same time only when each stays on its own side and their
\* objects and targets differ (docs/phase7_multi_agent_execution.md, Safety
\* Boundaries): nobody who reaches across for an object or a bin, and nobody of
\* whom it is not known, shares the tick with another arm.
Side(zone) ==
    CASE zone \in {"left", "bin_left"}   -> {"left"}
      [] zone \in {"right", "bin_right"} -> {"right"}
      [] zone = "center"                 -> {"left", "right"}
      [] OTHER                           -> {}

StaysOnItsSide(agent, call) ==
    /\ call.skill = Put
    /\ RobotZone(agent) \in Side(ObjectZone(call.object)) \cap Side(TargetZone(call.target))

ReachingAcrossIsAlone ==
    schedule.mode = "concurrent" =>
        \A a, b \in Active(plan) : a # b =>
            /\ StaysOnItsSide(a, plan[a])
            /\ plan[a].object # plan[b].object /\ plan[a].target # plan[b].target
            /\ ~(TargetZone(plan[a].target) = "center" /\ TargetZone(plan[b].target) = "center")

=============================================================================
