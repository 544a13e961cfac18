---------------------------- MODULE SkillPipeline ----------------------------
(***************************************************************************)
(* From a response to the table, in the output modes of run_dialog.py.  In *)
(* "skill" mode the response is validated, compiled and executed by        *)
(* RRTSkillExecutor; the actions of "action" mode (action_only) and, with  *)
(* waypoints, of "path" mode (action_and_path) are parsed and executed by  *)
(* one_run().  All ask feedback.py, make a PlannedPathPolicy of each path  *)
(* plan, search its motions with MotionPlanner, and step the simulator     *)
(* through what the policy buffers.                                        *)
(***************************************************************************)
EXTENDS MotionPlanner, SkillPlans

CONSTANTS
    Modes,                \* output, and the options of the policy and of run_dialog
    SkillResponses,       \* whether there is an EXECUTE, and the lines after it
    ActionResponses,      \* of "action" and of "path" mode: an action of each agent
    Reach,                \* check_reach_range: bases each agent reaches
    ControlFreq,          \* control_freq
    MaxFailedWaypoints,   \* max_failed_waypoints
    MaxRounds             \* bound: plans executed in a run

ASSUME PipelineAssumption ==
    /\ Configs = Arms /\ Extend = ArmsLine
    /\ ControlFreq \in Nat \ {0} /\ MaxFailedWaypoints \in Nat /\ MaxRounds \in Nat
    /\ \A m \in Modes :
         /\ m.output \in {"skill", "action", "path"}
         /\ m.splitted \in BOOLEAN /\ m.skip_direct \in BOOLEAN /\ m.skip_smooth \in BOOLEAN
    /\ \A output \in {"action", "path"} : \A acts \in ActionResponses[output] :
         \A a \in Agents : acts[a].path \in Seq(Points)

VARIABLES
    mode,
    world,                \* the simulator
    saved,                \* sim_data, saved when the round began
    pc,
    plans, k,             \* the path plans of the round, and the one under way
    claims,               \* skill mode: which object was to be put where
    actions,              \* the policy's action buffer, from action_idx on
    done,                 \* of the last env.step
    status, feedback,     \* of the last execution, and of the last response
    round

run_vars == <<mode, world, saved, pc, plans, k, claims, actions, done, status, feedback, round>>
vars == <<run_vars, motion_vars>>

Skill == mode.output = "skill"

-----------------------------------------------------------------------------
(* Responses: parsed, validated, compiled, and answered with feedback.     *)

\* FeedbackManager.give_feedback, where what only the numerics decide (inverse
\* kinematics, the evenness of a path) goes well.
Ready(plan) ==
    LET failing == {n \in DOMAIN Waypoints(plan) :
                      ~PoseIsFree(world, plan, Waypoints(plan)[n], Reach)}
    IN  /\ PoseIsFree(world, plan, Goal(plan), Reach)
        /\ ~Skill => Cardinality(failing) =< MaxFailedWaypoints

\* SkillResponseParser, then SkillFeedbackManager up to the compiled plans.
Prepared(response) ==
    IF ~SkillLinesParse(response) THEN Failed("parse")
    ELSE IF Issues(world, Calls(response)) # {} THEN Failed("validation")
    ELSE Compile(world, Calls(response))

Claims(response) ==
    LET calls == Calls(response)
    IN  {<<calls[a].arguments["object"], calls[a].arguments["container"]>> : a \in Puts(calls)}

\* prompt_one_round(), one response of it: refused with feedback, or to be executed.
Answered(prepared, claimed) ==
    \/ /\ ~prepared.ok /\ feedback' = prepared.stage
       /\ UNCHANGED <<mode, world, saved, pc, plans, k, claims, actions, done, status, round>>
    \/ /\ prepared.ok /\ feedback' = "geometry"
       /\ UNCHANGED <<mode, world, saved, pc, plans, k, claims, actions, done, status, round>>
    \/ /\ prepared.ok /\ \A n \in DOMAIN prepared.plans : Ready(prepared.plans[n])
       /\ feedback' = "none" /\ plans' = prepared.plans /\ k' = 1 /\ claims' = claimed
       /\ saved' = world /\ status' = "none" /\ round' = round + 1 /\ pc' = "policy"
       /\ UNCHANGED <<mode, world, actions, done>>

Respond ==
    /\ pc = "respond" /\ round < MaxRounds
    /\ \/ Skill /\ \E response \in SkillResponses :
            \E prepared \in {Prepared(response)} :
                Answered(prepared, IF prepared.ok THEN Claims(response) ELSE {})
       \/ ~Skill /\ \E acts \in ActionResponses[mode.output] : Answered(ParseActions(world, acts), {})
    /\ UNCHANGED motion_vars

-----------------------------------------------------------------------------
(* PlannedPathPolicy.plan().                                               *)

Ended(outcome) ==
    /\ status' = outcome /\ pc' = "round" /\ actions' = <<>>
    /\ UNCHANGED <<mode, world, saved, plans, k, claims, done, feedback, round>>

\* CenterWaypointsUniformSampler, from either end: every arm at its start or its goal.
Drawn(start, goal) == {c \in Arms : \A a \in Agents : c[a] \in {start[a], goal[a]}}

\* The scene of the planner is the one the policy was made in.
Scene(plan) == Blocked(world, Allowed(plan), Inhand(plan))

\* inverse_kinematics_all, pose after pose: solve_ik may fail for any arm, and one arm
\* is enough to lose the pose.
PosesFound(poses) ==
    {{n \in DOMAIN poses : found[n] = Agents} : found \in [DOMAIN poses -> SUBSET Agents]}

\* parse_llm_plan_to_qpos: the waypoints that were not found are dropped.
Solved(waypoints) ==
    {[n \in 1..Cardinality(kept) |->
        waypoints[CHOOSE i \in kept : Cardinality({j \in kept : j =< i}) = n]] :
      kept \in PosesFound(waypoints)}

\* plan_qpos, which gives the waypoints in reverse.
QposQuery(plan, waypoints) ==
    [start |-> world.hands, goal |-> Goal(plan), samples |-> Reverse(waypoints),
     drawn |-> Drawn(world.hands, Goal(plan)), blocked |-> Scene(plan),
     splitted |-> mode.splitted, skip_ends |-> FALSE,
     skip_direct |-> mode.skip_direct, skip_smooth |-> mode.skip_smooth]

\* __init__, then plan_qpos().
MakePolicy ==
    /\ pc = "policy" /\ pc' = "planning"
    /\ \E waypoints \in Solved(Waypoints(plans[k])) : Call(QposQuery(plans[k], waypoints))
    /\ UNCHANGED <<mode, world, saved, plans, k, claims, actions, done, status, feedback, round>>

\* Inverse kinematics of a target fails now: the executor reports it, one_run() does
\* not catch it.
NoPolicy ==
    /\ pc = "policy"
    /\ \/ Skill /\ Ended("execution_failed")
       \/ /\ ~Skill /\ pc' = "stopped"
          /\ UNCHANGED <<mode, world, saved, plans, k, claims, actions, done, status, feedback, round>>
    /\ UNCHANGED motion_vars

Planning == PlanningStep /\ UNCHANGED run_vars

\* One SimAction: where the arms go, and whether the welds change there.
Moves(path) == [n \in DOMAIN path |-> [hands |-> path[n], grasp |-> FALSE]]

\* The kept configurations, then get_grasp_action() at the last of them.
Planned ==
    LET path == Kept(result.path, ControlFreq)
    IN  /\ pc = "planning" /\ Return
        /\ \/ result.path = <<>> /\ Ended("motion_planning_failed")
           \/ /\ result.path # <<>>
              /\ actions' = Moves(path) \o <<[hands |-> Last(path), grasp |-> TRUE]>>
              /\ pc' = IF \E a \in Agents : plans[k][a].home THEN "home" ELSE "act"
              /\ UNCHANGED <<mode, world, saved, plans, k, claims, done, status, feedback, round>>

\* plan_home(), from the configuration the grasp action leaves the arms in.
GoHome ==
    LET start == Last(actions).hands
        goal == Homecoming(plans[k], start)
    IN  /\ pc = "home" /\ pc' = "homing"
        /\ Call([start |-> start, goal |-> goal, samples |-> <<>>,
                 drawn |-> Drawn(start, goal), blocked |-> Scene(plans[k]),
                 splitted |-> FALSE, skip_ends |-> TRUE,
                 skip_direct |-> mode.skip_direct, skip_smooth |-> mode.skip_smooth])
        /\ UNCHANGED <<mode, world, saved, plans, k, claims, actions, done, status, feedback, round>>

\* No path home: no action, and nobody is told.
Homed ==
    /\ pc = "homing" /\ Return /\ pc' = "act"
    /\ actions' = actions \o
         (IF result.path = <<>> THEN <<>> ELSE Moves(Kept(result.path, ControlFreq)))
    /\ UNCHANGED <<mode, world, saved, plans, k, claims, done, status, feedback, round>>

-----------------------------------------------------------------------------
(* Execution, and the end of a round.                                      *)

Weld(action) == IF action.grasp THEN Grasped(world.weld, plans[k]) ELSE world.weld

\* One env.step; the executor stops as soon as the task is done.
Act ==
    /\ pc = "act"
    /\ world' = Stepped(world, Head(actions).hands, Weld(Head(actions)))
    /\ done' = AllPacked(world')
    /\ LET over == Skill /\ done'
       IN  /\ actions' = IF over THEN <<>> ELSE Tail(actions)
           /\ pc' = IF actions' # <<>> THEN "act"
                    ELSE IF k < Len(plans) /\ ~over THEN "policy" ELSE "round"
           /\ k' = IF pc' = "policy" THEN k + 1 ELSE k
           /\ status' = IF pc' = "round" THEN "success" ELSE status
    /\ UNCHANGED <<mode, saved, plans, claims, feedback, round, motion_vars>>

\* max_sim_steps, or an interrupt.
Abort ==
    /\ Skill /\ pc = "act"
    /\ \E outcome \in {"timeout", "interrupted"} : Ended(outcome)
    /\ UNCHANGED motion_vars

\* one_run() goes back to sim_data after a failure; the planner may go on from where
\* a failed skill plan left the table.
FinishRound ==
    /\ pc = "round"
    /\ world' \in (IF status = "success" THEN {world}
                   ELSE IF Skill THEN {saved, world} ELSE {saved})
    /\ done' = (done /\ (Skill => status = "success"))
    /\ pc' = IF done' THEN "finished" ELSE "respond"
    /\ saved' = world' /\ plans' = <<>> /\ k' = 0 /\ claims' = {} /\ actions' = <<>>
    /\ UNCHANGED <<mode, status, feedback, round, motion_vars>>

Init ==
    /\ mode \in Modes
    /\ world = NewWorld /\ saved = world /\ pc = "respond"
    /\ plans = <<>> /\ k = 0 /\ claims = {} /\ actions = <<>>
    /\ done = FALSE /\ status = "none" /\ feedback = "none" /\ round = 0
    /\ MotionInit

Next ==
    \/ Respond \/ MakePolicy \/ NoPolicy \/ Planning \/ Planned \/ GoHome \/ Homed
    \/ Act \/ Abort \/ FinishRound

Spec == Init /\ [][Next]_vars

-----------------------------------------------------------------------------
(* Properties.                                                             *)

\* A weld is switched on only while the hand is at the item, and off only over the
\* slot or the item the plan names, whatever the smoothing and the subsampling of the
\* path (path[::control_freq] + path[-3:-1]) left as its last configuration. An item
\* that hangs over the table in another hand is left out: it is at no base.
GraspNearTarget ==
    [][pc = "act" => \A a \in Agents : world'.weld[a] # world.weld[a] =>
         LET target == IF world'.weld[a] # Nothing THEN Place(world, world'.weld[a])
                       ELSE plans[k][a].target.base
         IN  target # "over" => world'.hands[a].base = target]_vars

\* A hand that only touches the item a plan of the round takes it to hold: the collision
\* checks move that item with the hand, the simulator does not.
Phantom ==
    \E n \in DOMAIN plans, a \in Agents : plans[n][a].inhand \notin {Nothing, saved.weld[a]}

\* No two items in a slot, and no item in two hands.
Exclusive(w) ==
    /\ \A i, j \in Items :
         i # j /\ PackedSlot(w, i) = PackedSlot(w, j) => PackedSlot(w, i) = Nothing
    /\ \A i \in Items : \A a, b \in Carriers(w, i) : a = b

\* No step of a round that begins so brings an item to a slot that another is in, nor
\* into a second hand, unless a hand only touched what a plan took it to hold: an LLM's
\* own actions are only held to it by the collision checks, a skill plan also by the
\* validator.
SlotsAreExclusive ==
    [][pc = "act" /\ Exclusive(saved) /\ ~Phantom => Exclusive(world')]_vars

\* A skill plan that SUCCEEDED put every object it named in the slot it named, and
\* moved no other, unless a hand that only touched an item was taken to hold it.
SkillMeansPlaced ==
    pc = "round" /\ Skill /\ status = "success"
      /\ (\A a \in Agents : Held(saved, a) \in {saved.weld[a], Nothing}) =>
        \A i \in Items :
            IF \E s \in Slots : <<i, s>> \in claims
            THEN <<i, PackedSlot(world, i)>> \in claims
            ELSE Place(world, i) = Place(saved, i)

\* RRTSkillCompiler is to convert valid skill plans into complete legacy responses: a
\* skill plan that passes the validator compiles.
ValidPlansCompile == feedback # "compilation"
=============================================================================
