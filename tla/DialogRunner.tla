---------------------------- MODULE DialogRunner ----------------------------
(***************************************************************************)
(* run_dialog.py: LLMRunner.run() and one_run().  In each step the runner  *)
(* saves the simulator, prompts for a response, executes the path plans it *)
(* compiles to, and rewinds the simulator if one of them fails.  A process *)
(* may end anywhere; another may continue the run from what is on the disk.*)
(* The simulator's state is the sequence of the plans executed since the   *)
(* reset: nothing else moves it.                                           *)
(***************************************************************************)
EXTENDS DialogPrompter, SequencesExt

CONSTANTS
    MaxSteps,             \* max_runner_steps
    CommModes,            \* --comm_mode: "dialog" or "plan" (and chat, the same code)
    DebugModes,           \* --debug_mode, off or on
    OutputModes,          \* --output_mode: "path" (action_only, action_and_path), "skill"
    MaxProcesses          \* bound: processes started

ASSUME RunnerAssumption ==
    /\ MaxSteps \in Nat \ {0} /\ MaxProcesses \in Nat
    /\ CommModes \subseteq {"dialog", "plan"} /\ OutputModes \subseteq {"path", "skill"}
    /\ DebugModes \subseteq BOOLEAN

VARIABLES
    pc,                   \* where one_run() is
    args,                 \* the modes the process was started with
    env,                  \* the simulator
    saved,                \* the files of the last step: env_init, llm_plan_i
    loaded,               \* prev_llm_plans
    step, last_step,      \* the loop variable and the end of its range
    obs,                  \* the observation the loop holds: the state it shows
    outcome,              \* reward and done of the loop
    sim_data,             \* the state to rewind to
    response,             \* current_llm_plan
    plan,                 \* the plan of it that is next
    round_history,        \* of the prompter: executed responses
    failed_plans,         \* of the prompter, with the state they failed in
    base,                 \* history: the simulator when one_run() began
    processes

run_vars == <<step, last_step, obs, outcome, sim_data, response, plan>>
memory == <<round_history, failed_plans>>
vars == <<pc, args, env, saved, loaded, run_vars, memory, base, processes, round_vars>>

NoFiles == [step |-> 0, env |-> <<>>, plans |-> <<>>, exists |-> FALSE]

\* (reward, done): (0, False), (0, True) of a sandwich begun wrongly, (1, True).
Outcomes == {"open", "lost", "won"}

Ended == outcome # "open"

Init ==
    /\ PrompterInit
    /\ pc = "off" /\ args = [comm |-> "dialog", output |-> "path", debug_mode |-> FALSE]
    /\ env = <<>> /\ saved = NoFiles /\ loaded = <<>>
    /\ step = 0 /\ last_step = 0 /\ obs = <<>> /\ outcome = "open" /\ sim_data = <<>>
    /\ response = <<>> /\ plan = 1
    /\ round_history = <<>> /\ failed_plans = <<>>
    /\ base = <<>> /\ processes = 0

-----------------------------------------------------------------------------
(* Processes and runs.                                                     *)

Start ==
    /\ pc = "off" /\ processes < MaxProcesses
    /\ processes' = processes + 1
    /\ args' \in [comm : CommModes, output : OutputModes, debug_mode : DebugModes]
    /\ round_history' = <<>> /\ failed_plans' = <<>>

\* one_run() from the simulator as it is, up to the head of its loop.
BeginRun(start, state) ==
    /\ pc' = "step"
    /\ env' = state /\ obs' = state /\ base' = state
    /\ step' = start /\ last_step' = start + MaxSteps - 1
    /\ outcome' = "open"
    /\ UNCHANGED <<sim_data, response, plan, round_vars>>

\* A new run, in a directory of its own.
StartFresh ==
    /\ Start
    /\ BeginRun(0, <<>>)
    /\ saved' = NoFiles /\ loaded' = <<>>

\* --cont: the last step again, with the plans stored for it, if any.
StartContinued ==
    /\ saved.exists /\ Start
    /\ BeginRun(saved.step, saved.env)
    /\ loaded' = saved.plans
    /\ UNCHANGED saved

\* Anything uncaught ends the process: an interrupt, a language model that never
\* answers, a response without EXECUTE, a target without inverse kinematics, path
\* plans stored for a run that is continued in skill mode.
Die ==
    /\ pc # "off" /\ pc' = "off"
    /\ UNCHANGED <<args, env, saved, loaded, run_vars, memory, base, processes, round_vars>>

\* The end of one_run(), after which the process ends, or begins the next run.
EndRun ==
    /\ pc = "end"
    /\ \/ pc' = "off" /\ UNCHANGED <<env, saved, run_vars, base, round_vars>>
       \/ BeginRun(0, <<>>) /\ saved' = NoFiles
    /\ round_history' = <<>> /\ failed_plans' = <<>>
    /\ UNCHANGED <<args, loaded, processes>>

-----------------------------------------------------------------------------
(* One step.                                                               *)

process_vars == <<args, base, processes>>

\* The state is saved; plans stored for this very step are executed again, and
\* otherwise the prompter is asked.
StartStep ==
    /\ pc = "step" /\ step <= last_step
    /\ sim_data' = env
    /\ saved' = [step |-> step, env |-> env, plans |-> loaded, exists |-> TRUE]
    /\ loaded' = <<>>
    /\ IF loaded = <<>>
       THEN pc' = "calling" /\ NewRound /\ UNCHANGED <<response, plan>>
       ELSE /\ args.output = "path"
            /\ pc' = "planning" /\ response' = loaded /\ plan' = 1 /\ UNCHANGED round_vars
    /\ UNCHANGED <<env, step, last_step, obs, outcome, memory, process_vars>>

OutOfSteps ==
    /\ pc = "step" /\ step > last_step
    /\ pc' = "end"
    /\ UNCHANGED <<env, saved, loaded, run_vars, memory, process_vars, round_vars>>

Call ==
    /\ pc = "calling"
    /\ IF args.comm = "dialog"
       THEN /\ Speak(args.debug_mode)
            /\ pc' = IF DialogEnds(args.debug_mode) THEN "judging" ELSE "calling"
       ELSE SpeakAlone(args.debug_mode) /\ pc' = "judging"
    /\ UNCHANGED <<env, saved, loaded, run_vars, memory, process_vars>>

\* The response is parsed, and each of its plans passes the checks.
Accept ==
    /\ pc = "judging" /\ executes
    /\ \E n \in 1..MaxPlans :
           response' = [k \in 1..n |-> [step |-> step, plan |-> k, whole |-> TRUE]]
    /\ plan' = 1
    /\ pc' = IF args.output = "path" THEN "storing" ELSE "planning"
    /\ UNCHANGED <<env, saved, loaded, step, last_step, obs, outcome, sim_data, memory,
                   process_vars, round_vars>>

\* It cannot be parsed, or a plan of it does not pass.
Object ==
    /\ pc = "judging"
    /\ IF LastReplan
       THEN pc' = "step" /\ step' = step + 1 /\ UNCHANGED round_vars
       ELSE pc' = "calling" /\ NextReplan /\ UNCHANGED step
    /\ UNCHANGED <<env, saved, loaded, last_step, obs, outcome, sim_data, response, plan,
                   memory, process_vars>>

\* llm_plan_i.pkl, one file after the other.
Store ==
    /\ pc = "storing"
    /\ saved' = [saved EXCEPT !.plans = Append(@, response[Len(@) + 1])]
    /\ pc' = IF saved'.plans = response THEN "planning" ELSE "storing"
    /\ UNCHANGED <<env, loaded, run_vars, memory, process_vars, round_vars>>

\* The end of the loop body.
NextStep ==
    IF outcome' # "open" THEN pc' = "end" /\ UNCHANGED step
                         ELSE pc' = "step" /\ step' = step + 1

\* Mutant of Executed: an executed response leaves the failed plans in the prompt.
ExecutedKeepingFailures ==
    /\ sim_data' = env'
    /\ round_history' = Append(round_history, response)
    /\ UNCHANGED failed_plans
    /\ NextStep

\* The response has been executed: post_execute_update(execute_success=True).
Executed ==
    /\ sim_data' = env'
    /\ round_history' = Append(round_history, response) /\ failed_plans' = <<>>
    /\ NextStep

LastPlan == plan = Len(response)

\* Path mode: the loop sees every move.
ExecutePlan ==
    /\ pc = "planning" /\ args.output = "path"
    /\ env' = Append(env, response[plan]) /\ obs' = env' /\ outcome' \in Outcomes
    /\ plan' = plan + 1
    /\ IF LastPlan THEN Executed
       ELSE UNCHANGED <<pc, step, sim_data, memory>>
    /\ UNCHANGED <<saved, loaded, last_step, response, process_vars, round_vars>>

\* Skill mode: the executor goes through the compiled plans, stops in the middle
\* of one when the task is done, and hands back what its last move returned.
ExecuteSkill ==
    /\ pc = "planning" /\ args.output = "skill"
    /\ plan' = plan + 1
    /\ \E o \in Outcomes, whole \in BOOLEAN :
           /\ o = "open" => whole
           /\ env' = Append(env, [response[plan] EXCEPT !.whole = whole])
           /\ IF o # "open" \/ LastPlan
              THEN obs' = env' /\ outcome' = o /\ Executed
              ELSE UNCHANGED <<pc, step, obs, outcome, sim_data, memory>>
    /\ UNCHANGED <<saved, loaded, last_step, response, process_vars, round_vars>>

\* Mutant of Rewind: only the failed plan is taken back.
RewindOnePlan == env' = IF plan = 1 THEN sim_data ELSE Append(sim_data, response[1])

\* load_saved_state(): the physics, but neither obs nor reward nor done.
Rewind == env' = sim_data

\* A path is not found; in skill mode also a timeout, an interrupt or any other
\* exception of the executor.
PlanFails ==
    /\ pc = "planning"
    /\ Rewind
    /\ failed_plans' = Append(failed_plans, [response |-> response, tried |-> sim_data])
    /\ UNCHANGED <<obs, outcome, sim_data, response, plan, last_step, round_history>>
    /\ NextStep
    /\ UNCHANGED <<saved, loaded, process_vars, round_vars>>

Next ==
    \/ StartFresh \/ StartContinued \/ Die \/ EndRun
    \/ StartStep \/ OutOfSteps \/ Call \/ Accept \/ Object \/ Store
    \/ ExecutePlan \/ ExecuteSkill \/ PlanFails

Spec == Init /\ [][Next]_vars

\* What a prompt says beside the rules of the task: the scene it describes, the
\* responses executed so far, and the plans that failed since the last of them.
Prompt == [scene |-> obs, history |-> round_history, failed |-> failed_plans]

-----------------------------------------------------------------------------
(* Properties.                                                             *)

Plan == [step : Nat, plan : 1..MaxPlans, whole : BOOLEAN]

\* Every variable has its type; the call limit is exceeded by less than one sweep
\* over the agents, and the replan limit not at all.
TypeOK ==
    /\ pc \in {"off", "step", "calling", "judging", "storing", "planning", "end"}
    /\ args \in [comm : {"dialog", "plan"}, output : {"path", "skill"}, debug_mode : BOOLEAN]
    /\ env \in Seq(Plan) /\ obs \in Seq(Plan) /\ sim_data \in Seq(Plan)
    /\ saved.env \in Seq(Plan) /\ saved.plans \in Seq(Plan) /\ loaded \in Seq(Plan)
    /\ response \in Seq(Plan) /\ plan \in 1 .. MaxPlans + 1
    /\ step \in Nat /\ last_step \in Nat /\ step <= last_step + 1
    /\ outcome \in Outcomes
    /\ round_history \in Seq(Seq(Plan))
    /\ replan_idx \in 0 .. NumReplans - 1
    /\ n_calls \in 0 .. MaxCalls + Len(AgentOrder) - 1
    /\ turn \in 1 .. Len(AgentOrder) /\ spoken \subseteq Agents
    /\ processes \in 0 .. MaxProcesses

\* "if one of the plan failed, rewind the env to before the first plan was
\* executed": a response is executed to its end, in skill mode to the move that
\* ends the task, or the simulator is as if none of it had been; and the prompter
\* is told which.
ResponsesAreAtomic ==
    [][pc = "planning" /\ pc' \in {"step", "end"} =>
          \/ /\ env' = sim_data /\ Len(failed_plans') = Len(failed_plans) + 1
          \/ /\ \/ env' = sim_data \o response
                \/ /\ args.output = "skill" /\ outcome' # "open"
                   /\ Len(env') \in Len(sim_data) + 1 .. Len(sim_data) + Len(response)
                   /\ IsPrefix(Front(env'), sim_data \o response)
             /\ round_history' = Append(round_history, response)]_vars

\* What the prompts say of the past is so: the executed responses they list, in
\* that order, are what took the simulator from where the run began to where it
\* is, and the plans they list as failed are the ones that failed from here.
PromptsRememberThePast ==
    pc \in {"step", "calling", "judging"} =>
        /\ env = base \o FlattenSeq(Prompt.history)
        /\ \A k \in DOMAIN Prompt.failed : Prompt.failed[k].tried = env

\* A dialog that has ended without a plan has used up its calls, and has then, as
\* every dialog of a step's first round, heard all the agents; a later round may
\* end with the first EXECUTE, and so may any in debug mode, where one person
\* answers for all of them (prompt_one_dialog_round).
EveryoneIsHeard ==
    pc = "judging" /\ args.comm = "dialog" =>
        /\ executes \/ n_calls >= MaxCalls
        /\ spoken = Agents \/ (executes /\ (replan_idx > 0 \/ args.debug_mode))

\* The same comment, of what the loop knows of the simulator: at the head of the
\* loop, and when the run is concluded, the observation (and the reward and done
\* that came with it) are of the state the simulator is in.
RewindsAreNoticed == pc \in {"step", "end"} => Prompt.scene = env
=============================================================================
