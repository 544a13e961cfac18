# Verification of robot-collab

TLA+ models of this repository's control software, the TLC configurations that
check them on small instances, and theorems about them with proofs checked by
TLAPS.  Every model is written from the code; where this file names a file, it
is relative to the repository's root.

    tlc -workers 2 -config MCPlannerController.cfg MCPlannerController
    tlapm ControlLoops_proofs.tla

`PROJECT.json` is the index: the components, the runs with the properties each
checks, one mutant of the code for every property (a plausible bug under which
the run reports a violation), the source lines behind every definition, the
hazards, the divergences found and the theorems.

## 1. The system

RoCo lets language models plan for several robot arms in a MuJoCo simulator.
Around the original dialog loop the repository has grown a stack for learned
policies: a bridge that serves the simulator to LeRobot, a dataset pipeline, a
trainer, an executor that runs policies as skills, a planner controller that
recovers from their failures, and an executor for several agents at once.

    dialog runner ── prompters, parsers ── LLM
         │
         ├─ skill plans ── compiler ── motion
         │  planner ── RRT skill executor ──────┤
         │                                      │
    planner controller ── router ── RRT         ├── simulated task (MuJoCo)
         │                    └── learned skill │
         │                        executor ─────┤
    multi-agent scheduler ── executors ─────────┤
                                                │
    LeRobot client ══ ZeroMQ ══ bridge server ──┘
         │
    dataset collection → validation, splits → training → checkpoint
         │                                                  │
    rollout, benchmark  ←───────────────────────────────────┘

    MetaWorld runner ══ pipes ══ helper process (another simulator)
    behaviour-tree controllers ── scripted executor (no simulator)

### Inventory

**Planner controller** (`rocobench/planning/`: `run_controller.py`,
`recovery.py`, `retry_budget.py`, `replanning_policy.py`,
`executor_router.py`).  State: the retry budget, the failure-loop counts and
the metrics, all of the controller's own lifetime; and the local state of
`run()`: the observation, the snapshot, the route of the active call, the
feedback for the next prompt.  Operations: `run()`, which alternates plan rounds
(prompt, parse, validate, compile) with attempts, and the recovery that answers
a failed attempt with a retry, a fallback, a replan, a rollback, or the end.
Calls out: planner, parser, validator, compiler, executors, simulator.  Hard:
chains of retries and fallbacks inside a round, passes of the recovery that
replace each other's answers, exceptions from every call, re-use of the
controller.  Correct when attempts are bounded by the budget, the loops end,
plans and feedback describe the present simulator, a rollback undoes one
attempt, and the metrics add up.

**LeRobot bridge** (`integrations/lerobot_roco/roco_runtime/`, `client/`,
`common/`).  State: the server's episode state machine and its simulator; each
client's socket and its copy of the episode.  Operations: RESET, STEP,
CLOSE_EPISODE, the queries, SHUTDOWN, as requests and replies over a REQ/REP
pair with a receive timeout.  Hard: a client that gives up waits no longer but
its request is still executed; rendering fails after the simulator moved; `env.step`
raises after the simulator moved, and its index is accepted again; two clients; the
server process dies and is restarted.  Correct when the steps are executed in order and
none again that returned, a client knows of a step that raised before it asks for
another, the client's copy is current, limits are kept on both sides, and no episode is
left without an owner.

**Learned skill executor** (`rocobench/skills/learned/`, and the action queue
of `integrations/lerobot_roco/evaluation/action_queue.py`).  State: the policy
cache, the action queue, the success and progress monitors, the fallback count,
the cancellation token.  Operations: `execute()`, `cancel()`.  Hard: another
thread cancels; chunks of any length, policies that raise, environments that
raise; what survives one call into the next.  Correct when success was stable,
no-progress was real, the horizon is kept, a cancellation is heeded and the
cache holds the policies used last.

**Multi-agent execution** (`rocobench/multi_agent/`).  State: the executor's
token and joint stepper, per-run providers, metrics and events.  Operations:
scheduling a joint plan, running it joint tick by joint tick or one agent after
the other, stopping all.  Hard: one agent's failure, a conflict between two
agents' commands, contacts, cancellation at any moment.  Correct when what runs
at the same time is apart, joint steps are complete, a stop is final, and
success means that all agents did their part.

**Dataset pipeline** (`integrations/lerobot_roco/dataset/`).  State: the disk:
episode directories, quarantine, manifest, splits.  Operations: collecting,
committing, quarantining, resuming, overwriting, splitting, validating.  Hard:
crashes and Ctrl-C between two file operations, failing system calls, other
master seeds and index ranges, splits older than the episodes.  Correct when
the manifest is backed by episodes, resuming costs nothing, and a clean report
can be trusted.

**Dialog runner** (`run_dialog.py`).  State: the simulator, the observation,
reward and done flag of the loop, the last saved state, the prompter's
histories, the files of a run.  Operations: prompt, plan and execute each path
plan of a response, rewind, continue a stored run.  Hard: the second of two
plans fails after the first was executed; a process dies between the files of a
step.  Correct when a response is executed whole or not at all, and the prompts'
history is the simulator's; that the loop's observation describes the present
state does not hold (finding 1).

**Prompters and feedback** (`prompting/`).  State: chat, round history, failed
plans.  Operations: dialog rounds, replan rounds, feedback checks.  Hard: call
and replan limits, API failures, what is reset when.  Correct when calls are
bounded, every agent is heard, and failed plans are those of the present state.

**Skills, parsing, motion** (`prompting/skill_parser.py`, `parser.py`,
`feedback.py`; `rocobench/skills/`, `subtask_plan.py`, `policy.py`,
`rrt_multi_arm.py`, `rrt.py`; the pack task of `rocobench/envs/`).  State: the
table (hands, items, welds), the policy's buffer of actions, the two trees of the
search.  Operations: parse a response, validate and compile it, check its poses,
search each motion, execute it step by step, let go, go home, rewind.  Hard: the
path is cut short, thinned out and cut again after it was found; a path home that
is not found is passed over; what a hand touches counts as held; a timeout in the
middle keeps the table as it is.  Correct when a path is safe, a gripper closes
and opens where it should, no two items share a slot, and a skill that succeeded
did what it named.

**Behaviour-tree runtime** (`rocobench/crie_bt/`).  State: the step index and the
started node, the retries per step, the monitor's window, the scripted executor's
tick and attempts, the events.  Operations: `reset`, `tick`; `run_episode` of
three controllers (open loop, direct feedback, behaviour tree).  Hard: a failure
is retried, explained or replanned, and a replan leaves the tree as it was until
somebody resets it; events are returned and logged, then merged.  Correct when
counts are those of the events, the monitor sees what the executor did, success
means the whole plan, and the episode ends.

**Rollout and evaluation, benchmark** (`integrations/lerobot_roco/evaluation/`,
`benchmark/rocobench_pack_v1/`).  State: the action queue, the episode's trace,
its directory, the rows and the report.  Operations: an episode of a policy or of
a baseline, a suite, a benchmark, with `--overwrite`.  Hard: several reasons to
stop after one step; Ctrl-C inside the record of a step; a process killed between two
files of a report, or while it removes an old one, and started again.  Correct when
success is never reported of an unsafe end, the trace shows what was executed, and no
report tells of other episodes than those beside it.

**MetaWorld bridge** (`metaworld_bridge.py`, `run_metaworld_dialog.py`,
`metaworld_integration/`).  State: the helper process and its three pipes, the
episode's step and feedback, the files of a run.  Operations: requests and replies
of one line each, `run_episode`, `main`.  Hard: replies carry no identifier, reads
have no timeout, stderr is read by nobody while the helper lives, the helper
crashes, the user interrupts.  Correct when a record is one step of one episode, a
summary covers the whole run, and the run ends.

**Training** (`integrations/lerobot_roco/training/`) wraps an external trainer.
**Real robot runners**, **scripts**, **dataset export, replay and statistics**, the
other **simulated tasks**: devices, argument parsing, array processing; see
section 9.

## 2. The modules

| component | modules | composed in |
|---|---|---|
| planner controller | `ReplanningPolicy` (budget, loop detector, recovery table and `decide`), `ExecutorRouter`, `AttemptLedger` (abstract) | `PlannerController` |
| bridge | `RoCoBridge` (server and clients) | |
| learned executor | `PolicyHandleCache` | `LearnedSkillExecutor` (with its monitor) |
| multi-agent | `MultiAgentScheduler`, `StopAll`, `SynchronizedExecutor` (with the joint stepper), `SequentialExecutor` | `MultiAgentExecution` |
| dataset | `EpisodeWriter` | `DatasetCollection` (with the splitter) |
| dialog runner, prompters | `DialogPrompter` | `DialogRunner` |
| skills, parsing, pack task | `TableTop`, `SkillPlans` | `SkillPipeline` |
| motion planning | `MotionPlanner` | `SkillPipeline` |
| behaviour-tree runtime | `SkillFeedback`, `BehaviourTree` | `ArchitectureControllers` |
| rollout, evaluation, benchmark | `ActionChunks`, `PolicyRollout` | `EvaluationRun` |
| MetaWorld bridge | `MetaWorldBridge` | `MetaWorldRunner` |

`MC*.tla` with `MC*.cfg` are the instances; `*_proofs.tla` the theorems, each module
those of the component it is named after, but for two that hold the theorems of two
components each: `ControlLoops_proofs` (planner controller, MetaWorld runner) and
`Execution_proofs` (multi-agent execution, evaluation run).

### How states and actions correspond to the code

*Planner.*  `pc` is where `run()` is: `idle` (not running), `loop` (the head of
the loop over rounds), `prompted` (the planner has been asked), `ready` (a
compiled or learned attempt can start), `executing`, `failed` (the recovery
decides).  One action covers the stretch of `run()` and
`_execute_with_recovery()` between two answers of the environment; the answer
(a parsed plan, an executor's status, a task success) is a choice.  `budget`,
`counts` and `metrics` are `RetryBudget`, `FailureLoopDetector.counts` and
`PlannerMetrics`.  A simulator state is a member of `States`; an observation is
the state it shows, which is what the grounding property compares.  `executors`
is the dictionary the controller is built with: both backends, one, or none.
`concluded` and `baseline` are history variables.  Exceptions of each call are
actions that leave `run()` where Python would.

*Bridge.*  The server's action for a request is `handle_request` with the handler
it dispatches to, in the order of its checks; failing renders and failing steps
are separate outcomes of the same handler: after a failed render the state machine has
moved (`StepEpisode`, second answer), after an `env.step` that raised it has not while
the simulator may have (`StepRaises`), and a rejected action touches neither
(`StepFails`).  `trajectory` holds the calls of `env.step` since the reset, each with
`whole`: whether it returned and was counted.  `owed` and `disturbed` are history: the
clients not yet told that their step raised, and those that gave up a call or were never
told of a reset.  A client's actions are the methods of `RoCoGymEnv`, split at the request
(`reset` may be two: CLOSE_EPISODE, then RESET).  `socket` is ZeroMQ's REQ state:
`ready`, `waiting`, `stuck` (a timeout left it without a reply; it is never
rebuilt).  ZeroMQ itself is external: a message is delivered at most once, a
reply to a client that gave up is not read.

*Learned executor.*  One iteration of the loop of `execute()` is one or two
actions: fetching an action (queued, or by an inference, which may fail) and
acting on it (the step, the monitors in the code's order, success).  `Cancel` is
the other thread.  `samples` are what the progress monitor is shown: two samples
that differ by less than its epsilons are the same sample.

*Multi-agent.*  `Schedule(config, plan)` is `MultiAgentScheduler.schedule` with
the workspace mapper, the resource manager and the compatibility matrix.  A joint
tick is the actions of `SynchronizedExecutor`: each provider in `agent_order`
(it may raise), the central monitor, the merge, the step, the checks after it.

*Dataset.*  The writer makes one file operation per step, so that a crash
(`Crash`), Ctrl-C (`Interrupt`) or a failing call (`Raise`) falls between any
two; `os.replace` of a directory or of the manifest is one operation.
`handler` is the `except` clause the loop is in, since a failure there is not
caught.  The expert is its outcome.  `splits` keeps what `splits.json` holds and
which variations it was made from.

*Dialog runner.*  A step of `one_run` is `StartStep` (save the simulator, take
stored plans or prompt), `Call` for each call of the language model, `Accept` or
`Object` for what parsing and feedback make of the response, `Store` for each
`llm_plan_i.pkl`, and `ExecutePlan`, `ExecuteSkill` or `PlanFails` for each plan.
In debug mode a person answers for all the agents in the first call, which ends the
dialog (`DialogEnds`).
The simulator's state is the sequence of plans executed since its reset, which
tells a rewound state from any other.  `Die` is everything that ends the process;
`StartContinued` is `--cont` in the directory of the run.  `actions.pkl`, which
`run()` looks for, is written by nothing (the runner writes `actions_0.pkl` and so
on), so replaying actions is left out.  A continued step whose response was stored
only in part executes that part: the model has this, and the properties speak of
the response the process loaded.

*Skills, parsing, pack task.*  `TableTop` is the table: a hand is at the base it
works at, one sample of its path short of it, or over the table between two bases; each
agent has a home of its own;
an item lies at its base, in a slot or in a hand (`Weld`).  `Held` is what the
observation's contacts make of it, which is not the weld.  `Contacts` has the items only,
not the bin or the table (section 7 says what these do); of several items
`adjust_inhand_names` takes any one, a set having no order, and the model the first in
`ItemOrder`.  `SkillPlans` is pure: the
verdict of each parser, of the validator and of the compiler, and the path plans the
others become.  `SkillPipeline` walks a response through them: `Respond` (parse,
validate, compile, feedback), `MakePolicy` (or `NoPolicy`, when inverse kinematics
fails), `Planning` (a step of the search), `Planned`, `GoHome` and `Homed`, `Act` (one
`env.step` of the buffered actions), `Abort` (the executor's timeout) and
`FinishRound` (report, rewind or keep).

*Motion planning.*  A configuration is a value and `Extend` the straight lines.
`Call` is the call of `plan()` or `plan_splitted()`, `WholeLine` the direct path over
the whole motion, `StartLeg` each leg between two waypoints, `Grow` one iteration of
`rrt_connect` (either tree first, any sample), `GiveUp` its timeout, `Smooth` one
iteration of `smooth_path` over any two positions, `Smoothed` and `Return` the rest.
A node of a tree is its `retrace()`.

*Behaviour tree.*  A tick is a function of the tree, the executor, the monitor and an
observation, as in the code, where nothing else runs; `ArchitectureControllers` takes
one tick, one call of the planner or one reset per action.  Scores and confidences are
in thousandths, distances in centimetres, so that the thresholds are the code's.

*Rollout and evaluation.*  `PolicyRollout` has one operator per stretch of
`run_policy_rollout` that an interrupt or a kill can fall between, over a record of the
function's locals and one of the episode's directory.  `EvaluationRun` runs them one after
the other as the suite or the benchmark does.  A policy answers chunks of two actions,
which may be out of bounds, not finite, too few, or a batch of two.  `Record` is
`record_transition` and `append_chunk_trace` in four steps: the first of the lists, the
others, the event, the row of the trace; `Finalize` is the three files of `finalize`.  Of
the seven lists the first (`states`) and the rest (`buffered`) are counted; an interrupt
between two of the rest lies between the two counters.
`output` is the output directory: which files of the report are there, the rows of
episodes.csv, the counts of metrics.json.  `StartReport`, `WriteMetrics`, `WriteRows`
(open, then row by row) and `WriteMarkdown` are `write_run_outputs`.  `Clear` is one step
of the `rmtree` of `--overwrite`: a file of the report, a first piece of an episode
(`torn`), or the rest of it, in any order, which is more than a file system does.
`output.torn` remembers that a removal has begun and was not finished.  A JSON or markdown
file cut short counts as one that is not there; a row of episodes.csv is there whole or
not at all.  The two result.json of the ACT baseline are one, and its directory and those
of hold and RRT appear when the episode begins.

*MetaWorld.*  The two processes take their own steps: the helper (`Start`, `Take`,
`Work`) and the runner between two lines of the pipes.  `stuck` is the helper blocked
on writing to a full stderr.  A record keeps the step it observed, the step its
prompt's feedback is of, and the outcome, which is how a mixed-up reply would show.
`WriteSummary` is two steps, `open`, which truncates, and `dump`.

## 3. The runs

Deadlock is checked unless the system may really stop (a comment in the
configuration says why).

**`planner_shipped`** (`MCPlannerController`): two calls of `run()` on one controller
with the shipped recovery table and the two routes of
`configs/planning/pack_learned_sequential.yaml`, with both executors, one or none;
three plan rounds, one retry per call, two learned failures, one repetition, one
fallback, two simulator states, a failure code for each recovery action and codes the
table does not know.  Each limit is reached and exceeded by what the environment can
do, with two calls one call's retries can be confused with the other's, and the second
`run()` finds what the first one used up.
- `RoundAccounting`: every round is concluded once, as a replan, an invalid plan or the end of the run.
- `LearnedFailuresBounded`, `FailureLoopsAreBroken`: past the limits, a failure costs something finite or ends the run.
- `PlansAreGrounded`: prompts, feedback and attempts are about the present simulator, also after a rollback.
- `RollbackIsExact`: in a chain of attempts a rollback undoes the failed one only.
- `ImplementsLedger`: the controller implements `AttemptLedger`, where an attempt needs a licence and licences come out of finite stocks.
- `RunsMakeProgress`: each step of a run decreases (rounds left, stake, phase) lexicographically: there is no free cycle.

**`bridge`** (`MCRoCoBridge`): two clients, one with a shorter step limit than the
server's two steps; two episodes, one raising step per index, one restart, remote
shutdown allowed.  Two episodes are enough for a client to hold an old id while another
episode is open; two steps for a lost reply in the middle and at the limit; one raise for
an index that is run again.
- `StepsRunInOrder`: the simulator's steps since the reset are those of the indices 0, 1, ... in order, all asked for by the episode's owner, and none is run again once it returned; only one that raised is.
- `RepeatsAreKnown`: after a step that raised, nothing more is executed for its client before the client has read that it raised.
- `MirrorIsCurrent`: a client's copy of the open episode is at most one step behind; its done flag is trustworthy up to there.
- `NoOrphans`: an active episode is held by its client or on the way to it, unless this very client gave up a call, died, or was refused its reset's reply.

**`learned_skill`** (`LearnedSkillExecutor.cfg`): four calls, three policies for a
cache of two, four steps, chunks of one to three against a horizon of two, two
stable checks, windows of two with a patience of two, one automatic fallback.
Four calls let a policy be evicted and come back; the chunk lengths are below, at
and above the horizon; the windows slide within a call.
- `SuccessIsStable`: a learned success is the last `StableChecks` steps of the same call being in the goal.
- `NoProgressIsReal`: NO_PROGRESS means that the windows were still, and a call that goes on has not been still that long.
- `CancelIsHeeded`: at most one step after a cancellation, in this call or a later one.
- `CacheIsMostRecent`: the cache holds the policies used last, in that order.

**`multi_agent`** (`MCMultiAgentExecution`): every plan of three agents over a few
objects and bins, eight scheduler configurations, two joint ticks, three runs of
one executor.  The bins cover both sides and the center; one agent is unknown to
the workspace mapper; fragments agree, clash, are not finite, or are ragged.
- `ReachingAcrossIsAlone`: what is scheduled concurrently stays on its own side with its own object and target.
- `SuccessIsLockstep`: success means every active agent acted in every tick and nothing unsafe happened.
- `JointStepsAreComplete`: a joint step carries each active agent's command of this tick, from the present observation.
- `StopsAreFinal`: the executor implements `StopAll`.

**`dataset`** (`MCDatasetCollection`): three collection processes over two indices
and two master seeds, any range, with and without `--resume` and `--overwrite`,
two faults anywhere, splits made in between with the default and with equal
weights.  A third process can find what a second one left of the first.
- `ManifestIsBacked`: what the manifest counts is there, whole; without overwriting, at most one episode per fault is uncounted.
- `ResumeKeepsEpisodes`: without `--overwrite` no episode directory changes.
- `CleanReportsAreSound`: if validation reports no error and there are splits, every episode is whole and in exactly one split.

**`dialog`** (`MCDialogRunner`): three agents with a limit of four calls, or one
planner; two replans, three steps, responses of one or two plans, path and skill
mode, debug mode on and off, two processes that may die anywhere.  Four is no multiple of three, so a
sweep over the agents begins below the limit and ends beyond it; with two plans a
failure can follow an execution; with two processes the second continues what the
first stored, in either mode.
- `ResponsesAreAtomic`: a response is executed to its end, in skill mode to the move that ends the task, or the simulator is back before its first plan and the prompter is told.
- `PromptsRememberThePast`: the executed responses in the prompts take the simulator from where the run began to where it is; the failed plans failed from here.
- `EveryoneIsHeard`: a dialog ends with an EXECUTE or when its calls are used up; it has then heard every agent, but for the EXECUTE of a later round or of debug mode.

**`dialog_rewind`** (violation): see finding 1.

**`behaviour`** (`MCArchitectureControllers`): one row of the ablation with each of
the three controllers, scripted, injected and unimplemented planners, plans of none, one
and two steps, the shipped failure scenarios, three observations, a patience
of three, one retry and eight steps.  A budget of eight holds a failure that is
retried, fails again, is replanned and succeeds.
- `RowMatchesEvents`: no event is lost or there twice, and the row's counters are those of the events.
- `MonitorFollowsExecutor`: a started skill has been seen by the monitor as often as it was stepped, across retries and replans.
- `SuccessIsTheWholePlan`: success means every step of the last plan was completed.
- `NoTickOnAbandonedPlan`: a tree that asked for a replan is not ticked before it was reset.
- `EpisodeEnds` (liveness): retries, explanations and replans spend one budget.

**`evaluation`** (`MCEvaluationRun`): a suite of one episode or a benchmark of two
with every method, started three times, with and without `--overwrite`, killed or
interrupted anywhere; chunks of two actions with horizons of one and two, two steps, a
patience of one, a limit of two collisions or none.  The second start finds whatever the
first left, whole or not, and the third what a second left that was killed while it
cleared that away.
- `SuccessIsClean`: success rests on the task's predicate, and on no step that a graver reason to stop holds of.
- `TraceIsComplete`: the rows of the trace are the executed prefix of each chunk, gapless; result.json, states.npz, actions.npz, the events and the trace tell of equally many steps, unless an interrupt fell into one: then of that one more, those written first being ahead.  Nothing that was queued would be refused.
- `ReportsMatchEpisodes`: every row of episodes.csv is the outcome of the episode beside it, if that is there whole; unless a removal was cut short, a report has a directory for each episode asked for and no other, metrics.json counts theirs, and report.md is there with all the rest only.

**`pipeline`** (`MCSkillPipeline`): two agents, two items, two slots, two rounds; skill
plans, actions, and actions with waypoints, well formed and not; two iterations per
search, one shortcut, a control frequency of two.  Two agents and items are enough for
two hands at one place, an occupied slot, an item in the wrong hand; two iterations
let the trees meet from either side; a frequency of two thins out a path.
- `PathIsSafe`: a path starts and ends where it should, collides nowhere and never jumps.
- `GraspNearTarget`: a weld is switched on at the item (unless it hangs in another hand
  over the table), and off over what the plan names.
- `SlotsAreExclusive`: in a round that begins with at most one item in a slot and in a hand, no step
  brings an item to an occupied slot or into a second hand.
- `SkillMeansPlaced`: a skill plan that succeeded placed what it named and moved nothing else.

The last two leave out a hand that merely touched the item it was taken to hold (see
the observations): the code does not tell that from holding it.

**`pipeline_compile`** (violation): see finding 2.

**`metaworld`** (`MCMetaWorldRunner`): up to two tasks or two episodes, scripted, by
hand or by a language model, tasks named twice, by group or wrongly, in a directory
that may hold an earlier run, and a run of no episodes; two steps, two replans, a pipe that holds one line, two
interrupts, a helper that errs, crashes or never starts.
- `RecordsAreTheEpisode`: each record is one step of this episode, decided on feedback about the step before it.
- `SummaryIsTheWholeRun`: a summary covers every task and episode, and says success where the last record does.
- `RunEnds` (liveness): the run ends and no helper outlives it, unless a helper is stuck on its stderr.

## 4. Fairness

*Behaviour tree*: `WF_vars(Next)`: one thread that waits for nobody.  *MetaWorld*:
`WF_vars(Runner)` and `WF_vars(Helper)`, two processes the operating system schedules;
crashes, chatter on stderr and interrupts are not fair.  The other models state safety only and assume no
fairness; that a planner's run goes through no free cycle is an action property.

## 5. What is proved

The assumptions are the named ones of the modules (`PolicyAssumption`,
`RouterAssumption`, `ExecutorsAssumption`, `BridgeAssumption`, `PrompterAssumption`,
`RunnerAssumption`, `MotionAssumption`, `ExecutorAssumption`, `MonitorAssumption`,
`TableAssumption`, `PipelineAssumption`, `WriterAssumption`, `RetriesAssumption`,
`CacheAssumption`, `OrderAssumption`, `CallerAssumption`, `CollectionAssumption`,
`EpisodeAssumption`, `RunAssumption`, `RolloutAssumption`, `ChunkSizeAssumption`): limits are naturals, tables are functions of the right type, a
straight line has its ends, an injected plan is a sequence of skills, names of items and
slots differ, an action horizon is at most the chunk size (the queue refuses another).  Calls, codes,
states, clients, routes, policies, agents, configurations and limits are arbitrary.
Each strengthened invariant was checked by TLC on the component's instance before it
was proved.

**`ControlLoops_proofs`, planner controller.**  `TypeCorrect`: the inductive form of `TypeOK`
adds that the executor of the current route is known.  `RoundsAreAccountedFor`
is inductive with it.  `PlansStayGrounded` and `RollbackUndoesOneAttempt` rest on
`RollbackInv`: the snapshot is the state before the current attempt at each point
of a round; without it a rollback could lead anywhere.

The second half of the module is about the budget.  `decide()` consumes units while it settles on an
action, so the bounds are first proved as lemmas of its passes and then lifted:
`LearnedFailuresAreBounded`, `LoopsAreBroken`, `RecoveryIsWithinLimits` from
`BoundsInv`; `AttemptsAreBought`, the step refinement of `AttemptLedger`;
`RunsAlwaysProgress`, the variant for any limits; and `FallbacksAreSeparate`,
under the premise that the table retries no code of the RRT executor
(`RrtIsNeverRetried`, true of the shipped table; section 7 says what happens to a
table that does).

**`ControlLoops_proofs`, MetaWorld runner.**  Replies carry no identifier, so
`RecordsStayOneEpisode` needs that none is ever read as the answer to another request.
`Protocol` says so place by place: while the runner is in `act`, `frame`, `reset` or
`step`, either nothing is under way or exactly one of request, command in the helper and
reply is, it is the one of this place, and the helper's environment is the one the runner
believes in, or the step further that the reply tells of.  An interrupt breaks that, but
only on the way to `close`, after which the episode writes nothing.  `LoopInv` relates
snapshot, feedback, answer and outcome to the loop's index, and `FileInv` the index to
the lines written.  `SummariesTellTheRun` rests on those and on `Progress` (every task
but the last begun has all its episodes), `Helpers` (a helper was started for each
episode over and for this one, hence `spawned`) and `ResultsInv` (a result in memory is
what its file's last line says, and no later episode opens that file: tasks are resolved
without repetition).  Both hold for any tasks, groups, steps, queries, pipe size, number
of interrupts and failures of the helper, no episodes included.

**`RoCoBridge_proofs`.**  `IInvHolds` proves the inductive invariant, the
conjunction of the types, `SocketInv` (a socket waits exactly in a call that
waits), `OutstandingInv` (at most one message per waiting client),
`OwnerInv` and `ServerInv` (whose episode is open and what the simulator did
since), `CallInv` and `MessageInv` (what a request or a reply can still say about
the open episode), `MirrorIsCurrent`, `ClientLimits`, `QuietInv`, `NoOrphans` and
`OwedInv` (a client whose step raised is about to read so, or cannot send any more).
None of the safety properties is inductive alone: that the steps run in order
needs that a delayed request carries an index the server has left or is at, which
needs the mirror's lag, which needs what the replies on their way say.  And that an
index is run again only for a client that was told so (`ToldBeforeRepeat`) needs that
of the steps done those of the present index are all raised ones (`ServerInv`), and
that the word of it is either on its way or lost together with the client's socket.
`BridgeTypes`, `InOrder`, `ToldBeforeRepeat`, `MirrorLags`, `LimitsHold` and
`EpisodesAreOwned` follow for any number of clients, episodes, restarts and raised
steps.

**`DialogRunner_proofs`.**  `EveryoneIsAlwaysHeard` rests on `HeardInv`: during a
dialog the agents before the one whose turn it is have spoken, so the call limit,
looked at only after the last agent, cannot cut the first sweep short; debug mode,
which ends a dialog after one answer, is the exception the property names.
`ResponsesAreAlwaysAtomic` rests on `AtomInv`: while a response is being executed
the simulator is at the state to rewind to followed by the plans done so far, and
the stored plans are a prefix of the response, so that the ones a process goes on
with are all of them.  `PromptsAlwaysRememberThePast` rests on `PastInv`: where the process
went on from, followed by the responses it remembers, is what the simulator has done
whenever it is not in the middle of a response, and what was saved as the state to
rewind to.  That flattening one more response appends it (`FlattenOneMore`) is proved by
induction over the length, from the well-foundedness of the naturals (`EveryNumber`).
All three hold for any agents, limits, steps and processes.

**`LearnedSkillExecutor_proofs`.**  The counters of the code are incremental, the
properties are about the trace; the lemmas say what one more step does to each.
`LoopInv`: inside the loop `consecutive` counts the last steps that met the goal and is
below `StableChecks`, and the monitor's window and `stalled_windows` are those of the
call's own samples.  Without it a success could rest on the previous call's steps.
`VerdictInv` says what a reported result rests on, `CancelInv` that a token stays
cancelled and that a step after it ends the loop, `CacheInv` that the cache is the most
recent end of the uses (its operators are lemmas of their own: a hit moves a policy to
the end, a miss may drop the oldest).

**`Execution_proofs`, multi-agent execution.**  `ReachingAcrossIsAlwaysAlone` has no state to
strengthen: it is about `Schedule`, whose verdict is followed through the mapper, the
resources and the compatibility matrix for any configuration.  The others rest on
`RunInv`: as long as no event has happened every agent has acted once per tick begun
(`LockstepInv`), and the fragments at hand are of the present observation
(`PresentInv`).  `StopsAreAlwaysFinal` is the step refinement of `StopAll`, action by
action of both executors.

**`Execution_proofs`, evaluation run.**  `OuterInv` is about the run, `InnerInv` about
the rollout at hand; each action is shown to keep one with the help of the other.
`SuccessStaysClean` needs `VerdictInv`: a reason to stop outranks a success only because
one chain of conditions decides both, and a record not yet judged has no verdict.
`TraceStaysComplete` needs `QueueInv`: what was popped and what is queued make up whole
horizons of the chunks loaded, and the next item's chunk and offset are the quotient and
the remainder of the number popped (`ChunkAndOffset`).  `Progress` says for each place of
the recording how far the steps, the final states, the buffered rows and the events are
ahead of the trace: by one each until the code has come to it, so that an interrupt leaves
them one apart in that order and no further (`WithinAStep`).  `DirectoryInv` keeps both for
the directories of earlier episodes and earlier starts, whatever a kill left unfinished.
`ReportsStayTrue` needs `RowsInv`: past the removal of an old output the directories are
those of the episodes begun and none is half removed, the rows in memory are theirs, and
the files of the report that exist are those the present stage has written (`Written`).  A
removal that was cut off is known by its mark (`torn`), under which the property says only
that a row agrees with an episode that is still whole; a complete removal takes it away.  All
three hold for any policies, answers, chunk size, horizons, limits and number of starts.

**`DatasetCollection_proofs`.**  `CallInv` says for each step of the writer what is on
the disk.  What the manifest counts is compared with `Backed`, not with every whole
episode: a collection with `--overwrite` starts a manifest at zero while the episodes of
the old one are still to be replaced, so only those it has already passed can be
relied on.  `Uncounted` is the episode between its rename and the manifest's, which a
fault leaves uncounted for good.  `SplitInv` says that an episode is in two splits only
if they share a variation, which is what the validator looks for.

**`ArchitectureControllers_proofs`.**  `TickInv`: in the loop of the tree the steps
completed are those before the present one, and a started node's skill is the one the
executor is active in, seen by the monitor at every tick; a retry restarts all three,
a replan the whole tree.  `PlacesOK` is needed because one row runs one of three
controllers: the log says success at the end only.
`RowsAlwaysMatchEvents` needs `EventsInv`: the events of a tree are numbered in a row up
to its clock, which runs on across resets (`Numbered`), and every event in the row is
older than the first one the cursor has not shown (`RowFollows`), of which a new tree has
one, its `PLAN_STARTED`.  So what a tick adds is new to the row, whether it was returned
or only logged; `UnloggedIsTheRest` says what the loop over the log adds, `RowGrows` that
a tick adds one event of each type it tells and no other (`TickTells`), and `CountGrows`
what that does to the counts.

**`SkillPipeline_proofs`.**  `PathsAreSafe`: whatever the configurations, the lines
between them, the query, the samples and the limits (of the assumptions only
`MotionAssumption` is used).  `Route(p, a, b, B)` says that p
leads from a to b without a jump and clear of B; the lemmas say what cutting, joining
and reversing do to a route.  A node of a tree is a `Branch`, of which only the root
may collide (its own configuration is never checked where the caller skips it), so the
joint of two branches is shown clear from the goal side as well (`BranchesJoin`).
`ClearPrefixIsClear` finds the first colliding sample of a line by well-founded
induction on its index.  `MotionInv` says, stage by stage, which routes the search
holds: the legs done lead from the start to the waypoint the present leg begins at, and
each leg's path to its end.  Without the legs in it, joining them could jump.

`GraspsAreAlwaysNear` follows a response to the table, for any agents, items, slots,
responses and control frequency.  The pure operators come first: what `ParseActions`
makes of a response are plans of which only the first grasps, and only items that lie
where the response found them (`ResponseIsParsed`); what `Kept` leaves of a path is not
empty and ends at its end or one sample before it (`KeptEnds`), which on a straight line
between arms is still the base (`LinkNear`).  `GraspInv` joins them: `TypesInv`;
`MotionInv`, since each step of the pipeline is a step of the planner
(`PipelineMovesPlanner`); `QueryInv`, the planner was asked about this plan from this
world; `BufferInv`, of the buffered actions one at most grasps, and the hands are at the
targets there; `PendingInv`, up to a plan's grasp the resting places are the response's
and the welds what the plan before left (`WeldFor`).  Without the last an item could
have been moved between the parsing and the grasp.

`SlotsStayExclusive` is about where the items are.  The scene the planner searches in
has the carried items of a plan at its hands and the others where they lie, so the
spots of the items (`Spot`) are apart wherever a path was clear (`SpotsApart`), and a
plan's grasp changes none of them (`GraspSpots`).  `ApartInv` has the four things this
needs: no two plans' goals meet (`GoalsApart`); the actions up to the grasp are clear of
the scene (`ClearInv`); after it only the hands that return home move (`StayInv`); and
the world of the round is exclusive (`ExclusiveInv`).  The way home has a path of its
own, searched with the scene of a plan that is over; that the hands which stay do not
move on it needs to know how far a search can stray.  `StrayInv` says so for every set
of configurations closed under the lines between its members: a search that begins in
one stays in it.  A hand that only touches the item it was taken to hold breaks the
argument at its first step, the code's scene moving an item that the simulator does not.

`SuccessMeansPlaced` begins with what the registry, the validator and the compiler leave
of a skill plan (`PreparedShape`): one or two path plans without waypoints, in which each
agent that puts something puts an item of its own that is in no slot yet, and the others
stay.  `TravelInv` follows the hands: a waiting hand never moves, and another is, up to
its grasp, at the base its motion began at, at the one it is to end at, or over the table
(`TravellingIsClosed`, with `StrayInv`).  `SettledInv` says what rests where after the
last release, `TableInv` that no item is let go of over the table.  An execution may also
stop before that, when the task is over: then every item is in a slot, an item that is
still carried cannot be where it came from, which was no slot, and so its hand is over the
slot it was to go to (`OverItsSlot`); with a plan still to come it cannot have been over
(`NotOverYet`).

## 6. Only model-checked

- `EpisodeEnds`, `RunEnds`: liveness under fairness, which the installed
  provers do not reach.

## 7. Findings and observations

1. `dialog_rewind`: when a later plan of a response cannot be planned, the
   simulator is rewound, but the observation, reward and done flag of the loop are
   not: the next prompt describes a scene that is gone, and a run can end as a
   success on a simulator in which nothing has been done.
2. `pipeline_compile`: the validator accepts a skill plan in which one agent puts down
   what it already holds while another fetches something; it compiles to PLACE (one
   step) beside PICK ... PLACE (two), which the legacy parser refuses to merge.

What follows was met while modelling and is what the models do; no run is about it.

*Planner.*  A recovery table that retries a code the RRT executor also uses makes the
retry after a failed fallback count as a learned attempt and as a fallback
(`docs/phase6_demo_tutorial.md:290` says the metrics keep them apart).

*Bridge.*  After a reset whose first render failed (`server.py:276`) the server stays
occupied, and closing the refused environment does not free it, as
`docs/phase0_setup_install_test_demos.md:425-430` says it does.  A step can raise after
`sim_forward` has moved the simulator (`base_env.py:690-715`, a camera that fails); the
server's index has not advanced then (`server.py:295`), and a client that was told of the
failure may send the same index again, which is executed on the state it left.

*Learned executor.*  A checkpoint whose metadata does not match, or a chunk the queue
refuses, ends `execute()` with an exception (`executor.py:211`, `:249-250`), where
`docs/phase5_learned_executor.md:28` has the executor report failures.

*Dataset.*  A crash inside `quarantine_episode` leaves a quarantine without a report
(`writer.py:284`; the class is to quarantine atomically, `:170`).

*Dialog.*  The agent told that "this is the last call" (`dialog_prompter.py:212`) need
not be: the limit is compared after a whole sweep over the agents.  A response of which a
crash has stored some plans only is taken up by the next process as if it were whole.

*Behaviour tree.*  Direct feedback looks at a plan's first step only, and an empty plan
is an `IndexError` there and a success in the open loop.  `reset()` forgets the failed
subtasks.  A scripted LOW_CONFIDENCE repeats until the steps run out.  The plan of the
last replan is not recorded as started.

*Evaluation.*  The benchmark's bridge step asks `is_success` before `unsafe_state`, the
rollout the other way round.  `evaluate()` removes the output directory before it
builds the baseline, so an unknown method with `--overwrite` deletes the previous run.
A suite that is refused because an episode exists has already replaced
`suite_manifest.json`, and one re-run with `--overwrite` leaves the old report beside
new episodes until it finishes.  An interrupt may leave success with reason
MANUAL_INTERRUPT and one step more than rows.  `read_episodes_csv` keys rows by task and
variation.  An `ActionQueueError` of `load_chunk` escapes the rollout.

*Pipeline.*  An item that is only touched counts as held: its agent's next plan takes it
to be in the hand, and an item may be put into an occupied slot; contacts with the bin
or the table make PICK refuse.  A path home that is not found is passed over, and such a
hand touches the item it packed from then on, after which its agent can only wait.  With
endpoint checks skipped, a search from a colliding start can leave it in no direction.
`path[::freq] + path[-3:-1]` drops the goal (the last configuration is one sample
short), or reaches it and steps back.  PUT after a timeout before the grasp compiles to
PLACE and succeeds with nothing moved.  An item held over a slot when a timed-out table
is kept counts as packed and can no longer be released.  `set_ungraspable` stores what
it finds under the wrong name.  `CenterWaypointsUniformSampler` draws around twice the
center.  `solve_ik` returns its last attempt even if it is out of range or collides.
`done` can end an execution before the last release; in the action modes it survives a
rewind and ends the run.  `close_loop` passes physics where an environment is expected.
In "action_and_path" mode PICK ... PLACE never parses; `use_prepick` would index None;
an empty path divides by zero.  `rrt()` and `execute_staged_put_object_in_container`
are called by nothing.

*MetaWorld.*  A helper that writes more to stderr than the pipe holds stops, and the
runner waits for its reply for ever (`bridge_client.py:103`): `RunEnds` is conditional
on it.  The reply to an interrupted request is read as the reply to `close`.  One failed
episode loses the summary of the run.  A run in the directory of an earlier one leaves
that one's further records and, until it finishes, its summary beside its own.  NaN
passes the parser, and scripted actions are not clipped.  An exception in the client's
constructor leaves the helper to find the end of its stdin.  After a refused answer the
next prompt's feedback is about the parsing and no longer about the step.

## 8. Plan

Done: every component that section 2 lists is modelled, and every safety property and
action property that a passing run checks is stated by a theorem for arbitrary constants.
What could come next is breadth: the parts that section 9 leaves out.

## 9. Not modelled

- *Learned executor*: artifacts and warnings, the progress stage's name,
  `unload()` of what an evicted handle held; the environment's query helpers are
  taken not to raise; a re-entrant `execute()` returns at once and is left out.
- *Multi-agent*: a provider whose `reset` raises, providers of agents outside
  `agent_order`, array dtypes, the identity of the scheduler's rule that
  objected.  `default_on_uncertainty: sequential` in `configs/multi_agent/` is
  read by no code.
- *Bridge*: the bytes of the wire format, image content, the live view.
- *Dataset*: per-episode array checks, several collectors at once, leftovers
  in `_staging` (no later process uses their names), writers with another schema
  (they refuse to open); `max_episode_frames` is configured and never compared.
  Replay and statistics read arrays once.  The LeRobot export writes through an
  external library; its marker is written last and nothing compares the export with
  the episodes collected since.
- *Dialog runner*: videos, html, several `--start_id` runs side by side, `--cont`
  into another directory than the run's; the step's directory and its `env_init.pkl`
  appear together.  `actions.pkl`, see section 2.
- *Skills and parsing*: regular expressions and wording; OPEN, SWEEP, DUMP and the
  other tasks' verbs, which the skills do not know; artifacts and metrics.  What
  `get_task_feedback` objects to is not spelled out: any response may be refused.
- *Motion planning*: geometry and inverse kinematics are outcomes (any set of colliding
  configurations, any samples); splines; the multi-tree variants that nothing calls.
- *Simulated tasks*: MuJoCo's physics, and the five tasks other than packing.
- *Behaviour tree*: the LLM and LeRobot adapters raise `NotImplementedError` in the
  repository, and are modelled as that.
- *Evaluation and benchmark*: rendering, video, the text of reports, confidence
  intervals, paired statistics, the release validator; `suite_manifest.json`,
  `termination_reasons.csv`, `latency.csv` and the suite's own report, which repeat
  what the modelled files say (`ReportsMatchEpisodes` is about one benchmark's report).
- *MetaWorld*: images, prompts' wording, the debug files, output on the helper's stdout
  that is not a reply.
- *Training, real robots, scripts*: an external trainer, device drivers and argument
  parsing, with no state of their own that another part reads.
