---------------------------- MODULE EvaluationRun ----------------------------
(***************************************************************************)
(* The processes that run episodes one after the other and report on them: *)
(* the evaluation suite of direct rollouts, and the benchmark evaluator    *)
(* with its baselines: ACT, hold and random actions, and RRT.  A process   *)
(* may be killed between any two steps and started again over what it left.*)
(***************************************************************************)
EXTENDS PolicyRollout

CONSTANTS
    PolicyPaths,    \* checkpoints --policy-path may name
    Horizons,       \* values of --execution-horizon
    CollisionLimits,
    EpisodeCounts,  \* length of the suite, and --episodes-per-task
    Variations,     \* variations of the benchmark task's group, in order
    Tasks,          \* tasks --task-id may name
    Invocations,    \* the drivers and arguments the script may be started with
    MaxInvocations  \* how often the script is started

\* The suite, or the benchmark with a method; "hold" stands for random too.
Drivers == {"suite", "act", "hold", "rrt", "learned_rrt_fallback", "external"}

Setups == [driver : Drivers, task : Tasks, checkpoint : PolicyPaths, horizon : Horizons,
           limit : CollisionLimits, instruction : BOOLEAN, episodes : EpisodeCounts,
           overwrite : BOOLEAN]

ASSUME RunAssumption ==
    /\ PolicyPaths \subseteq Checkpoints
    /\ EpisodeCounts \subseteq Nat \ {0} /\ Variations \in Nat \ {0}
    /\ Horizons \subseteq 1 .. ChunkSize /\ CollisionLimits \subseteq Nat
    /\ Invocations \subseteq Setups

VARIABLES
    setup,      \* the driver and the arguments it is started with
    stage,         \* what the process does next; "idle" when there is none
    index,      \* the episode it is at
    ro,         \* the locals of the rollout
    results,    \* the rows it holds in memory
    disk,       \* episode directories
    output,     \* the output directory around them, with the files of its report
    invocations

evaluationVars == <<setup, stage, index, ro, results, disk, output, invocations>>

\* aggregate_results, as far as it counts.
aggregate_results(rows) ==
    [episode_count |-> Len(rows),
     successes |-> Cardinality({k \in DOMAIN rows : rows[k].success}),
     learned_successes |-> Cardinality({k \in DOMAIN rows : rows[k].learned}),
     terminations |-> [x \in {r.reason : r \in Range(rows)} |->
                         Cardinality({k \in DOMAIN rows : rows[k].reason = x})]]

\* The files of a report that are there, what episodes.csv and metrics.json say, and
\* whether the removal of the directory has begun. A JSON file cut short is not there.
ReportFiles == {"run_manifest.json", "metrics.json", "episodes.csv", "report.md"}
NoOutput == [exists |-> FALSE, torn |-> FALSE, files |-> {}, rows |-> <<>>,
             metrics |-> aggregate_results(<<>>)]
Episodes == UNION {1 .. n : n \in EpisodeCounts}

Benchmark == setup.driver # "suite"

EvaluationInit ==
    /\ setup \in Invocations
    /\ Benchmark \/ setup.task = "single"
    /\ stage = "idle"
    /\ index = 1
    /\ ro = NewRollout(setup.horizon)
    /\ results = <<>>
    /\ disk = [e \in Episodes |-> NoDirectory]
    /\ output = NoOutput
    /\ invocations = 0

-----------------------------------------------------------------------------
(* The two mains up to their first episode. *)

\* The process is gone, and its memory with it.
Fail ==
    /\ stage' = "idle"
    /\ index' = 1 /\ ro' = NewRollout(setup.horizon) /\ results' = <<>>
    /\ UNCHANGED <<setup, disk, output, invocations>>

\* The script is started, again perhaps, with --overwrite or without.
Invoke ==
    /\ stage = "idle" /\ invocations < MaxInvocations
    /\ invocations' = invocations + 1
    /\ \E o \in BOOLEAN : setup' = [setup EXCEPT !.overwrite = o]
    /\ stage' = "begin"
    /\ UNCHANGED <<index, ro, results, disk, output>>

\* evaluate() refuses an output directory that is there, with anything in it or not.
Refused == stage = "begin" /\ Benchmark /\ output.exists /\ ~setup.overwrite /\ Fail

\* With --overwrite it removes the directory first.
StartClearing ==
    /\ stage = "begin" /\ Benchmark /\ output.exists /\ setup.overwrite
    /\ stage' = "clearing"
    /\ UNCHANGED <<setup, index, ro, results, disk, output, invocations>>

\* Mutant of Clear: only the episodes are removed.
ClearEpisodes ==
    /\ stage = "clearing"
    /\ \/ \E e \in Episodes :
             /\ disk[e].exists
             /\ disk' = [disk EXCEPT ![e] = Removed(@)]
             /\ UNCHANGED <<stage, output>>
       \/ /\ \A e \in Episodes : ~disk[e].exists
          /\ output' = [output EXCEPT !.exists = FALSE]
          /\ stage' = "begin"
          /\ UNCHANGED disk
    /\ UNCHANGED <<setup, index, ro, results, invocations>>

\* shutil.rmtree: one file of the report, or one more piece of an episode, in the order
\* the file system lists them, and the directory last.
Clear ==
    /\ stage = "clearing"
    /\ \/ /\ \E f \in output.files :
                output' = [output EXCEPT !.torn = TRUE, !.files = @ \ {f},
                              !.rows = IF f = "episodes.csv" THEN <<>> ELSE @]
          /\ UNCHANGED <<stage, disk>>
       \/ /\ \E e \in Episodes :
                disk[e].exists /\ disk' = [disk EXCEPT ![e] = Removed(@)]
          /\ output' = [output EXCEPT !.torn = TRUE]
          /\ UNCHANGED stage
       \/ /\ output.files = {} /\ \A e \in Episodes : ~disk[e].exists
          /\ output' = NoOutput
          /\ stage' = "begin"
          /\ UNCHANGED disk
    /\ UNCHANGED <<setup, index, ro, results, invocations>>

\* The output directory is made, and the manifest of the suite written into it.
Begin ==
    /\ stage = "begin" /\ (Benchmark => ~output.exists)
    /\ output' = [output EXCEPT !.exists = TRUE]
    /\ stage' = "build"
    /\ UNCHANGED <<setup, index, ro, results, disk, invocations>>

\* build_baseline knows the method; the suite can load the policy.
Built ==
    IF Benchmark THEN setup.driver # "external" ELSE load_lerobot_policy(setup.checkpoint)

Build ==
    /\ stage = "build" /\ Built
    /\ stage' = "episode"
    /\ UNCHANGED <<setup, index, ro, results, disk, output, invocations>>

\* The directory stays behind.
BuildFails == stage = "build" /\ ~Built /\ Fail

-----------------------------------------------------------------------------
(* An episode of the suite or of the ACT baseline. *)

\* What run() of a baseline refuses: two agents on the bridge, concurrency in
\* RRT, and the learned method altogether.
Supported ==
    CASE setup.driver \in {"act", "hold"} -> setup.task = "single"
      [] setup.driver = "rrt" -> setup.task # "concurrent"
      [] setup.driver = "learned_rrt_fallback" -> FALSE
      [] OTHER -> TRUE

Unsupported == stage = "episode" /\ index <= setup.episodes /\ ~Supported /\ Fail

\* EpisodeArtifactWriter refuses a directory that is there.
DirectoryTaken ==
    /\ stage = "episode" /\ index <= setup.episodes
    /\ setup.driver = "suite" /\ disk[index].exists /\ ~setup.overwrite
    /\ Fail

\* The ACT baseline loads the policy in its first episode.
PolicyMissing ==
    /\ stage = "episode" /\ index = 1 /\ setup.driver = "act" /\ Supported
    /\ ~load_lerobot_policy(setup.checkpoint)
    /\ Fail

\* With --overwrite it removes it first.
ReplaceDirectory ==
    /\ stage = "episode" /\ index <= setup.episodes
    /\ setup.driver = "suite" /\ disk[index].exists /\ setup.overwrite
    /\ disk' = [disk EXCEPT ![index] = Removed(@)]
    /\ UNCHANGED <<setup, stage, index, ro, results, output, invocations>>

OpenEpisode ==
    /\ stage = "episode" /\ index <= setup.episodes /\ Supported
    /\ ~disk[index].exists
    /\ setup.driver = "act" => load_lerobot_policy(setup.checkpoint)
    /\ disk' = [disk EXCEPT ![index] = NewDirectory]
    /\ ro' = NewRollout(setup.horizon)
    /\ stage' = "reset"
    /\ UNCHANGED <<setup, index, results, output, invocations>>

Rollout(p) == stage = p /\ setup.driver \in {"suite", "act"}

Reset ==
    /\ Rollout("reset")
    /\ \E reset \in ResetInfos : ro' = AfterReset(ro, reset)
    /\ stage' = "loop"
    /\ UNCHANGED <<setup, index, results, disk, output, invocations>>

\* env.reset raises in every driver; nothing catches it.
ResetRaises == stage = "reset" /\ Fail

Infer ==
    /\ Rollout("loop") /\ Running(ro) /\ ro.queue.items = <<>>
    /\ \E raw \in PolicyAnswers :
          IF LoadRaises(ro, setup.checkpoint, setup.instruction, raw)
            THEN Fail
            ELSE /\ ro' = AfterInference(ro, setup.checkpoint, setup.instruction, raw)
                 /\ UNCHANGED <<setup, stage, index, results, disk, output, invocations>>

\* env.step, which may raise. An interrupt can fall between this and what follows.
Step ==
    /\ Rollout("loop") /\ Running(ro) /\ ro.queue.items # <<>>
    /\ PopRefusal(Head(ro.queue.items).action) = "none"
    /\ \/ ro' = AfterBridgeError(ro) /\ UNCHANGED stage
       \/ /\ \E info \in StepInfos : ro' = AfterStep(ro, info)
          /\ stage' = "record"
    /\ UNCHANGED <<setup, index, results, disk, output, invocations>>

\* record_transition: list after list, then the event; append_chunk_trace. An interrupt
\* can fall between any two.
Record ==
    /\ \/ /\ stage = "record" /\ stage' = "append"
          /\ ro' = [ro EXCEPT !.states = @ + 1]
          /\ UNCHANGED disk
       \/ /\ stage = "append" /\ stage' = "log"
          /\ ro' = [ro EXCEPT !.buffered = @ + 1]
          /\ UNCHANGED disk
       \/ /\ stage = "log" /\ stage' = "trace"
          /\ disk' = [disk EXCEPT ![index].events = @ + 1]
          /\ UNCHANGED ro
       \/ /\ stage = "trace" /\ stage' = "judge"
          /\ disk' = [disk EXCEPT ![index].trace = Append(@, TraceRow(ro))]
          /\ UNCHANGED ro
    /\ UNCHANGED <<setup, index, results, output, invocations>>

Judge ==
    /\ stage = "judge"
    /\ ro' = AfterJudgement(ro, setup.limit)
    /\ stage' = "loop"
    /\ UNCHANGED <<setup, index, results, disk, output, invocations>>

Leave ==
    /\ Rollout("loop") /\ ~Running(ro)
    /\ ro' = Left(ro)
    /\ stage' = "finalize"
    /\ UNCHANGED <<setup, index, results, disk, output, invocations>>

Recording == {"record", "append", "log", "trace"}

\* KeyboardInterrupt anywhere between env.reset and the end of the loop.
Interrupt ==
    /\ \/ Rollout("reset") \/ Rollout("loop") \/ stage \in Recording \/ stage = "judge"
    /\ ro' = Interrupted(ro)
    /\ stage' = "finalize"
    /\ UNCHANGED <<setup, index, results, disk, output, invocations>>

\* Mutant of Finalize: result.json is written before the arrays.
FinalizeResultFirst ==
    /\ \/ /\ stage = "finalize" /\ stage' = "states"
          /\ disk' = [disk EXCEPT ![index].result = PolicyRolloutResult(ro)]
       \/ /\ stage = "states" /\ stage' = "result"
          /\ disk' = [disk EXCEPT ![index].arrays = ro.buffered]
       \/ /\ stage = "result" /\ stage' = "row"
          /\ disk' = [disk EXCEPT ![index].states = ro.states]
    /\ UNCHANGED <<setup, index, ro, results, output, invocations>>

\* finalize: actions.npz, states.npz, and result.json last.
Finalize ==
    /\ \/ /\ stage = "finalize" /\ stage' = "states"
          /\ disk' = [disk EXCEPT ![index].arrays = ro.buffered]
       \/ /\ stage = "states" /\ stage' = "result"
          /\ disk' = [disk EXCEPT ![index].states = ro.states]
       \/ /\ stage = "result" /\ stage' = "row"
          /\ disk' = [disk EXCEPT ![index].result = PolicyRolloutResult(ro)]
    /\ UNCHANGED <<setup, index, ro, results, output, invocations>>

-----------------------------------------------------------------------------
(* BridgeStepBaseline.run: hold or random actions, no policy, no trace. *)

Hold(p) == stage = p /\ setup.driver = "hold"

HoldReset ==
    /\ Hold("reset")
    /\ \E reset \in ResetInfos : ro' = AfterReset(ro, reset)
    /\ stage' = "loop"
    /\ UNCHANGED <<setup, index, results, disk, output, invocations>>

\* Here the task predicate is asked first.
HoldReason(info) ==
    IF info.is_success THEN "SUCCESS"
    ELSE IF info.unsafe_state THEN "UNSAFE_STATE"
    ELSE IF info.object_lost THEN "OBJECT_LOST"
    ELSE IF info.terminated THEN "TERMINATED"
    ELSE "MAX_STEPS"

HoldStops(info) == HoldReason(info) # "MAX_STEPS"

HoldStep ==
    /\ Hold("loop") /\ Running(ro)
    /\ \E info \in StepInfos :
          ro' = [ro EXCEPT !.info = [f \in DOMAIN NoInfo |-> info[f]],
                           !.steps = @ + 1,
                           !.collisions = @ + (IF info.collision THEN 1 ELSE 0),
                           !.success = HoldReason(info) = "SUCCESS",
                           !.terminated = HoldStops(info),
                           !.truncated = ~HoldStops(info) /\ info.truncated,
                           !.reason = HoldReason(info)]
    /\ disk' = [disk EXCEPT ![index].events = @ + 1]
    /\ UNCHANGED <<setup, stage, index, results, output, invocations>>

\* env.step raises: only env.close() stands between it and the caller.
HoldStepRaises == Hold("loop") /\ Running(ro) /\ Fail

HoldWrite ==
    /\ Hold("loop") /\ ~Running(ro)
    /\ disk' = [disk EXCEPT ![index].result = PolicyRolloutResult(ro)]
    /\ stage' = "row"
    /\ UNCHANGED <<setup, index, ro, results, output, invocations>>

-----------------------------------------------------------------------------
(* RRTBaseline.run: one plan, parsed, validated, perhaps retargeted, executed. *)

RRTReason(parsed, valid, retargeted, status, postcondition) ==
    IF ~parsed \/ ~valid THEN "INVALID_PLAN"
    ELSE IF ~retargeted THEN "INVALID_EXECUTION_PLAN"
    ELSE IF status # "SUCCESS" THEN status
    ELSE IF postcondition THEN "SUCCESS"
    ELSE "POSTCONDITION_FAILED"

\* The executor's success is not enough: the objects must be where they belong.
RRTEpisode ==
    /\ stage = "reset" /\ setup.driver = "rrt"
    /\ \E parsed, valid, retargeted, postcondition \in BOOLEAN,
          status \in {"SUCCESS", "EXECUTION_FAILED", "TIMEOUT"} :
          LET reason == RRTReason(parsed, valid, retargeted, status, postcondition) IN
          disk' = [disk EXCEPT ![index].result =
                     [PolicyRolloutResult(ro) EXCEPT !.reason = reason,
                          !.success = reason = "SUCCESS", !.evidence = postcondition]]
    /\ stage' = "row"
    /\ UNCHANGED <<setup, index, ro, results, output, invocations>>

-----------------------------------------------------------------------------
(* Rows and reports. *)

\* build_episode_suite and select_variations go round what they have.
VariationOf(e) == 1 + ((e - 1) % Variations)

\* _episode_result, or the suite's result as it stands.
Row(e, r) == [variation |-> VariationOf(e), reason |-> r.reason,
              success |-> r.success, steps |-> r.steps,
              learned |-> setup.driver \in {"suite", "act"} /\ r.success]

\* The evaluator writes benchmark_result.json, then both keep the row.
KeepRow ==
    /\ stage = "row"
    /\ disk' = IF Benchmark THEN [disk EXCEPT ![index].row = Row(index, disk[index].result)]
               ELSE disk
    /\ results' = Append(results, Row(index, disk[index].result))
    /\ index' = index + 1
    /\ ro' = NewRollout(setup.horizon)
    /\ stage' = "episode"
    /\ UNCHANGED <<setup, output, invocations>>

\* Nothing is reported before the last episode. Only the benchmark writes
\* run_manifest.json.
StartReport ==
    /\ stage = "episode" /\ index > setup.episodes
    /\ output' = IF Benchmark THEN [output EXCEPT !.files = @ \cup {"run_manifest.json"}]
                 ELSE output
    /\ stage' = "metrics"
    /\ UNCHANGED <<setup, index, ro, results, disk, invocations>>

WriteMetrics ==
    /\ stage = "metrics"
    /\ output' = [output EXCEPT !.files = @ \cup {"metrics.json"},
                                !.metrics = aggregate_results(results)]
    /\ stage' = "csv"
    /\ UNCHANGED <<setup, index, ro, results, disk, invocations>>

\* write_episodes_csv: open truncates, the rows follow one by one.
WriteRows ==
    /\ \/ /\ stage = "csv" /\ stage' = "rows"
          /\ output' = [output EXCEPT !.files = @ \cup {"episodes.csv"}, !.rows = <<>>]
       \/ /\ stage = "rows" /\ Len(output.rows) < Len(results)
          /\ output' = [output EXCEPT !.rows = Append(@, results[Len(@) + 1])]
          /\ UNCHANGED stage
    /\ UNCHANGED <<setup, index, ro, results, disk, invocations>>

WriteMarkdown ==
    /\ stage = "rows" /\ Len(output.rows) = Len(results)
    /\ output' = [output EXCEPT !.files = @ \cup {"report.md"}]
    /\ stage' = "idle"
    /\ index' = 1 /\ ro' = NewRollout(setup.horizon) /\ results' = <<>>
    /\ UNCHANGED <<setup, disk, invocations>>

\* The process is killed.
Crash == stage # "idle" /\ Fail

EvaluationNext ==
    \/ Invoke \/ Refused \/ StartClearing \/ Clear \/ Begin \/ Build \/ BuildFails
    \/ Unsupported \/ DirectoryTaken \/ ReplaceDirectory \/ PolicyMissing \/ OpenEpisode
    \/ Reset \/ ResetRaises \/ Infer \/ Step \/ Record \/ Judge
    \/ Leave \/ Interrupt \/ Finalize
    \/ HoldReset \/ HoldStep \/ HoldStepRaises \/ HoldWrite \/ RRTEpisode
    \/ KeepRow \/ StartReport \/ WriteMetrics \/ WriteRows \/ WriteMarkdown \/ Crash

EvaluationSpec == EvaluationInit /\ [][EvaluationNext]_evaluationVars

-----------------------------------------------------------------------------
(* Properties. *)

RolledOut == setup.driver \in {"suite", "act"}

\* Whoever reports SUCCESS rests on the task predicate at the end; and the last
\* observation of a policy's rollout then shows no reason to stop that
\* outranks it (rollout.py:311): an unsafe state, a lost object or one collision
\* too many. Only an interrupt can leave success with another reason.
SuccessIsClean ==
    \A e \in Episodes :
       LET r == disk[e].result IN
       r.reason # "none" =>
          /\ r.success => r.evidence /\ r.reason \in {"SUCCESS", "MANUAL_INTERRUPT"}
          /\ r.reason = "SUCCESS" => r.success
          /\ RolledOut /\ stage = "row" /\ e = index /\ r.success /\ r.steps > 0 =>
                /\ ~ro.info.unsafe_state /\ ~ro.info.object_lost
                /\ setup.limit # NoLimit => ro.collisions < setup.limit

\* What an episode leaves of its steps: every row of the chunk trace comes from the
\* horizon of a chunk, in order, chunk after chunk without a gap; and once result.json is
\* there, the steps it counts, the states, the actions, the logged events and the trace
\* are equally many. Only an interrupt leaves them apart, by the one step it fell into,
\* those written first being ahead (run_policy_rollout, record_transition, finalize).
\* What is popped needs no second refusal: it was validated with its chunk.
TraceIsComplete ==
    /\ stage = "loop" /\ ro.queue.items # <<>> =>
          PopRefusal(Head(ro.queue.items).action) = "none"
    /\ \A e \in Episodes :
          LET d == disk[e] IN
          /\ \A k \in DOMAIN d.trace :
                d.trace[k] = <<(k - 1) \div setup.horizon, (k - 1) % setup.horizon>>
          /\ d.result.reason # "none" /\ RolledOut =>
                /\ d.result.steps >= d.states /\ d.states >= d.arrays
                /\ d.arrays >= d.events /\ d.events >= Len(d.trace)
                /\ d.result.steps <=
                     Len(d.trace) + (IF d.result.reason = "MANUAL_INTERRUPT" THEN 1 ELSE 0)

\* A benchmark report stands for the episodes beside it, wherever a run was killed
\* (evaluator.py, evaluate; report.py, write_run_outputs). Each row of episodes.csv, cut
\* short or not, is the outcome of the episode with its number if that is still there
\* whole. And but for a directory that --overwrite was removing when it was killed: with
\* the first file of a report there is a directory for every episode asked for and no
\* other; metrics.json counts the successes and the reasons that they show; and report.md
\* comes last, with all the others there in full.
ReportsMatchEpisodes ==
    Benchmark =>
        /\ \A e \in DOMAIN output.rows :
              disk[e].exists /\ ~disk[e].torn => disk[e].row = output.rows[e]
        /\ ~output.torn =>
              /\ output.files # {} =>
                    \A e \in Episodes :
                       /\ disk[e].exists <=> e \in 1 .. setup.episodes
                       /\ ~disk[e].torn
              /\ "metrics.json" \in output.files =>
                    /\ output.metrics.successes =
                         Cardinality({e \in 1 .. setup.episodes : disk[e].result.success})
                    /\ output.metrics.terminations =
                         [x \in {disk[e].result.reason : e \in 1 .. setup.episodes} |->
                            Cardinality({e \in 1 .. setup.episodes :
                                           disk[e].result.reason = x})]
              /\ "report.md" \in output.files =>
                    output.files = ReportFiles /\ DOMAIN output.rows = 1 .. setup.episodes
=============================================================================
