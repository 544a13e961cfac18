--------------------------- MODULE MetaWorldRunner ---------------------------
(***************************************************************************)
(* run_metaworld_dialog.py: main() runs every episode of every task with a *)
(* helper process of its own, run_episode() observes, decides, steps and   *)
(* records.                                                                *)
(***************************************************************************)
EXTENDS MetaWorldBridge, SequencesExt, Integers

CONSTANTS
    Invocations,    \* what main() may be called with
    Groups,         \* DIFFICULTY_TO_TASKS
    KnownTasks,     \* TASK_ORDER
    MaxSteps,       \* --max_steps
    NumReplans,     \* --num_replans
    MaxInterrupts   \* bound on the number of times the user presses Ctrl-C

ASSUME RunnerAssumption ==
    /\ MaxSteps \in Nat /\ NumReplans \in Nat /\ MaxInterrupts \in Nat
    /\ \A a \in Invocations : a.episodes \in Nat

VARIABLES
    at,         \* where main() or run_episode() is
    args,       \* what this run was started with
    tasks,      \* resolve_task_spec(args.task)
    local,      \* the locals of run_episode
    raised,     \* an exception is on its way out
    interrupts,
    results,    \* task_successes of the tasks begun, in their order
    spawned,    \* how many helper processes were started
    files,      \* lerobot_steps.jsonl of every episode
    summary     \* summary.json

runnerVars ==
    <<at, args, tasks, local, raised, interrupts, results, spawned, files, summary>>
runVars == <<bridgeVars, runnerVars>>

Modes == {"expert", "manual", "llm"}
Invocation(spec, episodes, mode, images) ==
    [spec |-> spec, episodes |-> episodes, mode |-> mode, images |-> images]

\* The tasks the tokens of a specification name, groups expanded.
Mentions(spec) ==
    FlattenSeq([i \in DOMAIN spec |->
                  IF spec[i] \in DOMAIN Groups THEN Groups[spec[i]] ELSE <<spec[i]>>])

\* Mutant of Resolved: a task named twice is resolved twice.
ResolvedTwice(spec) == {Mentions(spec)}

\* resolve_task_spec may return: every task once, in the order of their first mentions.
Resolved(spec) ==
    LET mentions == Mentions(spec)
        First(task) == Min({i \in DOMAIN mentions : mentions[i] = task})
    IN  {found \in BoundedSeq(Range(mentions), Len(mentions)) :
            /\ IsInjective(found) /\ Range(found) = Range(mentions)
            /\ \A i, j \in DOMAIN found : i < j => First(found[i]) < First(found[j])}

\* The text between the brackets after ACTION, and whether EXECUTE was there.
Responses == [execute : BOOLEAN,
              values : {"missing", "three values", "words", "in range", "out of range", "nan"}]

\* np.clip takes everything into [-1, 1] but NaN, which it keeps.
Parse(response) ==
    IF ~response.execute \/ response.values \in {"missing", "three values", "words"}
      THEN [ok |-> FALSE, action |-> "none"]
    ELSE [ok |-> TRUE, action |-> IF response.values = "nan" THEN "nan" ELSE "in range"]

\* The feedback is about the step of this number, or about an invalid response.
Invalid == 0 - 1

NoLocal == [snapshot |-> NotReset, feedback |-> 0, told |-> 0, queries |-> 0,
            action |-> "none", outcome |-> NotReset, index |-> 0, success |-> FALSE]

\* The episode run_episode is in: its task, and its number among the task's.
Task == tasks[Len(results)]
Episode == <<Task, Len(results[Len(results)]) + 1>>
Keys == KnownTasks \X UNION {1 .. a.episodes : a \in Invocations}

\* A line an earlier run with the same run_name left.
EarlierRecord == [index |-> 0, observed |-> NotReset, told |-> 0, action |-> "none",
                  outcome |-> NotReset]

\* summary.json: whose it is, or that it is cut short, and the episodes' results by task.
NoSummary(by) == [by |-> by, rows |-> <<>>]

RunnerInit ==
    /\ BridgeInit
    /\ at = "start" /\ args \in Invocations
    /\ tasks = <<>> /\ local = NoLocal /\ raised = FALSE /\ interrupts = 0
    /\ results = <<>> /\ spawned = 0
    /\ \/ files = [k \in Keys |-> <<>>] /\ summary = NoSummary("none")
       \/ files = [k \in Keys |-> <<EarlierRecord>>] /\ summary = NoSummary("earlier")

-----------------------------------------------------------------------------
(* main().                                                                 *)

\* The next episode of the task, the next task, or the summary.
NextEpisode(done) ==
    LET finished == done = <<>> \/ Len(done[Len(done)]) >= args.episodes IN
    IF args.episodes = 0 THEN at' = "summary" /\ results' = [i \in DOMAIN tasks' |-> <<>>]
    ELSE IF ~finished THEN at' = "spawn" /\ results' = done
    ELSE IF Len(done) < Len(tasks') THEN at' = "spawn" /\ results' = Append(done, <<>>)
    ELSE at' = "summary" /\ results' = done

Begin ==
    /\ at = "start"
    /\ \E found \in Resolved(args.spec) :
         IF found = <<>> \/ \E i \in DOMAIN found : found[i] \notin KnownTasks
           THEN at' = "over" /\ raised' = TRUE /\ UNCHANGED <<tasks, results>>
           ELSE tasks' = found /\ NextEpisode(<<>>) /\ UNCHANGED raised
    /\ UNCHANGED <<bridgeVars, args, local, interrupts, spawned, files, summary>>

\* open("w") empties what an earlier run left, json.dump fills it.
WriteSummary ==
    /\ \/ at = "summary" /\ at' = "dump" /\ summary' = NoSummary("cut short")
       \/ /\ at = "dump" /\ at' = "over"
          /\ summary' = [by |-> "this run",
                         rows |-> [t \in Range(tasks) |->
                                     results[Max({i \in DOMAIN tasks : tasks[i] = t})]]]
    /\ UNCHANGED <<bridgeVars, args, tasks, local, raised, interrupts, results, spawned, files>>

-----------------------------------------------------------------------------
(* run_episode().                                                          *)

SpawnHelper ==
    /\ at = "spawn" /\ Spawn
    /\ at' = "ready" /\ spawned' = spawned + 1 /\ local' = NoLocal
    /\ UNCHANGED <<args, tasks, raised, interrupts, results, files, summary>>

\* An exception in the constructor leaves before the with block is entered.
AwaitReady ==
    /\ at = "ready"
    /\ \/ Receive /\ Head(replies).ok /\ at' = "reset" /\ UNCHANGED raised
       \/ Receive /\ ~Head(replies).ok /\ at' = "over" /\ raised' = TRUE
       \/ NoReply /\ EndOfFile /\ at' = "over" /\ raised' = TRUE
    /\ UNCHANGED <<args, tasks, local, interrupts, results, spawned, files, summary>>

\* The request that each part of run_episode makes.
Command == [reset |-> "reset", frame |-> "save_frame", act |-> "expert_action",
            step |-> "step"]

Raise ==
    /\ at' = "leave" /\ raised' = TRUE
    /\ UNCHANGED <<args, tasks, local, interrupts, results, spawned, files, summary>>

Request ==
    /\ at \in DOMAIN Command /\ asked = "none"
    /\ at = "act" => args.mode = "expert"
    /\ \/ Send(Command[at]) /\ UNCHANGED runnerVars
       \/ IsGone /\ EndOfFile /\ Raise

RequestFails ==
    /\ at \in DOMAIN Command /\ asked # "none"
    /\ \/ Receive /\ ~Head(replies).ok
       \/ NoReply /\ EndOfFile
    /\ Raise

Answered(place) == at = place /\ asked # "none" /\ Receive /\ Head(replies).ok
Data == Head(replies).data

\* The head of the for loop.
Turn(index) ==
    at' = IF index >= MaxSteps THEN "leave" ELSE IF args.images THEN "frame" ELSE "act"

\* open(jsonl_path, "w")
Opened == files' = [files EXCEPT ![Episode] = <<>>]

ResetAnswered ==
    /\ Answered("reset")
    /\ local' = [local EXCEPT !.snapshot = Data]
    /\ Opened /\ Turn(0)
    /\ UNCHANGED <<args, tasks, raised, interrupts, results, spawned, summary>>

FrameAnswered ==
    /\ Answered("frame")
    /\ at' = "act"
    /\ UNCHANGED <<args, tasks, local, raised, interrupts, results, spawned, files, summary>>

Decided(action) ==
    /\ at' = "step"
    /\ local' = [local EXCEPT !.action = action, !.told = 0, !.queries = 0]
    /\ UNCHANGED <<args, tasks, raised, interrupts, results, spawned, files, summary>>

\* The scripted policy's action is not clipped.
ExpertAnswered == Answered("act") /\ \E a \in {"in range", "out of range"} : Decided(a)

Manual ==
    /\ at = "act" /\ args.mode = "manual" /\ EndOfFile
    /\ \E r \in Responses : IF Parse(r).ok THEN Decided(Parse(r).action) ELSE Raise

\* What [Feedback] in the prompt is about.
Told == IF local.queries = 0 THEN local.feedback ELSE local.told

\* _query_llm: a response that does not parse replaces the feedback of the next prompt.
Query ==
    /\ at = "act" /\ args.mode = "llm" /\ EndOfFile
    /\ IF local.queries >= NumReplans THEN Raise
       ELSE \E r \in Responses :
              IF Parse(r).ok
                THEN /\ at' = "step"
                     /\ local' = [local EXCEPT !.action = Parse(r).action, !.queries = 0,
                                                !.told = Told]
                     /\ UNCHANGED <<raised>>
                ELSE /\ local' = [local EXCEPT !.queries = @ + 1, !.told = Invalid]
                     /\ UNCHANGED <<at, raised>>
    /\ UNCHANGED <<args, tasks, interrupts, results, spawned, files, summary>>

QueryFails == at = "act" /\ args.mode = "llm" /\ EndOfFile /\ Raise

StepAnswered ==
    /\ Answered("step")
    /\ at' = "write"
    /\ local' = [local EXCEPT !.outcome = Data, !.feedback = Data.step]
    /\ UNCHANGED <<args, tasks, raised, interrupts, results, spawned, files, summary>>

\* Mutant of Advance: the snapshot stays that of the reset.
AdvanceOnOldSnapshot == local' = [local EXCEPT !.index = @ + 1, !.outcome = NotReset]

\* snapshot = outcome, and the next iteration
Advance == local' = [local EXCEPT !.index = @ + 1, !.snapshot = local.outcome,
                                  !.outcome = NotReset]

StepRecord == [index |-> local.index, observed |-> local.snapshot, told |-> local.told,
               action |-> local.action, outcome |-> local.outcome]

Write ==
    /\ at = "write"
    /\ files' = [files EXCEPT ![Episode] = Append(@, StepRecord)]
    /\ IF local.outcome.status # "none"
         THEN at' = "leave" /\ local' = [local EXCEPT !.success = @ \/ local.outcome.status = "success"]
         ELSE Advance /\ Turn(local.index + 1)
    /\ EndOfFile
    /\ UNCHANGED <<args, tasks, raised, interrupts, results, spawned, summary>>

-----------------------------------------------------------------------------
(* __exit__ and close().                                                   *)

CloseAsks == at = "leave" /\ asked = "none" /\ Send("close") /\ UNCHANGED runnerVars

\* The with block is left: the exception goes on, or the result is returned.
Left ==
    /\ local' = NoLocal
    /\ UNCHANGED <<args, tasks, raised, interrupts, spawned, files, summary>>
    /\ IF raised
         THEN at' = "over" /\ UNCHANGED results
         ELSE NextEpisode([results EXCEPT ![Len(results)] = Append(@, local.success)])

\* Whatever the reply is, and whether there is one, the process is terminated.
Close ==
    /\ at = "leave"
    /\ \/ asked = "none" /\ IsGone
       \/ asked = "close" /\ (replies # <<>> \/ NoReply)
    /\ Terminate /\ Left

-----------------------------------------------------------------------------

\* KeyboardInterrupt: except Exception does not catch it, with and finally do.
Interrupt ==
    /\ at # "over" /\ interrupts < MaxInterrupts
    /\ interrupts' = interrupts + 1 /\ raised' = TRUE
    /\ CASE at \in {"start", "spawn", "ready", "summary", "dump"} -> at' = "over" /\ EndOfFile
         [] at = "leave" -> at' = "over" /\ Terminate
         [] OTHER -> at' = "leave" /\ EndOfFile
    /\ UNCHANGED <<args, tasks, local, results, spawned, files, summary>>

Runner ==
    \/ Begin \/ WriteSummary \/ SpawnHelper \/ AwaitReady \/ Request \/ RequestFails
    \/ ResetAnswered \/ FrameAnswered \/ ExpertAnswered \/ Manual \/ Query \/ QueryFails
    \/ StepAnswered \/ Write \/ CloseAsks \/ Close

Helper ==
    /\ \/ at # "over" /\ (Start \/ Take \/ Work)
       \/ at = "over" /\ Orphaned
    /\ UNCHANGED runnerVars

Fault == (Chatter \/ Crash) /\ UNCHANGED runnerVars

RunnerNext == Runner \/ Helper \/ Fault \/ Interrupt

\* The runner and the helper are processes the operating system schedules.
RunnerSpec == RunnerInit /\ [][RunnerNext]_runVars /\ WF_runVars(Runner) /\ WF_runVars(Helper)

-----------------------------------------------------------------------------
(* Properties.                                                             *)

\* What the lines of one episode are, seen from its own helper: each observes what the
\* step before it came to, was decided on a prompt whose feedback is about that same step,
\* and only the last one ends the episode.
OneEpisode(lines) ==
    \A i \in DOMAIN lines :
        LET r == lines[i] IN
        /\ r.index = i - 1 /\ r.observed.step = i - 1 /\ r.outcome.step = i
        /\ r.told \in {i - 1, Invalid} \/ (r.told = 0 /\ args.mode # "llm")
        /\ r.outcome.status # "none" => i = Len(lines)

\* The lines of an episode this run has opened are one episode
\* (run_metaworld_dialog.py, the for loop of run_episode; bridge_client.py, replies
\* without identifiers).
RecordsAreTheEpisode ==
    \A k \in Keys : EarlierRecord \in Range(files[k]) \/ OneEpisode(files[k])

\* A success is the one that this run's last line of the episode tells of.
TrueTo(lines, success) ==
    /\ EarlierRecord \notin Range(lines)
    /\ success = (lines # <<>> /\ lines[Len(lines)].outcome.status = "success")

\* A whole summary of this run's covers every task asked for, each episode having run once,
\* and says success exactly where the last line of the episode does (main(),
\* resolve_task_spec).
SummaryIsTheWholeRun ==
    summary.by = "this run" =>
        /\ ~raised
        /\ DOMAIN summary.rows = Range(tasks)
        /\ spawned = args.episodes * Cardinality(Range(tasks))
        /\ \A t \in Range(tasks) :
             /\ Len(summary.rows[t]) = args.episodes
             /\ \A e \in 1 .. args.episodes : TrueTo(files[<<t, e>>], summary.rows[t][e])

\* The run ends and no helper process outlives it, unless a helper has filled the pipe
\* that nobody reads: then the runner waits for a reply for ever (bridge_client.py, no
\* timeout in _request, terminate in close).
RunEnds == <>(helper.at = "stuck") \/ <>(at = "over" /\ IsGone)
=============================================================================
