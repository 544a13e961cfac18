--------------------------- MODULE MCEvaluationRun ---------------------------
(***************************************************************************)
(* Instances of EvaluationRun: chunks of two actions executed whole or by  *)
(* halves, episodes of up to two steps, suites of two episodes.            *)
(***************************************************************************)
EXTENDS EvaluationRun

GoodCheckpoint ==
    [found |-> TRUE, inspected |-> TRUE, built |-> TRUE, act |-> TRUE,
     ensemble |-> FALSE, wants_instruction |-> TRUE]
MCCheckpoints == {GoodCheckpoint, [GoodCheckpoint EXCEPT !.ensemble = TRUE]}

GoodObs == [keys |-> TRUE, state |-> "match", images |-> "match"]
BadObs == [GoodObs EXCEPT !.images = "missing"]

MCResetInfos ==
    {[is_success |-> FALSE, obs |-> GoodObs], [is_success |-> FALSE, obs |-> BadObs],
     [is_success |-> TRUE, obs |-> GoodObs]}
Quiet == [is_success |-> FALSE, unsafe_state |-> FALSE, object_lost |-> FALSE,
          collision |-> FALSE, terminated |-> FALSE, truncated |-> FALSE,
          state |-> 0, obs |-> GoodObs]
MCStepInfos ==
    {Quiet, [Quiet EXCEPT !.state = 1, !.collision = TRUE],
     [Quiet EXCEPT !.truncated = TRUE],
     [Quiet EXCEPT !.is_success = TRUE, !.collision = TRUE],
     [Quiet EXCEPT !.is_success = TRUE, !.unsafe_state = TRUE]}

Chunk(batch, rows) == [batch |-> batch, rows |-> rows, dim_ok |-> TRUE]
MCPolicyAnswers ==
    {Chunk(1, <<"a", "b">>), Chunk(2, <<"a", "a">>), Chunk(1, <<"a", "out">>),
     Chunk(1, <<"nan", "a">>), Chunk(1, <<"a">>)}

\* Every driver with what makes a difference to it; the suite, which starts again on top
\* of what is there, with one episode.
ACT == [driver |-> "act", task |-> "single", checkpoint |-> GoodCheckpoint, horizon |-> 1,
        limit |-> 2, instruction |-> TRUE, episodes |-> 2, overwrite |-> FALSE]
Policies ==
    {ACT, [ACT EXCEPT !.horizon = 2], [ACT EXCEPT !.limit = NoLimit],
     [ACT EXCEPT !.instruction = FALSE], [ACT EXCEPT !.checkpoint.ensemble = TRUE]}
MCInvocations ==
    Policies \cup {[v EXCEPT !.driver = "suite", !.episodes = 1] : v \in Policies}
    \cup {[ACT EXCEPT !.driver = d] : d \in Drivers \ {"suite"}}
    \cup {[ACT EXCEPT !.driver = d, !.task = "concurrent"] : d \in {"act", "hold", "rrt"}}
=============================================================================
