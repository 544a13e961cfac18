----------------------------- MODULE ActionChunks -----------------------------
(***************************************************************************)
(* What stands between a policy and the simulator in a direct rollout: the *)
(* observation adapter, inference, the validation of a native chunk and    *)
(* the queue that executes a horizon of it.  An action is a class: "a" and *)
(* "b" are inside the bounds, "out" and "nan" are not.                     *)
(***************************************************************************)
EXTENDS Integers, Sequences, SequencesExt, FiniteSets

CONSTANT ChunkSize      \* chunk_size of the checkpoint

ASSUME ChunkSizeAssumption == ChunkSize \in Nat \ {0}

Actions == {"a", "b", "out", "nan"}

\* A checkpoint: the gates of load_lerobot_policy, and what its features ask for.
Checkpoints ==
    [found : BOOLEAN, inspected : BOOLEAN, built : BOOLEAN, act : BOOLEAN,
     ensemble : BOOLEAN, wants_instruction : BOOLEAN]

load_lerobot_policy(c) ==
    c.found /\ c.inspected /\ c.built /\ c.act /\ ~c.ensemble

\* A raw observation: its two keys, agent_pos, and the camera images against the
\* shapes the policy declares.
RawObservations ==
    [keys : BOOLEAN, state : {"match", "shape", "nan"},
     images : {"match", "missing", "not_rgb", "not_uint8", "shape"}]

\* to_policy_inputs returns, and does not raise ProcessorContractError.
to_policy_inputs(checkpoint, instruction, obs) ==
    /\ obs.keys
    /\ obs.state = "match"
    /\ obs.images = "match"
    /\ checkpoint.wants_instruction => instruction

\* What the processors and the network return: the batch dimension (0: none),
\* the rows, and whether a row is as long as the action.
RawChunks == [batch : Nat, rows : Seq(Actions), dim_ok : BOOLEAN]

\* predict_native_chunk returns, and does not raise PolicyInferenceError.
Predicted(raw) == raw.batch \in {0, 1}

validate_native_action_chunk(rows, dim_ok) ==
    LET finite == "nan" \notin {rows[k] : k \in DOMAIN rows} IN
    [finite |-> finite, shape_ok |-> dim_ok,
     violation_count |-> IF finite /\ dim_ok
                           THEN Cardinality({k \in DOMAIN rows : rows[k] = "out"}) ELSE 0]

-----------------------------------------------------------------------------
(* ACTActionQueue. *)

NewQueue(horizon) == [horizon |-> horizon, items |-> <<>>, next_chunk_id |-> 0]

Cleared(q) == [q EXCEPT !.items = <<>>]

\* load_chunk returns; the validation before it has seen that rows are finite.
Loadable(q, rows) == Len(rows) >= q.horizon /\ Len(rows) = ChunkSize

Item(id, rows, offset) == [action |-> rows[offset + 1], chunk_id |-> id, offset |-> offset]

\* Mutant of Loaded: the queue is not shortened to the horizon.
LoadedWhole(q, rows) ==
    [q EXCEPT !.items = [k \in 1 .. Len(rows) |-> Item(q.next_chunk_id, rows, k - 1)],
              !.next_chunk_id = @ + 1]

Loaded(q, rows) ==
    [q EXCEPT !.items = [k \in 1 .. q.horizon |-> Item(q.next_chunk_id, rows, k - 1)],
              !.next_chunk_id = @ + 1]

Popped(q) == [q EXCEPT !.items = Tail(@)]

-----------------------------------------------------------------------------
(* NoProgressMonitor of the rollout, over <<state, action>> pairs. *)

NewMonitor == [seen |-> <<>>, stalled |-> 0]

\* observe, for a step that did not succeed.
Observe(m, window, pair) ==
    LET seen == m.seen \o <<pair>>
        kept == SubSeq(seen, Len(seen) - window + 1, Len(seen))
    IN  IF Len(seen) < window THEN [m EXCEPT !.seen = seen]
        ELSE [seen |-> kept,
              stalled |-> IF \A k \in 1 .. window : kept[k] = kept[1]
                            THEN m.stalled + 1 ELSE 0]
=============================================================================
