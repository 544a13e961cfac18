------------------------- MODULE SequentialExecutor -------------------------
(***************************************************************************)
(* SequentialMultiAgentExecutor.execute: the calls of a schedule, one      *)
(* agent after the other, each through that agent's own skill executor     *)
(* while the others WAIT.  The first failure ends it.                      *)
(***************************************************************************)
EXTENDS Naturals, SequencesExt

CONSTANTS
    Executors,            \* the agents with a skill executor
    MaxSkillSteps         \* bound: simulator steps of one skill execution

VARIABLES
    seq_pc,               \* "idle" or "calling"
    queue,                \* the agents whose calls are still to be executed
    outcomes,             \* agent -> success of its call, so far
    makespan,             \* makespan_steps = summed_agent_steps
    seq_result            \* central_status of the last execution

seq_vars == <<seq_pc, queue, outcomes, makespan, seq_result>>

SeqInit ==
    /\ seq_pc = "idle" /\ queue = << >> /\ outcomes = << >>
    /\ makespan = 0 /\ seq_result = "none"

SeqReturns(status) == seq_pc' = "idle" /\ queue' = << >> /\ seq_result' = status

\* Any schedule that is not rejected is executed, a concurrent one too.
SeqExecute(schedule) ==
    /\ seq_pc = "idle"
    /\ outcomes' = << >> /\ makespan' = 0
    /\ IF schedule.mode = "reject" THEN SeqReturns("REJECTED")
       ELSE /\ seq_pc' = "calling"
            /\ queue' = FlattenSeq(schedule.groups)
            /\ UNCHANGED seq_result

SeqNoExecutor ==
    /\ seq_pc = "calling" /\ queue # << >> /\ Head(queue) \notin Executors
    /\ outcomes' = (Head(queue) :> FALSE) @@ outcomes
    /\ SeqReturns("FAILED")
    /\ UNCHANGED makespan

\* One skill execution of so many simulator steps.
SeqCall(steps) ==
    /\ seq_pc = "calling" /\ queue # << >> /\ Head(queue) \in Executors
    /\ makespan' = makespan + steps
    /\ \E success \in BOOLEAN :
          /\ outcomes' = (Head(queue) :> success) @@ outcomes
          /\ IF success THEN queue' = Tail(queue) /\ UNCHANGED <<seq_pc, seq_result>>
             ELSE SeqReturns("FAILED")

\* An exception of the skill executor leaves execute().
SeqRaises ==
    /\ seq_pc = "calling" /\ queue # << >> /\ Head(queue) \in Executors
    /\ SeqReturns("raised")
    /\ UNCHANGED <<outcomes, makespan>>

SeqSucceeds ==
    /\ seq_pc = "calling" /\ queue = << >>
    /\ SeqReturns("SUCCEEDED")
    /\ UNCHANGED <<outcomes, makespan>>
=============================================================================
