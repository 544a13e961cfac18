--------------------------- MODULE DialogPrompter ---------------------------
(***************************************************************************)
(* prompt_one_round() of the two prompters: up to num_replans rounds, each *)
(* a dialog of the agents (or one call of a planner) that ends in a        *)
(* response, which is parsed, and whose plans are checked one by one.      *)
(* The language model answers anything; a response is what parsing and     *)
(* checking make of it.                                                    *)
(***************************************************************************)
EXTENDS Naturals, Sequences

CONSTANTS
    AgentOrder,           \* the agents in the order they talk
    MaxCalls,             \* max_calls_per_round
    NumReplans,           \* num_replans
    MaxPlans              \* bound: path plans one response compiles to

ASSUME PrompterAssumption ==
    /\ Len(AgentOrder) \in Nat \ {0} /\ MaxCalls \in Nat \ {0}
    /\ NumReplans \in Nat \ {0} /\ MaxPlans \in Nat \ {0}

VARIABLES
    replan_idx,           \* the replan round
    n_calls,              \* calls of the language model in its dialog
    turn,                 \* the position in AgentOrder of the agent to speak
    spoken,               \* the agents with num_responses > 0
    executes              \* the last response contains EXECUTE

round_vars == <<replan_idx, n_calls, turn, spoken, executes>>

Agents == {AgentOrder[k] : k \in 1..Len(AgentOrder)}

NewDialog == n_calls' = 0 /\ turn' = 1 /\ spoken' = {} /\ executes' = FALSE

NewRound == replan_idx' = 0 /\ NewDialog

PrompterInit ==
    /\ replan_idx = 0 /\ n_calls = 0 /\ turn = 1 /\ spoken = {} /\ executes = FALSE

\* Mutant of Agreed: the first EXECUTE ends the dialog.
AgreedAtOnce == executes'

\* The agent who has just spoken ends the dialog.
Agreed == executes' /\ (replan_idx > 0 \/ spoken' = Agents)

\* The limit is looked at when all the agents have had their turn.
OutOfCalls == turn = Len(AgentOrder) /\ n_calls' >= MaxCalls

\* A model answers anything; in debug mode a person types EXECUTE and an action
\* for every agent.
Answers(debug_mode) == executes' \in BOOLEAN /\ (debug_mode => executes')

\* One call of prompt_one_dialog_round().
Speak(debug_mode) ==
    /\ n_calls' = n_calls + 1
    /\ spoken' = spoken \cup {AgentOrder[turn]}
    /\ Answers(debug_mode)
    /\ turn' = (turn % Len(AgentOrder)) + 1
    /\ UNCHANGED replan_idx

\* The single call of SingleThreadPrompter.
SpeakAlone(debug_mode) ==
    /\ n_calls' = 1 /\ Answers(debug_mode)
    /\ UNCHANGED <<replan_idx, turn, spoken>>

\* A call is the last of its dialog; in debug mode the first one is.
DialogEnds(debug_mode) == Agreed \/ debug_mode \/ OutOfCalls

\* The rounds are used up.
LastReplan == replan_idx + 1 = NumReplans

NextReplan == replan_idx' = replan_idx + 1 /\ NewDialog
=============================================================================
