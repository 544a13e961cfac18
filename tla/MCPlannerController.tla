------------------------ MODULE MCPlannerController ------------------------
(***************************************************************************)
(* Small instances of the planner controller.                              *)
(***************************************************************************)
EXTENDS PlannerController, TLC

\* One call of Alice's, learned with an RRT fallback, and one of Bob's, RRT
\* only: the two routes of configs/planning/pack_learned_sequential.yaml.
MCCalls == {"alice_apple", "bob_milk"}
MCAgentOf == [c \in MCCalls |-> IF c = "alice_apple" THEN "Alice" ELSE "Bob"]
MCSkillOf == [c \in MCCalls |-> "PUT_OBJECT_IN_CONTAINER"]

Route(agent, primary, fallback) ==
    [agent |-> agent, skill |-> "PUT_OBJECT_IN_CONTAINER", primary |-> primary,
     fallback |-> fallback, enabled |-> TRUE]

MCRoutes == <<Route("Alice", "learned", "rrt"), Route("Bob", "rrt", "unsupported")>>

MCBackends == {"learned", "rrt"}

\* One code per recovery action the table maps to, and one it does not know.
MCFailureCodes ==
    [b \in MCBackends |->
        IF b = "learned"
          THEN {"MISSED_GRASP", "SLIPPAGE", "OBJECT_LOST", "TIMEOUT"}
          ELSE {"MOTION_PLANNING_FAILED", "TIMEOUT", "EXECUTION_FAILED"}]

MCCodes == (UNION {MCFailureCodes[b] : b \in MCBackends}) \cup {"INVALID_PLAN"}

MCStates == {"s0", "s1"}
=============================================================================
