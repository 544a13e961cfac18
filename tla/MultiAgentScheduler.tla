------------------------ MODULE MultiAgentScheduler ------------------------
(***************************************************************************)
(* Admission of a joint plan: what each skill call claims (its robot, its  *)
(* object, its target, the zones its arm crosses), which claims conflict,  *)
(* and whether the plan runs concurrently, one agent at a time or not at   *)
(* all.  Everything here is a function of the plan and of the              *)
(* configuration; a plan gives one call to each agent.                     *)
(***************************************************************************)
EXTENDS Naturals, FiniteSets, SequencesExt

CONSTANTS
    AgentOrder            \* agent_order: the agents, in scheduling order

ASSUME OrderAssumption ==
    /\ AgentOrder \in Seq(STRING)
    /\ IsInjective(AgentOrder)

Agents == {AgentOrder[i] : i \in DOMAIN AgentOrder}

\* The skills of pack_grocery.py, and any other name a plan may hold.
Put == "PUT_OBJECT_IN_CONTAINER"
Wait == "WAIT"

-----------------------------------------------------------------------------
\* Workspace zones: the static defaults of WorkspaceMapper.

RobotZone(agent) ==
    CASE agent = "Alice" -> "left"
      [] agent = "Bob"   -> "right"
      [] OTHER           -> "unknown"

\* A target is a bin slot; its name holds its side.
TargetZone(target) ==
    CASE target \in {"bin_front_left", "bin_back_left"}     -> "bin_left"
      [] target \in {"bin_front_right", "bin_back_right"}   -> "bin_right"
      [] target \in {"bin_front_middle", "bin_back_middle"} -> "center"
      [] OTHER                                              -> "unknown"

ObjectZone(object) ==
    CASE object \in {"apple", "milk", "bread"}        -> "left"
      [] object \in {"banana", "soda_can", "cereal"}  -> "right"
      [] OTHER                                        -> "unknown"

\* Crossing to the opposite bin passes through the center.
Crosses(robot, target) ==
    <<robot, target>> \in {<<"left", "bin_right">>, <<"right", "bin_left">>}

\* Mutant of ZonesForPut: the way to the opposite bin is not claimed.
ZonesAtEnds(agent, object, target) ==
    LET zones == {RobotZone(agent), ObjectZone(object), TargetZone(target)}
    IN  IF "unknown" \in zones THEN {"unknown"} ELSE zones

ZonesForPut(agent, object, target) ==
    LET robot == RobotZone(agent)
        bin   == TargetZone(target)
        zones == {robot, ObjectZone(object), bin}
    IN  IF "unknown" \in zones THEN {"unknown"}
        ELSE zones \cup {z \in {"center"} : Crosses(robot, bin)}

-----------------------------------------------------------------------------
\* Claims and their conflicts.

Claim(agent, call) ==
    IF call.skill = Put
    THEN [exclusive |-> {<<"robot", agent>>, <<"object", call.object>>,
                         <<"target", call.target>>},
          zones     |-> ZonesForPut(agent, call.object, call.target)]
    ELSE [exclusive |-> {<<"robot", agent>>},
          zones     |-> IF call.skill = Wait THEN {} ELSE {"unknown"}]

Uncertain(claim) == claim.zones \cap {"unknown", "handoff"} # {}

Overlap(left, right) == left.zones \cap right.zones # {}

ExclusiveConflicts(active, claims) ==
    \E a, b \in active : a # b /\ claims[a].exclusive \cap claims[b].exclusive # {}

WorkspaceConflicts(active, claims) ==
    \/ \E a \in active : Uncertain(claims[a])
    \/ \E a, b \in active : a # b /\ Overlap(claims[a], claims[b])

\* CompatibilityMatrix: the calls compared are never WAIT.
Compatible(left, right, claims, a, b) ==
    /\ left.skill = Put /\ right.skill = Put
    /\ left.object # right.object
    /\ left.target # right.target
    /\ "unknown" \notin claims[a].zones \cup claims[b].zones
    /\ ~Overlap(claims[a], claims[b])

GroupCompatible(plan, active, claims) ==
    \A a, b \in active : a # b => Compatible(plan[a], plan[b], claims, a, b)

Conflicting(plan, active, claims) ==
    \/ ExclusiveConflicts(active, claims)
    \/ WorkspaceConflicts(active, claims)
    \/ ~GroupCompatible(plan, active, claims)

-----------------------------------------------------------------------------
\* The decision: its mode and its groups, each a sequence of agents.

Active(plan) == {a \in Agents : plan[a].skill # Wait}

Ordered(plan) == SelectSeq(AgentOrder, LAMBDA a : a \in Active(plan))

Rejected == [mode |-> "reject", groups |-> << >>]

Schedule(config, plan) ==
    LET active    == Active(plan)
        ordered   == Ordered(plan)
        claims    == [a \in Agents |-> Claim(a, plan[a])]
        conflicts == Conflicting(plan, active, claims)
    IN  IF (conflicts /\ config.reject_conflicts) \/ active = {} THEN Rejected
        ELSE IF /\ config.enable_concurrency
                /\ Len(ordered) \in 2..config.max_concurrent_agents
                /\ ~conflicts
        THEN [mode |-> "concurrent", groups |-> <<ordered>>]
        ELSE [mode   |-> "sequential",
              groups |-> [i \in DOMAIN ordered |-> <<ordered[i]>>]]
=============================================================================
