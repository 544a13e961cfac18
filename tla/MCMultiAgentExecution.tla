----------------------- MODULE MCMultiAgentExecution -----------------------
EXTENDS MultiAgentExecution

\* Three agents; the workspace mapper does not know Chad.
MCAgentOrder == <<"Alice", "Bob", "Chad">>
MCProviders == {"Alice", "Bob"}
MCExecutors == {"Alice", "Bob"}

\* A command for one index with either of two values, for two, one whose value is
\* not finite, and one whose lists differ in length.
MCFragments ==
    {[command |-> c, ragged |-> FALSE] : c \in {[i \in {"gripper"} |-> "low"],
                                                [i \in {"gripper"} |-> "high"],
                                                [i \in {"joint", "gripper"} |-> "low"],
                                                [i \in {"joint"} |-> "nan"]}}
        \cup {[command |-> [i \in {"joint"} |-> "low"], ragged |-> TRUE]}

MCConfigs ==
    {[enable_concurrency |-> e, max_concurrent_agents |-> m, reject_conflicts |-> r] :
        e \in BOOLEAN, m \in {2, 3}, r \in BOOLEAN}

Puts(objects, targets) ==
    {[skill |-> Put, object |-> o, target |-> t] : o \in objects, t \in targets}

Other(skill) == [skill |-> skill, object |-> "", target |-> ""]

MCCalls == {Other(Wait), Other("OPEN")}
    \cup Puts({"apple", "banana"}, {"bin_front_left", "bin_front_right", "bin_back_middle"})

MCPlans ==
    {[a \in {"Alice", "Bob", "Chad"} |->
        IF a = "Alice" THEN x ELSE IF a = "Bob" THEN y ELSE z] :
            x \in MCCalls, y \in MCCalls,
            z \in {Other(Wait)} \cup Puts({"milk"}, {"bin_back_left"})}
=============================================================================
