--------------------------- MODULE ExecutorRouter ---------------------------
(***************************************************************************)
(* SkillExecutorRouter: an ordered table of routes, the first enabled one  *)
(* that matches the call's agent and skill wins ("*" matches any).         *)
(***************************************************************************)
EXTENDS Naturals, Sequences

CONSTANTS
    AgentOf, SkillOf,     \* call -> its agent, its normalized skill name
    Routes,               \* the table: a sequence of ExecutorRoute records
    DefaultBackend, DefaultFallback

SupportedBackends == {"learned", "rrt", "unsupported"}

ExecutorDecision == [backend : SupportedBackends,
                     fallback_backend : SupportedBackends]

\* ExecutorRoute.__post_init__ and SkillExecutorRouter.__init__ raise otherwise.
ASSUME RouterAssumption ==
    /\ \A i \in 1..Len(Routes) : /\ Routes[i].primary \in SupportedBackends
                                 /\ Routes[i].fallback \in SupportedBackends
    /\ DefaultBackend \in SupportedBackends
    /\ DefaultFallback \in SupportedBackends

Matches(route, c) ==
    /\ route.enabled
    /\ route.agent \in {"*", AgentOf[c]}
    /\ route.skill \in {"*", SkillOf[c]}

Matching(c) == {i \in 1..Len(Routes) : Matches(Routes[i], c)}

Resolve(c) ==
    IF Matching(c) = {}
      THEN [backend |-> DefaultBackend, fallback_backend |-> DefaultFallback]
      ELSE LET first == CHOOSE i \in Matching(c) : \A j \in Matching(c) : i <= j
           IN  [backend          |-> Routes[first].primary,
                fallback_backend |-> Routes[first].fallback]
=============================================================================
