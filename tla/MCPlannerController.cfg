CONSTANTS
    Calls <- MCCalls
    Codes <- MCCodes
    States <- MCStates
    FallbackRules <- DefaultFailureActions
    RollbackRules <- DefaultRollbackRules
    MaxPlanRounds = 3
    MaxRetriesPerSkill = 1
    MaxLearnedFailures = 2
    MaxRepeatedFailures = 1
    MaxFallbacks = 1
    AllowSamePlanRetry = TRUE
    AgentOf <- MCAgentOf
    SkillOf <- MCSkillOf
    Routes <- MCRoutes
    DefaultBackend = "rrt"
    DefaultFallback = "unsupported"
    FailureCodes <- MCFailureCodes
    MaxRuns = 2
SPECIFICATION Spec
INVARIANTS
    RoundAccounting
    LearnedFailuresBounded
    FailureLoopsAreBroken
    PlansAreGrounded
    RollbackIsExact
PROPERTIES
    ImplementsLedger
    RunsMakeProgress
\* Nothing is left to do once every run() has returned.
CHECK_DEADLOCK FALSE
