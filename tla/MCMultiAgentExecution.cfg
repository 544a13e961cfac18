SPECIFICATION Spec
CONSTANTS
    AgentOrder <- MCAgentOrder
    Providers <- MCProviders
    Executors <- MCExecutors
    Fragments <- MCFragments
    NonFinite = {"nan"}
    LatencyIsLimited = TRUE
    MaxJointSteps = 2
    MaxSkillSteps = 1
    Plans <- MCPlans
    Configs <- MCConfigs
    MaxRuns = 3
INVARIANTS
    ReachingAcrossIsAlone
    SuccessIsLockstep
PROPERTIES
    JointStepsAreComplete
    StopsAreFinal
\* Nothing is left to do once every run has been made.
CHECK_DEADLOCK FALSE
