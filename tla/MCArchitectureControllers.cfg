SPECIFICATION Spec
CONSTANTS
    Patience = 3
    MaxSkillSteps = 8
    MaxSteps = 8
    MaxRetries = 1
    Scenarios = {"none", "missed_grasp", "no_progress_always", "target_occupied",
                 "low_confidence", "timeout"}
    SuccessAfter = {1, 2, 5}
    FailAttempts = {1, 3}
    UncertaintyModes = {"none", "heuristic", "policy_metadata"}
    InjectedPlans <- MCInjectedPlans
    Observations <- MCObservations
INVARIANTS
    RowMatchesEvents
    MonitorFollowsExecutor
    SuccessIsTheWholePlan
    NoTickOnAbandonedPlan
PROPERTIES
    EpisodeEnds
\* An episode that has ended does nothing more.
CHECK_DEADLOCK FALSE
