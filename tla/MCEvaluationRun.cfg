SPECIFICATION EvaluationSpec
CONSTANTS
    ChunkSize = 2
    MaxSteps = 2
    Window = 2
    Patience = 1
    Horizons = {1, 2}
    CollisionLimits = {0, 2}
    EpisodeCounts = {1, 2}
    Variations = 1
    Tasks = {"single", "concurrent"}
    MaxInvocations = 3
    Invocations <- MCInvocations
    PolicyPaths <- MCCheckpoints
    ResetInfos <- MCResetInfos
    StepInfos <- MCStepInfos
    PolicyAnswers <- MCPolicyAnswers
INVARIANTS
    SuccessIsClean
    TraceIsComplete
    ReportsMatchEpisodes
\* Nothing happens after the last invocation has ended.
CHECK_DEADLOCK FALSE
