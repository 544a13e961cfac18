SPECIFICATION RunnerSpec
CONSTANTS
    PipeSize = 1
    MaxSteps = 2
    NumReplans = 2
    MaxInterrupts = 2
    KnownTasks <- MCKnownTasks
    Groups <- MCGroups
    Invocations <- MCInvocations
INVARIANTS
    RecordsAreTheEpisode
    SummaryIsTheWholeRun
PROPERTY RunEnds
\* The run ends, or waits for ever for a helper that is stuck.
CHECK_DEADLOCK FALSE
