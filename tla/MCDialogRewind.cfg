SPECIFICATION Spec
CONSTANTS
    AgentOrder <- MCAgentOrder
    MaxCalls = 4
    NumReplans = 2
    MaxPlans = 2
    MaxSteps = 2
    CommModes = {"plan"}
    DebugModes = {FALSE}
    OutputModes = {"path"}
    MaxProcesses = 1
INVARIANTS RewindsAreNoticed
\* A process that has died, or has ended, may be the last one.
CHECK_DEADLOCK FALSE
