SPECIFICATION Spec
CONSTANTS
    AgentOrder <- MCAgentOrder
    MaxCalls = 4
    NumReplans = 2
    MaxPlans = 2
    MaxSteps = 3
    CommModes = {"dialog", "plan"}
    DebugModes = {TRUE, FALSE}
    OutputModes = {"path", "skill"}
    MaxProcesses = 2
INVARIANTS PromptsRememberThePast EveryoneIsHeard
PROPERTIES ResponsesAreAtomic
\* A process that has died, or has ended, may be the last one.
CHECK_DEADLOCK FALSE
