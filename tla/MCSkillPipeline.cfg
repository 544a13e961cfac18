SPECIFICATION Spec
CONSTANTS
    AgentOrder <- MCAgentOrder
    ItemOrder <- MCItemOrder
    Slots <- MCSlots
    Nothing <- MCNothing
    Configs <- Arms
    Extend <- ArmsLine
    Iterations = 2
    Shortcuts = 1
    Modes <- MCModes
    SkillResponses <- MCSkillResponses
    ActionResponses <- MCActionResponses
    Reach <- MCReach
    ControlFreq = 2
    MaxFailedWaypoints = 1
    MaxRounds = 2
INVARIANTS
    PathIsSafe
    SkillMeansPlaced
PROPERTIES
    GraspNearTarget
    SlotsAreExclusive
\* The run ends: finished, stopped by an error, or out of rounds.
CHECK_DEADLOCK FALSE
