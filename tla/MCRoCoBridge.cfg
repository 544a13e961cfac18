CONSTANTS
    c1 = c1
    c2 = c2
    Clients <- MCClients
    MaxEpisodeSteps = 2
    ClientMaxSteps <- MCClientMaxSteps
    AllowRemoteShutdown = TRUE
    MaxEpisodes = 2
    MaxRaises = 1
    MaxRestarts = 1
SPECIFICATION Spec
INVARIANTS
    StepsRunInOrder
    MirrorIsCurrent
    NoOrphans
PROPERTIES
    RepeatsAreKnown
\* Every client may have been closed or have died, and the server be shut down.
CHECK_DEADLOCK FALSE
