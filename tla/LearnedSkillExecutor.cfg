\* Three policies for a cache of two, a horizon shorter than the chunks and than a
\* call, and one fallback.
SPECIFICATION Spec
CONSTANTS
    Policies = {alice, bob, chad}
    CacheSize = 2
    Samples = {here, there}
    Window = 2
    Patience = 2
    MaxSteps = 4
    ExecutionHorizon = 2
    ChunkSizes = {1, 2, 3}
    StableChecks = 2
    WatchesProgress = TRUE
    FallbackMode = "automatic"
    AllowedReasons = {"POLICY_INFERENCE_FAILURE", "NO_PROGRESS"}
    MaxFallbacks = 1
    HasFallback = TRUE
    MaxCalls = 4
INVARIANTS
    SuccessIsStable
    NoProgressIsReal
    CancelIsHeeded
    CacheIsMostRecent
\* Nothing is left to do once every call has been made and cancelled.
CHECK_DEADLOCK FALSE
