SPECIFICATION Spec
CONSTANTS
    Indices = {0, 1}
    MasterSeeds = {"seed0", "seed1"}
    Weights <- MCWeights
    MaxRuns = 3
    MaxFaults = 2
INVARIANTS ManifestIsBacked CleanReportsAreSound
PROPERTIES ResumeKeepsEpisodes
