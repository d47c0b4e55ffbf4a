SPECIFICATION Spec
CONSTANTS
    Urls <- MCUrls
    Pages <- MCPages
    Failing = {}
    Configs <- MCConfigs
    CheckpointEvery = 2
    Faults = {}
    MaxRuns = 4
    MaxCrashes = 2
    None = None
CHECK_DEADLOCK FALSE
INVARIANT CoversTheDepth
INVARIANT ShortestPath
INVARIANT NothingForgotten
