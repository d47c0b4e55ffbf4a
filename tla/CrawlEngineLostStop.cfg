SPECIFICATION FairSpec
CONSTANTS
    Urls <- MCUrls
    Pages <- MCPages
    Failing <- MCFailing
    None = None
    Configs <- Changing
    CheckpointEvery = 2
    Faults <- NoFaults
    MaxRuns = 1
    MaxCrashes = 0
CHECK_DEADLOCK FALSE
PROPERTY StopIsHonoured
