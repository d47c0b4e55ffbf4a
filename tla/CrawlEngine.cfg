SPECIFICATION FairSpec
CONSTANTS
    Urls <- MCUrls
    Pages <- MCPages
    Failing <- MCFailing
    None = None
    Configs <- Changing
    CheckpointEvery = 2
    Faults <- AllFaults
    MaxRuns = 3
    MaxCrashes = 1
CHECK_DEADLOCK FALSE
INVARIANT TypeOK
PROPERTY SteadyCrawlsForgetLittle
INVARIANT RedoBound
INVARIANT InductiveInv
INVARIANT VisitOnce
INVARIANT StrictBFS
INVARIANT PageBudget
INVARIANT EndsForAReason
INVARIANT StatusAgreesWhenDone
PROPERTY RefusalsReported
PROPERTY RunEnds
PROPERTY BreadthFirstSpec
