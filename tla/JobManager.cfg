SPECIFICATION Spec
CONSTANTS
    Ids = {c1}
    Handlers = {h1, h2}
    Reasons = {"paused"}
    Faults = {"row", "erase"}
    MaxStarts = 2
    MaxRestarts = 1
    None = None
CHECK_DEADLOCK FALSE
INVARIANT TypeOK
INVARIANT RunningIsCarried
INVARIANT RowsFollow
INVARIANT OneRun
INVARIANT QuietAgreement
INVARIANT ErasedIsGone
PROPERTY CrawlersLive
PROPERTY ListedLosesNothing
