SPECIFICATION Spec
CONSTANTS
    Launchers = {l1, l2}
    Crawlers = {c}
    Start <- MCStart
    MaxPortTries = 2
    Highest = 3
CHECK_DEADLOCK FALSE
INVARIANT OnlyOldJobsAreInterrupted
