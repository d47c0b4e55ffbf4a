SPECIFICATION MCSpec
CONSTANTS
    Slots = {1, 2}
    Handlers = {h1, h2}
    Halts = {"pause"}
    Attempts = 1
    MaxVisits = 1
    MaxChances = 2
    None = None
    Launchers = {1, 2, 3}
    Crawlers = {c}
    Start <- MCStart
    MaxPortTries = 2
    Highest = 3
    Interval = 3
    Early = 1
    MaxTime = 12
    MaxGrants = 4
    Hrefs <- SomeHrefs
CHECK_DEADLOCK FALSE
INVARIANT TypesOK
INVARIANT EndedRepliesAreFinal
INVARIANT FrozenPageIsRight
INVARIANT SomebodyServes
INVARIANT Spacing
INVARIANT ExactlyOneTask
PROPERTY EndIsNoticed
