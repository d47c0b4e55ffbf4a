SPECIFICATION FairSpec
CONSTANTS
    Ids = {c1}
    Handlers = {h1, h2}
    Reasons = {}
    Faults = {"row", "erase"}
    MaxStarts = 2
    MaxRestarts = 0
    None = None
CHECK_DEADLOCK FALSE
PROPERTY EveryRunSettles
