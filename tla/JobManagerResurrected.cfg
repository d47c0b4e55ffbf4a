SPECIFICATION Spec
CONSTANTS
    Ids = {c1}
    Handlers = {h1}
    Reasons = {"paused"}
    Faults = {}
    MaxStarts = 1
    MaxRestarts = 0
    None = None
CHECK_DEADLOCK FALSE
INVARIANT DeletedStaysDeleted
