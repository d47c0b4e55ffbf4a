SPECIFICATION Spec
CONSTANTS
    Ids = {c1}
    Handlers = {h1, h2}
    Reasons = {"paused"}
    Faults = {}
    MaxStarts = 2
    MaxRestarts = 0
    None = None
CHECK_DEADLOCK FALSE
INVARIANT SingleConsumer
