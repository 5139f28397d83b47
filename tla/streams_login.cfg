SPECIFICATION FairSpec
CONSTANTS
    Sessions = {"private"}
    Topics = {x, y}
    Callers = {c1, c2}
    Batch = 1
    MaxDrops = 1
    MaxCalls = 2
    Nobody = Nobody
INVARIANTS Reauthenticated
CHECK_DEADLOCK FALSE
