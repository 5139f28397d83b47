SPECIFICATION FairSpec
CONSTANTS
    Sessions = {"binance"}
    Topics = {x, y}
    Callers = {c1, c2}
    Batch = 1
    MaxDrops = 1
    MaxCalls = 2
    Nobody = Nobody
PROPERTIES OnlyStaleIsDropped
CHECK_DEADLOCK FALSE
