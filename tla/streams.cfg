SPECIFICATION FairSpec
CONSTANTS
    Sessions = {"binance", "okx", "private"}
    Topics = {x, y}
    Callers = {c1, c2}
    Batch = 1
    MaxDrops = 1
    MaxCalls = 2
    Nobody = Nobody
INVARIANTS StreamsMatch
PROPERTIES StopEnds WantedArrives
CHECK_DEADLOCK FALSE
