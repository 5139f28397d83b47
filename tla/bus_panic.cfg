SPECIFICATION BusSpec
CONSTANTS
    Events = {e1, e2, e3}
    Publishers = {p1}
    Subs = {s1}
    BufferSize = 1
    Workers = 1
    MaxPublish = 2
    Quitters = {s1}
    Impatient = {}
    MayClose = FALSE
    Nothing = Nothing
INVARIANTS SourceReclaimed
CHECK_DEADLOCK FALSE
