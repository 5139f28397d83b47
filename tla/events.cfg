SPECIFICATION EventsSpec
CONSTANTS
    Objects = {o1}
    Callers = {c1, c2}
    Cancellable = {c1}
    Gens = {0, 1}
    QueueSize = 1
    MaxHold = 1
    Events = {e1, e2, e3}
    Publishers = {p1, p2}
    Subs = {s1}
    BufferSize = 2
    Workers = 1
    MaxPublish = 2
    Quitters = {s1}
    Impatient = {p1}
    MayClose = TRUE
    None = None
    Nothing = Nothing
    Empty = Empty
    Dropped = Dropped
    Orphan = Orphan
INVARIANTS InFlightIsExact OneOwner PublisherOrder
PROPERTIES QuietShutdownEnds WaitersServed CalmEventsComeHome
CHECK_DEADLOCK FALSE
