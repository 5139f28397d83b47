SPECIFICATION AdapterSpec
CONSTANTS
    r1 = r1
    r2 = r2
    g1 = g1
    g2 = g2
    Rows = {r1, r2}
    Gateways = {g1, g2}
    Home <- TwoHomes
    Batch = 1
    Lease = 1
    RetryDelay = 1
    MaxFaults = 1
    None = None
    user = user
    ack = ack
    refresh = refresh
    adapter = adapter
    Feeds = {adapter}
    Producers = {user, ack, refresh}
    Joined = {user}
    FeedOf <- OneFeed
    StreamOf <- Reports
    Seeds <- Instruments
    MaxEvents <- AllOne
    Capacity = 1
    PoolSize = 6
    Fanout = 1
    MayShutDown = TRUE
    MaxAbandoned = 1
    t1 = t1
    t2 = t2
    Seeders = {t1, t2}
    Resyncers = {t1, t2}
    BookFaults = 1
    Handler = Handler
    MaxVenue = 4
    MaxLag = 2
    OkxUpdates = 3
    MaxLost = 1
    MaxReconnects = 1
    Coverage = {{}, {1, 3}, {1, 2, 3}}
INVARIANTS OkMeansDelivered NoneMistaken OnlyQueuesKeep GapsAreFound PublishedExact
PROPERTIES HandoffSpec StoredIsDelivered FeedEnds BufferedIsTaken ResyncEnds
CHECK_DEADLOCK FALSE
