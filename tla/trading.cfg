SPECIFICATION TradingSpec
CONSTANTS
    o1 = o1
    o2 = o2
    o3 = o3
    s1 = s1
    s2 = s2
    grid = grid
    grid2 = grid2
    Orders = {o1, o2, o3}
    Symbols = {s1, s2}
    SymbolOf <- Two
    Signed <- Long
    LimitSets <- Guarded
    Lambdas = {grid, grid2}
    Owner <- Owners
    Extends <- Prefix
    StoreTakesIds = TRUE
    MaxFaults = 1
    None = None
    user = user
    handler = handler
    binance = binance
    okx = okx
    Feeds = {binance, okx}
    Producers = {user, handler}
    Joined = {user}
    FeedOf <- Adapter
    StreamOf <- Stream
    Seeds <- Seed
    MaxEvents <- Burst
    Capacity = 1
    PoolSize = 7
    Fanout = 1
    MayShutDown = FALSE
    MaxAbandoned = 1
    Clients = {c1, c2}
    Ordered = 2
    MaxRequests = 3
    MaxLives = 2
    MaxSent = 2
    MaxFailures = 1
SYMMETRY Symmetry
INVARIANTS NoStandstill SlotsAreOrders PositionIsFills VenueWithinLimits RestartAgrees StoredIsListed
CHECK_DEADLOCK FALSE
