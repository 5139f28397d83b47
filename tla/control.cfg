SPECIFICATION ControlSpec
CONSTANTS
    l1 = l1
    ticker = ticker
    book = book
    btc = btc
    eth = eth
    Lambdas = {l1}
    Types = {ticker, book}
    Symbols = {btc, eth}
    Asks <- EitherSymbol
    MaxStarts = 2
    MaxFaults = 1
    Clients = {c1, c2}
    None = None
    Revisions = {h1, h2}
    Tags = {"latest", "v1", "v2"}
    BuildTag <- OwnTags
    h1 = h1
    MaxCalls = 3
    MaxBreaks = 1
SYMMETRY Symmetry
INVARIANTS NoOrphan RoutesHold RegistryLoads RunsWhatIsTagged
PROPERTIES RunningStays
CHECK_DEADLOCK FALSE
