SPECIFICATION LambdaSpec
CONSTANTS
    Callers = {c1, c2}
    Hashes = {h1, h2}
    None = None
    Apart = TRUE
    MaxRuns = 2
    MaxMishaps = 2
    base = base
    p1 = p1
    P1 = P1
    boot = boot
    l1 = l1
    L1 = L1
    Default = Default
    Nil = Nil
    ProviderNames = {base, p1, P1}
    LambdaNames = {boot, l1, L1}
    Key <- LowerCase
    BaseProviders = {base}
    Registered = {"grid"}
    Unresolved <- Losts
    Written <- ByHand
    Created <- Creatables
    Manifest <- Configured
    MaxCalls = 2
SYMMETRY Symmetry
INVARIANTS NoStrayRun BooksFollowRun RowAgrees ResumesAfterCrash Restored FailureLeavesAlone
