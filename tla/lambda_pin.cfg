SPECIFICATION Spec
CONSTANTS
    Callers = {c1, c2}
    Hashes = {h1, h2}
    None = None
    Apart = TRUE
    MaxRuns = 2
    MaxMishaps = 1
INVARIANTS PinIsRestored
CHECK_DEADLOCK FALSE
