SPECIFICATION Spec
CONSTANTS
    o1 = o1
    o2 = o2
    o3 = o3
    s1 = s1
    s2 = s2
    grid = grid
    grid2 = grid2
    Orders = {o1, o2, o3}
    Symbols = {s1, s2}
    SymbolOf <- Two
    Signed <- Long
    LimitSets <- Guarded
    Lambdas = {grid, grid2}
    Owner <- Owners
    Extends <- Prefix
    StoreTakesIds = FALSE
    MaxFaults = 0
INVARIANTS CheckedIsSubmitted
CHECK_DEADLOCK FALSE
