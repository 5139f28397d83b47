SPECIFICATION Spec
CONSTANTS
    Objects = {o1, o2}
    Callers = {c1, c2}
    Cancellable = {c1, c2}
    Gens = {0, 1}
    QueueSize = 1
    MaxHold = 1
    None = None
    Empty = Empty
    Dropped = Dropped
    Orphan = Orphan
PROPERTIES LendingSpec
INVARIANTS ExclusiveLending HeldObjectNotReset NoPanicWhileOpen
SYMMETRY Symmetry
CHECK_DEADLOCK FALSE
