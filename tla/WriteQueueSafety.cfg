SPECIFICATION Spec
CONSTANTS
    t1 = t1
    t3 = t3
    t2 = t2
    w1 = w1
    NoTask = NoTask
    Tasks = {t1, t2, t3}
    Threads = {w1}
    Host <- AllOnOne
    MaxPending = 2
    MaxPosts = 2
    MaxFaults = 1
INVARIANTS
    AcceptedIsSafe
    ExecutedInOrder
    ResultAfterWrites
    InFlightBound
SYMMETRY TaskSymmetry
CHECK_DEADLOCK FALSE
