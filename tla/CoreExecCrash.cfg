SPECIFICATION Spec
CONSTANTS
    a = a
    c = c
    d = d
    s = s
    n1 = n1
    n2 = n2
    n3 = n3
    n4 = n4
    NoRun = NoRun
    Runs = {a, c, s}
    Nodes = {n1, n2, n3, n4}
    Layout <- SharedLayouts
    Deps <- ChainDeps
    Origin <- ThreeOrigins
    Malformed = {s}
    PoolNodes = {n2, n3}
    Unrunnable = {n3}
    MaxWorkers = 1
    ClaimBatch = 2
    MaxRetries = 1
    Budget <- LeasesAndCrash
INVARIANTS
    ClaimedHasExecutor
    VerdictsFounded
CHECK_DEADLOCK FALSE
