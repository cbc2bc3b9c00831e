SPECIFICATION Spec
CONSTANTS
    a = a
    c = c
    d = d
    s = s
    n1 = n1
    n2 = n2
    n3 = n3
    n4 = n4
    NoRun = NoRun
    Runs = {a, c}
    Nodes = {n1, n2, n3}
    Layout <- TwoLayouts
    Deps <- ChainDeps
    Origin <- ThreeOrigins
    Malformed = {}
    PoolNodes = {n2, n3}
    Unrunnable = {}
    MaxWorkers = 1
    ClaimBatch = 2
    MaxRetries = 1
    Budget <- LeasesAndOperator
INVARIANTS
    TypeOK
    StartedAfterDeps
    ResolverOnlyForActive
    ExecutorsSound
PROPERTIES
    KeepsPromise
    TrackPrecedence
CHECK_DEADLOCK FALSE
