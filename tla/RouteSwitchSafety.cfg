SPECIFICATION RichSpec
CONSTANTS
    c1 = c1
    c2 = c2
    local = local
    remote = remote
    premium = premium
    NoProvider = NoProvider
    Callers = {c1, c2}
    Providers = {local, remote, premium}
    Paid = {premium}
    Streaming = {local}
    Council <- Panel
    Chains <- FreeFirst
    Estimate = 1
    Budgets = {1, 2}
    TTL = 1
    ResetDelay = 1
    LowLimit = 2
    MaxRequests = 3
    MaxOperator = 1
SYMMETRY Interchangeable
INVARIANTS
    SpendingBounded
    StopsOnItsOwn
PROPERTIES
    PaidOnlyUnlocked
    NothingLeftUntried
    FullDelay
    CouncilSalvages
CHECK_DEADLOCK FALSE
