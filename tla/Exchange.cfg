SPECIFICATION ExchangeSpec
CONSTANTS
    Services = {"routing", "sync"}
    \* RouteSwitch
    local = local
    remote = remote
    NoProvider = NoProvider
    Callers = {c1, c2}
    Providers = {local, remote}
    Paid = {}
    Streaming = {local}
    Council <- Pair
    Chains <- FreeFirst
    Estimate = 1
    Budgets = {1}
    TTL = 0
    ResetDelay = 1
    LowLimit = 2
    MaxRequests = 2
    MaxOperator = 1
    \* NodeSync
    n1 = n1
    n2 = n2
    project = project
    run = run
    l1 = l1
    NoRow = NoRow
    Nodes = {n1, n2}
    Rows = {project, run}
    Parent <- Family
    Links = {l1}
    Dialer <- From1
    Acceptor <- To2
    Manual = {l1}
    MaxAuthenticated = 2
    MaxEdits = 2
    MaxTime = 2
    MaxRestarts = 1
PROPERTIES
    AnswersCome
    SyncSettles
CHECK_DEADLOCK FALSE
