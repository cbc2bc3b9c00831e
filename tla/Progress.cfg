SPECIFICATION ProgressSpec
CONSTANTS
    Services = {"dispatch", "queue", "shutdown", "access", "scout"}
    \* CoreExec
    approved = approved
    fired = fired
    n1 = n1
    n3 = n3
    NoRun = NoRun
    Runs = {approved, fired}
    Nodes = {n1, n3}
    Layout <- SingleNodes
    Deps <- Unchained
    Origin <- TwoOrigins
    Malformed = {}
    PoolNodes = {n3}
    Unrunnable = {}
    MaxWorkers = 1
    ClaimBatch = 2
    MaxRetries = 1
    Budget <- HeatAndCrash
    \* WriteQueue
    h1 = h1
    NoTask = NoTask
    Tasks = {t1, t2}
    Threads = {h1}
    Host <- AllOnOne
    MaxPending = 1
    MaxPosts = 2
    MaxFaults = 1
    \* Shutdown
    s1 = s1
    w1 = w1
    NoScan = NoScan
    Sessions = {s1}
    Workspaces = {w1}
    ProjectOf <- OneWorkspace
    Scannable = {w1}
    RawPeers = {}
    MaxEdits = 1
    \* Access
    Browsers = {b1}
    Watchers = {b1}
    Passwords = {pw}
    None = None
    MaxSessions = 1
    SessionTTL = 0
    TicketTTL = 1
    TicketUses = 1
    MaxTokens = 2
    MaxTickets = 2
    MaxNow = 1
    \* Scout
    Checks = {k1}
    Tier = 2
    IdleAge = 1
    Unset = Unset
    MaxTicks = 2
    MaxRestarts = 1
PROPERTIES
    RunsSettle
    DrainSettles
    TeardownEnds
    StreamsSettle
    WorkersReturn
CHECK_DEADLOCK FALSE
