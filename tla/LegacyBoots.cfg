SPECIFICATION SurfaceSpec
CONSTANTS
    Services = {"schema"}
    s1 = s1
    s2 = s2
    w1 = w1
    t1 = t1
    p1 = p1
    \* Schema
    Legacies <- EarlierReleases
    MaxStarts = 3
    \* Shutdown
    NoScan = NoScan
    Sessions = {s1, s2}
    Workspaces = {w1}
    ProjectOf <- OneWorkspace
    Scannable = {w1}
    RawPeers = {s2}
    MaxEdits = 1
    \* Perimeter
    Addresses = {a1, a2, a3}
    LimitMax = 2
    Window = 1
    MaxKeys = 2
    MaxClock = 4
    \* Access
    Browsers = {b1, b2}
    Watchers = {}
    Passwords = {pw1, pw2}
    None = None
    MaxSessions = 1
    SessionTTL = 0
    TicketTTL = 1
    TicketUses = 1
    MaxTokens = 2
    MaxTickets = 1
    MaxNow = 1
    \* Console
    Consoles = {c1}
    Todos = {t1}
    Proposals = {p1}
    Reviews = {}
    Confidence <- FullConfidence
    Levels = {1, 2}
    Nodes <- OneNode
    Unsafe = {}
    Refusable = {p1}
    BarTTL = 0
    MaxHandlers = 1
    MaxRuns = 2
    \* Interview
    Projects = {j1, j2}
    Tabs = {tab}
    Assertions = {"SI"}
    MaxRounds = 2
    KeptSessions = 1
    MaxIds = 3
    MaxPrompts = 2
    \* Consent
    Peers = {n1}
    Sockets = {k1, k2}
    MaxSecret = 2
    MaxApproved = 1
    MaxFails = 2
    Nobody = Nobody
    Stale = Stale
INVARIANTS
    LegacyBoots
CHECK_DEADLOCK FALSE
