SPECIFICATION SurfaceSpec
CONSTANTS
    Services = {"schema", "shutdown", "perimeter", "access", "console", "interview", "consent"}
    s1 = s1
    s2 = s2
    w1 = w1
    t1 = t1
    p1 = p1
    \* Schema
    Legacies <- EarlierReleases
    MaxStarts = 3
    \* Shutdown
    NoScan = NoScan
    Sessions = {s1, s2}
    Workspaces = {w1}
    ProjectOf <- OneWorkspace
    Scannable = {w1}
    RawPeers = {s2}
    MaxEdits = 1
    \* Perimeter
    Addresses = {a1, a2, a3}
    LimitMax = 2
    Window = 1
    MaxKeys = 2
    MaxClock = 4
    \* Access
    Browsers = {b1, b2, b3}
    Watchers = {}
    Passwords = {pw1}
    None = None
    MaxSessions = 2
    SessionTTL = 1
    TicketTTL = 1
    TicketUses = 1
    MaxTokens = 3
    MaxTickets = 0
    MaxNow = 2
    \* Console
    Consoles = {c1}
    Todos = {t1}
    Proposals = {p1}
    Reviews = {}
    Confidence <- FullConfidence
    Levels = {1, 2}
    Nodes <- OneNode
    Unsafe = {}
    Refusable = {p1}
    BarTTL = 0
    MaxHandlers = 2
    MaxRuns = 2
    \* Interview
    Projects = {j1, j2}
    Tabs = {tab}
    Assertions = {"SI"}
    MaxRounds = 2
    KeptSessions = 1
    MaxIds = 3
    MaxPrompts = 2
    \* Consent
    Peers = {n1, n2}
    Sockets = {k1, k2}
    MaxSecret = 2
    MaxApproved = 1
    MaxFails = 1
    Nobody = Nobody
    Stale = Stale
INVARIANTS
    SchemaSound
    TerminalsSound
    RateHeld
    TokensWork
    ReviewSound
    InterviewSound
    ConsentSound
CHECK_DEADLOCK FALSE
