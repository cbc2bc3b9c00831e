SPECIFICATION MachinerySpec
CONSTANTS
    Services = {"memory", "knowledge", "worker", "scout", "registry", "adapter", "local"}
    f1 = f1
    f2 = f2
    \* Memory
    Facts = {f1, f2}
    Documents = {doc}
    Similar <- SimilarFacts
    Sweeps = {sweep}
    Ingests = {ingest}
    ChannelLimit = 3
    NearAge = 1
    FarAge = 1
    StaleAge = 1
    MaxDay = 1
    MaxIds = 2
    MaxApprovals = 1
    \* Knowledge
    Projects = {p1}
    Names = {"index", "a"}
    Manifest = "index"
    Texts = {"man", "toA", "weak"}
    ManifestText = "man"
    Trust <- TrustOf
    Links <- LinksOf
    Extractions = {x1, x2}
    Docs = {d1}
    Chat = chat
    None = None
    StrikeLimit = 2
    MaxEdits = 1
    MaxParked = 2
    \* Worker
    Tasks = {"t1"}
    Inputs <- SomeInputs
    Hosts = {"lo", "in", "pub", "turns"}
    Reach <- Resolving
    Loopback = {"lo"}
    Siblings <- TwoSiblings
    MaxFiles = 1
    MaxPending = 3
    MaxRedirects = 1
    MaxChanges = 2
    \* Scout
    Checks = {k1, k2}
    Tier = 2
    IdleAge = 1
    Unset = Unset
    MaxTicks = 4
    MaxRestarts = 1
    \* Registry
    Ids = {m1, m2}
    Types = {"http", "opencode"}
    Scopes = {"global"}
    Global = "global"
    MaxVersion = 2
    MaxCalls = 2
    MaxBoots = 2
    NoProvider = NoProvider
    \* Adapter
    Calls = {c1}
    MaxZen = 2
    MaxRouter = 3
    Catalogs = {1, 3}
    \* Local
    Gens = {g1, g2}
    MaxTokens = 2
INVARIANTS
    MemoryConsistent
    KnowledgeSound
    TaskSound
    ScoutSound
    RegistrySound
    AnswersSound
SYMMETRY ProviderSymmetry
CHECK_DEADLOCK FALSE
