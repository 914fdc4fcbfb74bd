SPECIFICATION AdminApiSpec
CONSTANTS
    AdminCallers = {"c1", "c2"}
    AdminKinds = {"strategy", "settings", "alias", "provider", "addRule", "removeRule", "toggleRule", "createSchedule", "schedules", "warmup", "pinned", "favorite", "profile"}
    Strategies = {"warm-first", "vram-aware"}
    DefaultStrategy = "warm-first"
    ListenPorts = {1, 2}
    Secrets = {"s"}
    AliasNames = {"x", "y"}
    ProviderNames = {"p", "local"}
    RuleIds = {"r"}
    PlanNodes = {"h", "w"}
    PlanRole <- MCPlanRole
    PlanHead <- MCPlanHead
    PlanCatalog <- MCPlanCatalog
    ScheduleActions = {"warmup", "drain"}
    MaxAdminOps = 2
    MaxAdminFaults = 1
    MaxAdminBoots = 1
    ConfigNodes = {"a", "b"}
    AgentHosts = {"h", "g"}
    UrlPorts = {1}
    PinChoices = {"f"}
    WidthChoices = {}
    FirstUrls <- MCFirstUrls
    ConfigCallers = {"c1", "c2"}
    MaxConfigOps = 2
    MaxConfigFaults = 1
    MaxConfigBoots = 1
    Openers = {"s"}
    Server = "s"
    SchemaNodes = {"a", "b"}
    SchemaHost <- MCSchemaHost
    SchemaColumns = {"c1", "c2"}
    OldSchemas <- MCOldSchemas
    MaxStoreCrashes = 2
    Times = {1, 2}
    MaxRows = 4
    PageLimit = 1
    Handlers = {"h1", "h2"}
    Accounts = {"a", "u"}
    FirstAdmins = {"a"}
    KeyNames = {"k", "benchmark-k"}
    ProbeNames = {"benchmark-k"}
    MaxSkips = 1
    MaxHandled = 3
    MaxStoreFaults = 1
    MaxAccountBoots = 1
    SugNodes = {"a", "b", "c"}
    SugHost <- MCSugHost
    SugPort <- MCSugPort
    SugRuntime <- MCSugRuntime
    HostName <- MCHostName
    HostAddrs <- MCHostAddrs
    Evidence <- MCEvidence
    PeerChoices <- MCPeerChoices
    Reviewers = {"r1"}
    MaxDismissed = 1
    MaxSugOps = 3
    MaxReports = 2
    Nodes = {"a", "b"}
    OllamaNodes = {}
    ReplicaMembers = {"b"}
    ServedModels = {"m"}
    Calls = {1, 2}
    MaxActions = 2
    Actions = {1, 2}
    CommandSaved = TRUE
    MaxLaunches = 3
    MaxFaults = 3
    FitRuntimes = {"ollama", "vllm"}
    GPUSizes = {0, 5, 10}
    DiskFrees = {0, 8}
    DiskTotals = {0, 100}
    FileSizes = {0, 3, 7, 9}
    Contexts = {1, 8}
    PerTokens = {0, 1}
CHECK_DEADLOCK FALSE
INVARIANTS ConfigAgrees DataSound AccessKept ServiceKept
PROPERTY AdminSteps
