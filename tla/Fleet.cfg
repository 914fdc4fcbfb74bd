SPECIFICATION FleetSpec
CONSTANTS
    WarmModels = {"a", "b"}
    SizeOf <- MCSizeOf
    GuardBytes = 1
    VRAMTotal = 1
    Pinger = l1
    Others = {l2}
    PinnedModels = {}
    HighRanked = "a"
    SessionModels = {}
    NoModel = NoModel
    ProcIds = {1, 2, 3}
    ProcKinds <- MCKinds
    ProbedPorts <- MCPorts
    Schedulers = {"main"}
    Units <- MCUnits
    ReadsEnv = TRUE
    MaxListLen = 2
    MaxMachineChanges = 3
    MaxIds = 4
    Candidates = {1, 2}
    Loads = {0, 1}
    PrefixWeight = 40
    MaxOutcomes = 1
    Start <- MCScoreStart
    Fleet <- MCFleetNodes
    Ghosts = {}
    StaticNodes = {"b"}
    Decls <- MCDecls
    RouteModels = {"m"}
    Sessions = {"s"}
    Requests = {"r1"}
    MaxAffinity = 1
    MaxPins = 2
    MaxEvents = 1
    Domains = {"x"}
    Histories <- MCHistories
    LocalNodes = {"a"}
    PrefixCap = 2
    ProbeDepth = 1
    MaxRecords = 3
    MaxToggles = 1
    BookModels = {"a", "b", "c"}
    Recorders = {"r1", "r2"}
    MaxTracked = 2
    TrimBatch = 1
    Recent = 1
    MaxStamp = 2
    JobNodes = {"a", "b"}
    JobModels = {"m"}
    AgentNodes = {"a"}
    ReplicaOf <- MCReplicaOf
    ReplicaHead <- MCReplicaHead
    MaxJobs = 2
    SampleCount = 1
    MaxJobFaults = 1
    Platforms = {"linux", "darwin", "windows"}
    MaxPairs = 3
    MaxTokens = 2
    MaxCommands = 3
    MaxServiceFaults = 2
CHECK_DEADLOCK FALSE
INVARIANTS LoadsSound AgentsSound RoutesSound JobsSound
PROPERTY FleetSteps
