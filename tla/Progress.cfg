SPECIFICATION ProgressSpec
CONSTANTS
    Watchdogs = {"local", "agent"}
    Operators = {"admin", "schedule"}
    MaxChurn = 3
    BreachLimit = 2
    NodeKinds <- MCNodeKinds
    Hosts = {"h"}
    RuntimeIds = {"r"}
    AgentThreshold = 2
    Certificates = {"f"}
    Names = {"a"}
    Ports = {1, 2}
    MaxNodeObjects = 2
    MaxWorldChanges = 1
    MaxAgentEdits = 3
    Entries = {e1, e2, e3}
    WriteQueueSize = 2
    Closers = {c1, c2}
    NoEntry = NoEntry
    JobNodes = {"a", "b"}
    JobModels = {"m"}
    AgentNodes = {"a"}
    ReplicaOf <- MCReplicaOf
    ReplicaHead <- MCReplicaHead
    MaxJobs = 1
    SampleCount = 1
    MaxJobFaults = 1
    Texts = {"", "x"}
    Tokens = {0, 1}
    StopReasons = {"", "max_tokens"}
    Roles = {"user", "system"}
    MaxMessages = 2
    MaxFrames = 4
CHECK_DEADLOCK FALSE
INVARIANTS DrainAgrees RecordsTrue AnswersWhole
PROPERTIES ImplementsLossyLog NodesSettle WorkEnds
