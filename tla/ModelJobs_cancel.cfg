SPECIFICATION JobsSpec
CONSTANTS
    JobNodes = {"a"}
    JobModels = {"m"}
    AgentNodes = {"a"}
    ReplicaOf <- NoReplica
    ReplicaHead <- ItsOwnHead
    MaxJobs = 1
    SampleCount = 1
    MaxJobFaults = 0
CHECK_DEADLOCK FALSE
INVARIANT BenchmarkCancelEnds
