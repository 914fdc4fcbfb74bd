SPECIFICATION RequestSpec
CONSTANTS
    Request = {r1, r2}
    Node = {n1, n2}
    big = big
    small = small
    gpt = gpt
    Model = {big, small}
    None = None
    Alias <- MCAlias
    Chain <- MCChain
    Fallback <- MCFallback
    AllowLists <- MCAllow
    MaxRetries = 2
    MaxClouds = 2
    Bodies <- MCBodies
    TailMax = 5
    EmbedTailMax = 8
    MaxChunk = 3
    BucketCap = 2
    RefillTicks = 2
    RPM = 2
    TPM = 3
    ModelWindow = 2
    MaxAttempts = 2
    LoginWindow = 1
    LockTicks = 2
    PruneTicks = 1
    Guessers = {"g1", "g2"}
    Expiries = {"x", "y"}
    Settings <- MCSettings
    MaxTick = 4
    MaxPassed = 5
    Overflows = {o1, o2}
    CapChoices <- MCCaps
    LogQueueSize = 1
    LogRows = 1
    SpendDays = 1
    SpendMonth = 2
    MaxCalls = 3
    MaxSpendFaults = 1
    CloudCalls = {c1}
    LocalCalls = {l1, l2}
    StatsQueueSize = 1
    MaxStarts = 2
    MaxFlushes = 2
    MaxLedgerFaults = 1
CHECK_DEADLOCK FALSE
INVARIANTS SlotsBalanced RequestKept LimitsKept UsageHonest
PROPERTY RequestsEnd
