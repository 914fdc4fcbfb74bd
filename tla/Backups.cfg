SPECIFICATION BackupsSpec
CONSTANTS
    MaxRestores = 2
    MaxBoots = 3
    WriteFaults = {"pending", "notDone", "outcome"}
    Contents = {1, 2}
    Retention = 1
    MaxFiles = 2
    MaxCrashes = 1
    MaxDisturbances = 1
    Runs = {b1}
    Streams = {s1}
    Volume = 9
    FloorSpace = 1
    DbSize = 2
    WalRoom = 1
    FirstGuess = 1
    GrowBy = 1
    StreamLimit = 4
    Recorders = {r1, r2}
    StatusDirs = {d1, d2}
    MaxOutcomes = 3
    MaxDirChanges = 2
    Chunks = 2
    OthersReplace = FALSE
    MaxClientFaults = 2
    MaxPolls = 2
    MaxServerEvents = 3
    Paths = {"p", "q"}
    MaxInodes = 2
    Archives <- MCArchives
    VerifiedCacheMax = 1
    VerifiedMaxAge = 1
    MaxGzipMembers = 3
    Plans <- MCPlans
    Ratio = 2
    MaxDay = 1
    MaxOutside = 1
CHECK_DEADLOCK FALSE
INVARIANTS RestoreSound BackupsKept ArchivesSound ClientSound
