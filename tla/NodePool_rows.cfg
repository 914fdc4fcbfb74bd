SPECIFICATION FairSpec
CONSTANTS
    Models = {m}
    Admins = {a1}
    Spawned = {p1}
    TickPoll = TickPoll
    Nobody = Nobody
    MaxNodes = 2
    Worlds <- WarmOrCold
    Requests = {"add"}
    Background = {"flush", "tick"}
    FailureThreshold = 1
    SuccessThreshold = 1
PROPERTY RowsConverge
