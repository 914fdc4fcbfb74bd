SPECIFICATION FairSpec
CONSTANTS
    Models = {m}
    Admins = {a1}
    Spawned = {p1}
    TickPoll = TickPoll
    Nobody = Nobody
    MaxNodes = 2
    Worlds <- WarmOrDown
    Requests = {"add"}
    Background = {"tick"}
    FailureThreshold = 2
    SuccessThreshold = 2
PROPERTIES Recovers OutageDetected
