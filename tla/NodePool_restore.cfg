SPECIFICATION Spec
CONSTANTS
    Models = {m}
    Admins = {a1}
    Spawned = {p1}
    TickPoll = TickPoll
    Nobody = Nobody
    MaxNodes = 3
    Worlds <- WarmOrDown
    Requests = {"add", "patch", "remove", "reload"}
    Background = {"tick", "idlecrash"}
    FailureThreshold = 1
    SuccessThreshold = 1
INVARIANT RemovedNotRestored
