SPECIFICATION Spec
CONSTANTS
    Models = {m}
    Admins = {a1, a2}
    Spawned = {p1}
    TickPoll = TickPoll
    Nobody = Nobody
    MaxNodes = 2
    Worlds <- WarmOrDown
    Requests = {"add", "patch", "remove", "reload"}
    Background = {"crash"}
    FailureThreshold = 1
    SuccessThreshold = 1
INVARIANT NoGhosts
PROPERTY LiveSizesKept
SYMMETRY Symmetry
