SPECIFICATION Spec
CONSTANTS
    Request = {r1, r2}
    Node = {n1}
    NoNode = NoNode
    Statuses = {"up", "unavailable", "unknown", "static"}
    Cap = 1
    Depths = {0, 1, 2}
    Timeouts = {0, 2}
    Slas = {1}
    RetryQuanta = 1
INVARIANTS TypeOK QueueBound SlotAccounting NoOversleptSlot GiveUpIsDue
PROPERTY EveryRequestAnswered
