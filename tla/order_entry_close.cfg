SPECIFICATION Spec
CONSTANTS
    c1 = c1
    c2 = c2
    x = x
    y = y
    Clients = {c1, c2}
    Messages <- ClosedMessages
    Plans <- ClosedPlans
    HeaderBytes = 2
    Capacity = 2
    Chunk = 2
    MaxStops = 1
INVARIANT ClosedAfterHandled
CHECK_DEADLOCK FALSE
