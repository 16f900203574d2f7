SPECIFICATION FairSpec
CONSTANTS
    c1 = c1
    c2 = c2
    x = x
    y = y
    Clients = {c1, c2}
    Messages <- MixedMessages
    Plans <- MixedPlans
    HeaderBytes = 2
    Capacity = 2
    Chunk = 2
    MaxStops = 2
INVARIANTS HandledAsMeant DroppedForReason IngressSound
PROPERTIES SessionServed StopReturns
CHECK_DEADLOCK FALSE
