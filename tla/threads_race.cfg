SPECIFICATION Spec
CONSTANTS
    NULL = NULL
    N = 2
    EmptyShard = 1
    Inbound = 1
    Outbound = 1
    MaxSubmits = 4
    MaxStops = 1
INVARIANT ShardsExclusive
