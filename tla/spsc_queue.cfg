SPECIFICATION Spec
CONSTANTS
    v1 = v1
    v2 = v2
    v3 = v3
    Values = {v1, v2, v3}
    Requested = 3
    Width = 3
    NULL = NULL
INVARIANT SlotsDisjoint
PROPERTY ImplementsFifo
