SPECIFICATION Spec
CONSTANTS
    l1 = l1
    l2 = l2
    engine = engine
    NULL = NULL
    Levels = {l1, l2}
    Engine = engine
    Kinds <- SomeKinds
    Lengths = {1, 2}
    PointerBytes = 2
    MaxAlign = 4
    BlocksPerChunk = 2
    Memory = 9
INVARIANTS BlocksDisjoint FreeListExact ReturnedWhereTaken PoolOutlivesNodes
CHECK_DEADLOCK FALSE
