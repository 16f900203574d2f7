SPECIFICATION Spec
CONSTANTS
    NULL = NULL
    DAMAGED = DAMAGED
    Requests <- Mixed
    Ingress <- SomeIngress
    Limits <- SmallLimits
    Batch = 2
    Fsync = TRUE
    PowerLoss = TRUE
    CrashAt <- Anywhere
    Failures <- AnyFailure
    MaxCommands = 3
    MaxRestarts = 1
INVARIANTS Recoverable CrashLosesTail IngressOrdered AppendedReplayed ReplayInOrder
PROPERTY SnapshotNeverRegresses
CHECK_DEADLOCK FALSE
