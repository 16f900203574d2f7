SPECIFICATION Spec
CONSTANTS
    NULL = NULL
    DAMAGED = DAMAGED
    Requests <- GoodOnly
    Ingress <- NoIngress
    Limits <- SmallLimits
    Batch = 2
    Fsync = TRUE
    PowerLoss = FALSE
    CrashAt <- Nowhere
    Failures <- Nowhere
    MaxCommands = 3
    MaxRestarts = 1
INVARIANT SnapshotSupersedes
CHECK_DEADLOCK FALSE
