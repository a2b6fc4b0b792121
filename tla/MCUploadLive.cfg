SPECIFICATION FairSpec
CONSTANTS
    a1 = a1
    a2 = a2
    Artifacts = {a1, a2}
    SizeOf <- MCSizeOf
    PathOf <- MCPathOf
    ContentAddressed = {}
    KindsOf <- MCWaitingKinds
    MaxQueueBytes = 3
    ChannelCapacity = 1
    MaxConcurrent = 1
    MaxAttempts = 1
    BreakerThreshold = 2
    InlinePermits = 2
    Detached = FALSE
    MaxCrashes = 0
PROPERTIES
    ItemSettles
    WaiterAnswered
    DrainCompletes
CHECK_DEADLOCK FALSE
