SPECIFICATION Spec
CONSTANTS
    a1 = a1
    a2 = a2
    Artifacts = {a1, a2}
    SizeOf <- MCSizeOf
    PathOf <- MCPathOf
    ContentAddressed = {"sha256_x"}
    KindsOf <- MCKindsOf
    MaxQueueBytes = 3
    ChannelCapacity = 1
    MaxConcurrent = 1
    MaxAttempts = 2
    BreakerThreshold = 2
    InlinePermits = 2
    Detached = FALSE
    MaxCrashes = 1
INVARIANTS
    NoSilentLoss
    TornNeverStored
    PendingExact
PROPERTY ImplementsSpool
CHECK_DEADLOCK FALSE
