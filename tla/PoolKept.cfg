SPECIFICATION FairSpec
CONSTANTS
    k1 = k1
    k2 = k2
    t1 = t1
    t2 = t2
    t3 = t3
    Keys <- TwoKeys
    Tasks <- ThreeTasks
    ConnectionsPerHost = 1
    MaxAttempts = 2
    Negotiable <- OneOfEach
    Cancellation = FALSE
    MaxCalls = 1
INVARIANTS
    CheckedOutMeansHeld
PROPERTIES
    ReturnsExistingIfAvailable
    BlocksOnlyWhenBusy
    WakeupKept
    AcquireTerminates
