SPECIFICATION Spec
CONSTANTS
    k1 = k1
    k2 = k2
    t1 = t1
    t2 = t2
    t3 = t3
    Keys <- OneKey
    Tasks <- ThreeTasks
    ConnectionsPerHost = 2
    MaxAttempts = 2
    Negotiable <- OnlyHttp1
    Cancellation = FALSE
    MaxCalls = 2
SYMMETRY TaskSymmetry
PROPERTIES
    ReturnsExistingIfAvailable
