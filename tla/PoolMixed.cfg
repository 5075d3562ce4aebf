SPECIFICATION Spec
CONSTANTS
    k1 = k1
    k2 = k2
    t1 = t1
    t2 = t2
    t3 = t3
    Keys <- TwoKeys
    Tasks <- TwoTasks
    ConnectionsPerHost = 2
    MaxAttempts = 2
    Negotiable <- EitherProtocol
    Cancellation = TRUE
    MaxCalls = 2
SYMMETRY TaskSymmetry
INVARIANTS
    TypeOK
    ExclusiveCheckout
    OpenersCounted
    WithinLimit
PROPERTIES
    LeaseSpec
