SPECIFICATION DeadlineSpec
CONSTANTS
    u1 = u1
    u2 = u2
    u3 = u3
    h1 = h1
    h2 = h2
    c1 = c1
    c2 = c2
    c3 = c3
    Urls <- ThreeUrls
    Hosts <- TwoHosts
    NoHost = NoHost
    HostOf <- ThirdInvalid
    RedirectsTo <- Redirects
    NoPath = NoPath
    Images <- ThreeImages
    Stems <- FourStems
    Exts <- SomeExts
    NoSegment = NoSegment
    SegmentOf <- AlikeSegments
    Sanitized <- Underscored
    FirstOf <- Itself
    Chars <- CharsOf
    Lowercase <- Lower
    Detected <- AllJpg
    NoExt = NoExt
    NamingStrategy = "Sequential"
    NameLimit = 200
    OverflowChecks = TRUE
    ContentOf <- OwnImage
    Inputs <- Triple
    Faults <- SomeFaults
    MaxGlobal = 2
    MaxPerHost = 1
    MaxRetries = 1
    MaxRedirects = 1
    BatchTimeout = TRUE
    WriteMetadata = FALSE
    WriteSummary = FALSE
INVARIANTS
    PermitsAccounted
    ResultsOnDisk
    RetriesBounded
PROPERTIES
    PromiseKept
    BatchReturns
