SPECIFICATION FairSpec
CONSTANTS
    u1 = u1
    u2 = u2
    u3 = u3
    h1 = h1
    h2 = h2
    c1 = c1
    c2 = c2
    c3 = c3
    Urls <- ThreeUrls
    Hosts <- TwoHosts
    NoHost = NoHost
    HostOf <- SplitHosts
    RedirectsTo <- NoRedirects
    NoPath = NoPath
    Images <- ThreeImages
    Stems <- FourStems
    Exts <- SomeExts
    NoSegment = NoSegment
    SegmentOf <- OddSegments
    Sanitized <- Underscored
    FirstOf <- Itself
    Chars <- CharsOf
    Lowercase <- Lower
    Detected <- AllJpg
    NoExt = NoExt
    NamingStrategy = "UrlBased"
    NameLimit = 200
    OverflowChecks = TRUE
    ContentOf <- OwnImage
    Inputs <- PairAndDuplicates
    Faults <- AllFaults
    MaxGlobal = 2
    MaxPerHost = 1
    MaxRetries = 1
    MaxRedirects = 1
    BatchTimeout = FALSE
    WriteMetadata = TRUE
    WriteSummary = TRUE
INVARIANTS
    TypeOK
    PermitsAccounted
    HostCap
    ResultsOnDisk
    NamesBounded
PROPERTIES
    PromiseKept
    QuietAfterReturn
    BatchReturns
