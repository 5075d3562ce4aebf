SPECIFICATION FairSpec
CONSTANTS
    h1 = h1
    h2 = h2
    Hosts <- TwoHosts
    NoHost = NoHost
    NoLocation = NoLocation
    Unresolvable = Unresolvable
    MaxRedirects = 2
    MaxRetries = 4
    BaseDelay = 3
    RetryAfters <- MCRetryAfters
    NoRetryAfter = NoRetryAfter
    Limit = 1
    Bits = 3
    OverflowChecks = TRUE
    MaxU8 = 2
    MaxHops = 3
    MaxDeaths = 4
INVARIANTS
    TypeOK
    HopsBounded
    NoLeftovers
    BackoffDoubles
    StaleSurvived
PROPERTIES
    DownloadEnds
