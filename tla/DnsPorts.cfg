SPECIFICATION Spec
CONSTANTS
    h1 = h1
    c1 = c1
    c2 = c2
    a1 = a1
    a2 = a2
    Failed = Failed
    Hosts <- OneHost
    Ports <- TwoPorts
    Callers <- TwoCallers
    Addresses <- OneAddress
    ttl = 3
    negative_ttl = 1
    MaxLookup = 1
    MaxNow = 3
SYMMETRY CallerSymmetry
INVARIANTS
    PortsMatch
