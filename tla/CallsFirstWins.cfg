SPECIFICATION FairSpec
CONSTANTS
    p1 = p1
    p2 = p2
    Threads <- TwoThreads
    Arguments <- MCArguments
    MAX_PERMITS = 250
    None = None
INVARIANTS
    TypeOK
    SettingsTogether
    MismatchWarned
PROPERTIES
    FirstCallWins
    CallsProceed
