CONSTANTS
    BYTE = 2
    CheckDepth = 1
    DstDepth = 2
    PortDepth = 1
    ReleaseDepth = 1
    MAX_SESSIONS = 1
    CheckPort <- TwoPorts
    ListenPort <- BothHalves
    LookupsFail = TRUE
SPECIFICATION FairSpec
INVARIANT TypeOK
PROPERTIES ChecksInOrder ChecksAnswered
