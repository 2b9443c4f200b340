CONSTANTS
    BYTE = 4
    CheckDepth = 2
    DstDepth = 4
    PortDepth = 2
    ReleaseDepth = 1
    MAX_SESSIONS = 2
    CheckPort <- NoPort
    ListenPort <- NoPort
    LookupsFail = FALSE
SPECIFICATION Spec
INVARIANT PortsExclusive
