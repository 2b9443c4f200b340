CONSTANTS
    SPACE = 5
    MSS = 2
    Length = 6
    CongWindow = 2
    EventDepth = 1
    WriteLen = {3}
    StreamDepth = 1
    Active = TRUE
    Windows = {0, 3}
    TcpMaxDupAcks = 1
    MaxRetries = 1
    ReadDepth = 1
SPECIFICATION FairSpec

PROPERTY SynSent
CHECK_DEADLOCK FALSE
