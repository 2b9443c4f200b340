CONSTANTS
    MAX_SESSIONS = 1
    Depth = 2
    PacketKind <- OpeningKinds
    TasiSession <- OneSession
    TimerSession <- OneSession
SPECIFICATION FairSpec
PROPERTIES PacketsServed ClosesServed SendsServed
