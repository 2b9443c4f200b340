CONSTANTS
    MAX_SESSIONS = 1
    Depth = 2
    TimerDepth = 1
    Retries = 1
    PacketKind = {"SYN", "SYN_ACK", "ACK", "FIN_ACK"}
SPECIFICATION FairSpec
INVARIANTS TypeOK TimeWaitTimed IdsComeBack
PROPERTIES OpenedOnAsking TimeWaitEnds RetransmissionsEnd
