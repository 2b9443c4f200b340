CONSTANTS
    MAX_SESSIONS = 2
    Depth = 2
    PacketKind <- Kind
    TasiSession <- NoSession
    TimerSession <- OneSession
SPECIFICATION Spec
INVARIANTS TypeOK LockExclusion SnapshotsCurrent
PROPERTIES NoResurrection FinIsFinal AtomicUpdates
