CONSTANTS
    s0 = s0
    s1 = s1
    Zero = s0
    Sessions <- TwoSessions
    COUNTERS = 4
    DelayTicks = 2
    Depth <- Places
    Inputs <- Scenarios
    Payloads <- ShortAndWrapped
    MaxSegments = 2
SPECIFICATION FairSpec
PROPERTIES EventsApart PacketsInOrder AllSent AcksHandledUnlessStray
CHECK_DEADLOCK FALSE
