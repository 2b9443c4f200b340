CONSTANTS
    WORD = 4
    SPACE = 16
    Depth <- Places
    Starts <- NearTheEnd
    Pushes <- Sends
    MaxSegments = 2
SPECIFICATION Spec
INVARIANTS AccessExact SegmentsIntactUnlessFilled
