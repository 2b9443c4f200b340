CONSTANTS
    WORD = 4
    SPACE = 8
    Depth <- Places
    Starts <- NearTheEnd
    Inputs <- Sequences
    MaxPending = 2
SPECIFICATION Spec
INVARIANTS PayloadIntactUnlessOvertaken AcknowledgedDeliveredUnlessOvertaken
