SPECIFICATION Spec
CONSTANTS
    WORD = 4
    Depth <- Places
    Inputs <- Inputs1
    Hosts <- Hosts4
    MaxLost = 1
INVARIANTS
    PacketsSorted
    FramesAddressed
    RetryGetsThrough
