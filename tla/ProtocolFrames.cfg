SPECIFICATION FairSpec
CONSTANTS
    MaxPacket = 12
    LongData = 3
    PentairEnabled = TRUE
    Capacity = 18
    ReadChunk = 6
    SingleRead = FALSE
    WriteSize = 2
    Traffic <- NoisyTraffic
    SplitMarkers = FALSE
    PortFaults = FALSE
    PortCap = 12
    MaxFrames = 3
    Endless = FALSE
    MaxWrites = 1
INVARIANTS
    FramesSurvive
PROPERTIES
    AllDispatched
