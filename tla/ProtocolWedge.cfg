SPECIFICATION FairSpec
CONSTANTS
    MaxPacket = 7
    LongData = 3
    PentairEnabled = TRUE
    Capacity = 14
    ReadChunk = 9
    SingleRead = FALSE
    WriteSize = 2
    Traffic <- CleanTraffic
    SplitMarkers = FALSE
    PortFaults = FALSE
    PortCap = 15
    MaxFrames = 0
    Endless = TRUE
    MaxWrites = 0
PROPERTY
    FullBufferDrains
