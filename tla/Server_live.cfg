SPECIFICATION FairSpec
CONSTANTS
    c1 = c1
    Clients <- OneClient
    DeviceData <- Zeros
    Blocks <- MCBlocks
    Geometries <- TwoGeometries
    Families <- AllFamilies
    ShortRecv = TRUE
    MaxFaults = 1
    MaxLaunches = 2
    MaxRequests = 2
PROPERTIES ServerLetsGo
CHECK_DEADLOCK FALSE
