SPECIFICATION FairSpec
CONSTANTS
    c1 = c1
    c2 = c2
    Clients <- TwoClients
    DeviceData <- Distinct
    Blocks <- MCBlocks
    Geometries <- MCGeometries
    ShortRecv = FALSE
    MaxFaults = 1
    MaxLaunches = 1
    SectorsPerCluster = 2
    Mode = "ms"
    PartitionOffset = 2
    PartitionSize = 3
    PartitionTypes <- Raw
PROPERTIES
    DumpsSucceed
    EndsOrSpins
    Implements
CHECK_DEADLOCK FALSE
