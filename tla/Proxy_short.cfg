SPECIFICATION Spec
CONSTANTS
    c1 = c1
    c2 = c2
    Clients <- OneClient
    DeviceData <- Lookalike
    Blocks <- MCBlocks
    Geometries <- MCGeometries
    ShortRecv = TRUE
    MaxFaults = 2
    MaxLaunches = 2
    SectorsPerCluster = 3
    Mode = "emmc"
    PartitionOffset = 3
    PartitionSize = 5
    PartitionTypes <- RawOrEmpty
INVARIANTS
    OnlyLastSectorLost
CHECK_DEADLOCK FALSE
