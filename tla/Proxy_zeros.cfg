SPECIFICATION Spec
CONSTANTS
    c1 = c1
    c2 = c2
    Clients <- OneClient
    DeviceData <- Distinct
    Blocks <- MCBlocks
    Geometries <- MCGeometries
    ShortRecv = TRUE
    MaxFaults = 0
    MaxLaunches = 1
    SectorsPerCluster = 3
    Mode = "emmc"
    PartitionOffset = 3
    PartitionSize = 5
    PartitionTypes <- Raw
INVARIANTS
    DumpFaithful
CHECK_DEADLOCK FALSE
