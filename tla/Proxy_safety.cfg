SPECIFICATION Spec
SYMMETRY Symmetry
CONSTANTS
    c1 = c1
    c2 = c2
    Clients <- TwoClients
    DeviceData <- Distinct
    Blocks <- MCBlocks
    Geometries <- MCGeometries
    ShortRecv = FALSE
    MaxFaults = 2
    MaxLaunches = 2
    SectorsPerCluster = 2
    Mode = "gc"
    PartitionOffset = 2
    PartitionSize = 3
    PartitionTypes <- RawOrEmpty
INVARIANTS
    DumpFaithful
    OwnPool
    CopiesFit
    CleanAfterSuccess
CHECK_DEADLOCK FALSE
