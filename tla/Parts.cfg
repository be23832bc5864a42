SPECIFICATION MCSpec
CONSTANTS
    DeviceData <- MCData
    Blocks <- MCBlocks
    Geometries <- MCGeometries
    SectorsPerCluster = 4
    MaxSector = 24
    MOD_LIST_SIZE = 2
    SegmentsPerModule = 2
    MaxVaddr = 4
    MaxSortLength = 9
    Keys <- MCKeys
    LongLengths <- MCLongLengths
    Strides <- MCStrides
INVARIANTS
    DriverType
    KernelPoolBacked
    KernelPoolAccounted
    StoppedHoldsNothing
    OneToOne
    OnlyClustersShift
    ListsAgree
    TableExact
    TraceRight
    Sorts
CHECK_DEADLOCK FALSE
