SPECIFICATION Spec
CONSTANTS
    c1 = c1
    Clients <- OneClient
    DeviceData <- Zeros
    Blocks <- MCBlocks
    Geometries <- TwoGeometries
    Families <- TwoFamilies
    ShortRecv = TRUE
    MaxFaults = 1
    MaxLaunches = 2
    MaxRequests = 3
INVARIANTS
    UserPoolBacked
    PoolsInStep
    SocketsClosed
    CommandsInStep
CHECK_DEADLOCK FALSE
