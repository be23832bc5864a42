SPECIFICATION MCSpec
CONSTANTS
    VfsThread = {t1, t2}
    VfsWatched <- MCVfsWatched
    MaxVfsDepth = 3
    MaxVfsCalls = 4
    IoThread = {t1, t2}
    IoInstalls <- MCInstalls
    MaxIoDepth = 3
    MaxIoCalls = 4
    RingThread = {t1, t2}
    DEVICE_INFO_SIZE = 2
    MOUNT_COPYS_SIZE = 3
    MaxRingCalls = 7
SYMMETRY MCSymmetry
INVARIANTS
    GuardNotStuck
    NoRecursion
    GateHeld
    NothingMissed
    BlamesOwnCall
    KeepsLast
CHECK_DEADLOCK FALSE
