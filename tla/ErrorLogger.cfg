SPECIFICATION FairSpec
CONSTANTS
    t1 = t1
    t2 = t2
    Threads <- MCThreads
    Watched <- MCWatched
    Direct <- MCDirect
    MaxFiles = 2
    MaxCalls = 2
INVARIANTS
    NeverLogsUnset
    EntryWhole
    LogExclusive
PROPERTIES
    Served
CHECK_DEADLOCK FALSE
