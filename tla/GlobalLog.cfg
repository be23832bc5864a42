SPECIFICATION FairSpec
CONSTANTS
    u1 = u1
    u2 = u2
    u3 = u3
    Users <- MCUsers
INVARIANTS
    OpenWhileUsed
    NothingLeftOpen
PROPERTIES
    CallsReturn
CHECK_DEADLOCK FALSE
