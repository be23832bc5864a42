SPECIFICATION FairSpec
CONSTANTS
    h1 = h1
    listener = listener
    Hooks <- MCOneHook
    Listener <- listener
INVARIANTS
    SendsOnAccepted
    NoSocketLost
    GuardedMessagesWhole
PROPERTIES
    StopNeedsNoClient
CHECK_DEADLOCK FALSE
