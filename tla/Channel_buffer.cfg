SPECIFICATION Spec
CONSTANTS
    h1 = h1
    listener = listener
    Hooks <- MCOneHook
    Listener <- listener
INVARIANTS
    BufferSafe
CHECK_DEADLOCK FALSE
