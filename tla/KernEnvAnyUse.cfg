CONSTANTS
    c0 = c0
    c1 = c1
    CPUs = {c0, c1}
    BSP = c0
    NENV = 2
    NBoot = 2
    GenMax = 2
    GenBound = 3
    Calls <- AllCalls
    Careful <- NoCalls
    NULL = NULL
SPECIFICATION Spec
INVARIANTS TypeOK LockHolder HaltedFlag
