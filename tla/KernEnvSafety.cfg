CONSTANTS
    c0 = c0
    c1 = c1
    CPUs = {c0, c1}
    BSP = c0
    NENV = 3
    NBoot = 2
    GenMax = 3
    GenBound = 2
    Calls <- AllCalls
    Careful <- AllCalls
    NULL = NULL
SPECIFICATION Spec
INVARIANTS CurrentExclusive RunningIsCurrent Cr3Live FreeListExact ParentIdSound RecvingBlocked
PROPERTIES ZombieFreedByItsCpu
