CONSTANTS
    c0 = c0
    c1 = c1
    CPUs = {c0, c1}
    BSP = c0
    NENV = 2
    NBoot = 1
    GenMax = 2
    GenBound = 2
    Calls <- StatusCalls
    Careful <- NoCalls
    NULL = NULL
SPECIFICATION Spec
INVARIANTS CurrentExclusive
