CONSTANTS
    c0 = c0
    c1 = c1
    CPUs = {c0, c1}
    BSP = c0
    NENV = 3
    NBoot = 2
    GenMax = 2
    GenBound = 2
    Calls <- PeacefulCalls
    Careful <- AllCalls
    NULL = NULL
SPECIFICATION FairSpec
PROPERTIES NoStarvation BootCompletes
