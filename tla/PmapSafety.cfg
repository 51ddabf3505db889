CONSTANTS
    e1 = e1
    e2 = e2
    p1 = p1
    p2 = p2
    p3 = p3
    p4 = p4
    p5 = p5
    Envs = {e1, e2}
    Pages = {p1, p2, p3, p4, p5}
    ZeroPage = ZeroPage
    EnvsPage = EnvsPage
    PDs <- OneTable
    VAs <- TwoVAs
    UTOP = UTOP
    KMEM = KMEM
    RefMod = 12
    NCPU = 2
    Perms <- WriteOnly
    Touched = {}
    RemoteCalls = FALSE
    NULL = NULL
SYMMETRY Symmetry
CHECK_DEADLOCK FALSE
SPECIFICATION Spec
INVARIANTS TypeOK RefExact NoLeak TreeOK
