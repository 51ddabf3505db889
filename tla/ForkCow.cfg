SPECIFICATION Spec
CONSTANTS
  r = r
  c1 = c1
  c2 = c2
  Root = r
  Envs = {r, c1, c2}
  Pages = {p1, p2, p3, p4, p5}
  UTEMP = 0
  PFTEMP = 1
  Text = {2}
  Data = {}
  Shared = {4}
  Stack = 5
  Values = {0, 1}
  NULL = NULL
SYMMETRY BothSymmetries
INVARIANTS TypeOK NoWritableAlias CanFault
PROPERTIES ImplementsForkMemory
CHECK_DEADLOCK FALSE
