SPECIFICATION Spec
CONSTANTS
  Clients = {c1, c2}
  Jobs = {j1, j2, j3}
  None = None
  NestedModes = {}
  Size = 1
SYMMETRY Symmetry
INVARIANT
  HardLimit
\* Once every job has been submitted and the pool is closed nothing is left.
CHECK_DEADLOCK FALSE
