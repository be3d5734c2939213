SPECIFICATION Spec
CONSTANTS
  Clients = {c1}
  Jobs = {j1, j2}
  None = None
  NestedModes = {}
  Workers = {w1}
SYMMETRY Symmetry
INVARIANT
  NonBlockingHasWorker
\* Once every job has been submitted and the pool is closed nothing is left.
CHECK_DEADLOCK FALSE
