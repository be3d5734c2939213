SPECIFICATION Spec
CONSTANTS
  Users = {u1, u2}
  Buffers = {a, b, c, d}
  None = None
  Settings <- OnePlaceSettings
  Requests = {1, 3, 4}
  Capacities = {1, 2, 4}
SYMMETRY Symmetry
INVARIANTS
  TypeOK
  Exclusive
  AtLeast
  SlicesFull
  MaxSizeKept
  NotDrained
PROPERTIES
  Implements
\* In a small DisallowAlloc store that has run dry every Get waits for ever.
CHECK_DEADLOCK FALSE
