SPECIFICATION Spec
CONSTANTS
  Users = {u1, u2}
  Buffers = {a, b, c}
  None = None
  Settings <- BothPlaces
  Requests = {1}
  Capacities = {1}
INVARIANTS
  OverflowOnly
CHECK_DEADLOCK FALSE
