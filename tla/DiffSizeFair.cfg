SPECIFICATION FairSpec
CONSTANTS
  Users = {u1, u2}
  Buffers = {a, b, c, d}
  None = None
  Settings <- FairSettings
  Requests = {1, 3}
  Capacities = {4}
PROPERTIES
  GetReturns
\* In a small DisallowAlloc store that has run dry every Get waits for ever.
CHECK_DEADLOCK FALSE
