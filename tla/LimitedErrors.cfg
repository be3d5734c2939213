SPECIFICATION JobsFairSpec
CONSTANTS
  Clients = {c1, c2}
  Jobs = {j1, j2}
  Recorders = {j1, j2}
  None = None
  NestedModes = {"blocking", "nonblocking"}
  Size = 1
INVARIANTS
  JobsTypeOK
  WaitMeansDone
  ErrorsComplete
PROPERTIES
  SubmitReturns
  ErrorsStay
  Implements
\* Once every job has been submitted and the pool is closed nothing is left.
CHECK_DEADLOCK FALSE
