SPECIFICATION FairSpec
CONSTANTS
  Clients = {c1}
  Jobs = {j1, j2, j3}
  None = None
  NestedModes = {"nonblocking"}
  Workers = {w1}
INVARIANTS
  TypeOK
  WaitMeansDone
  RunningAccounted
  NoPanic
PROPERTIES
  SubmitReturns
  WorkersExit
  Implements
\* Once every job has been submitted and the pool is closed nothing is left.
CHECK_DEADLOCK FALSE
