SPECIFICATION BasicFairSpec
CONSTANTS
  Users = {u1, u2}
  Values = {a, b}
  None = None
  Settings <- FairAndBasic
  BasicSettings <- WithBasic
  Secs = 2
  Answers <- BasicAnswers
  Grower <- AnyAnswer
  MaxGets = 2
  MaxGrowths = 2
INVARIANTS
  GrowthAccounted
PROPERTIES
  GetReturns
  GrowerStops
  IdleShrinks
\* The bounds on Gets and growths stop the system.
CHECK_DEADLOCK FALSE
