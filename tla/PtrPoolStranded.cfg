SPECIFICATION Spec
CONSTANTS
  Users = {u1, u2}
  Values = {a, b, c}
  None = None
  Settings <- OnlyGrowing
  Answers <- SomeAnswers
  Grower <- LargerOnly
  MaxGets = 3
  MaxGrowths = 2
SYMMETRY Symmetry
INVARIANT
  NothingStranded
\* The bounds on Gets and growths stop the system.
CHECK_DEADLOCK FALSE
