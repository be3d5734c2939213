SPECIFICATION Spec
CONSTANTS
  Users = {u1, u2}
  Values = {a, b, c}
  None = None
  Settings <- NoFreelist
  Answers <- SomeAnswers
  Grower <- AnyAnswer
  MaxGets = 3
  MaxGrowths = 2
SYMMETRY Symmetry
INVARIANT
  NeverPanics
\* The bounds on Gets and growths stop the system.
CHECK_DEADLOCK FALSE
