SPECIFICATION Spec
CONSTANTS
  Users = {u1, u2}
  Values = {a, b, c}
  None = None
  Settings <- AllSettings
  Answers <- SomeAnswers
  Grower <- AnyAnswer
  MaxGets = 3
  MaxGrowths = 2
SYMMETRY Symmetry
INVARIANTS
  TypeOK
  Exclusive
  CleanWhenStored
  InUseExact
  EveryGetCountedOnce
  CapacityInBounds
  FixedPopulation
PROPERTIES
  Implements
\* The bounds on Gets and growths stop the system.
CHECK_DEADLOCK FALSE
