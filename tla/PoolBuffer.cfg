SPECIFICATION FairSpec
CONSTANTS
  p1 = p1
  p2 = p2
  PoolBuffers = {p1, p2}
  Scenarios <- All
  MinRead = 2
  UTFMax = 3
INVARIANTS
  TypeOK
  ContentKept
  GrowKept
  GrowthBounded
  NoOverflow
  StockKept
PROPERTIES
  CallsEnd
