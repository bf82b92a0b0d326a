SPECIFICATION FairBulkheadSpec
CONSTANTS
  Tasks = {c1, c2, c3, c4}
  MaxConcurrent = 2
  MaxQueue = 3
  MaxLost = 2
INVARIANTS
  CountsAddUp
PROPERTIES
  EveryPlaceGetsASlot
CHECK_DEADLOCK FALSE
