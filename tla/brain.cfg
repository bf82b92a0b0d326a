SPECIFICATION FairSpec
CONSTANTS
  MaxOrders = 2
  Calls = {e1}
  MaxSignals = 1
  Threshold = 2
  MaxFailures = 10
  Attempts = 2
INVARIANTS
  StopLeavesAtMostABatch
PROPERTIES
  TradingEndsWithItsBatch
  StopEndsTheLoop
  BreakerIsTriedAgain
CHECK_DEADLOCK FALSE
