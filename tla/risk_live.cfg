SPECIFICATION FairSpec
CONSTANTS
  PositionIds = {p1, p2}
  Balances = {97, 98, 100}
  DailyDrawdown = 3
  MaxLosses = 1
  MaxOrders = 2
  Cooldown = 3
  TestPeriod = 1
  MaxHalvings = 2
  MaxBoots = 0
  OperatorOverrides = FALSE
  BrokerRaises = FALSE
INVARIANTS
  HaltFlattensOrAlerts
PROPERTIES
  HaltEnds
  TestEnds
CHECK_DEADLOCK FALSE
