SPECIFICATION Spec
CONSTANTS
  PositionIds = {p1}
  Balances = {97, 98, 100}
  DailyDrawdown = 3
  MaxLosses = 1
  MaxOrders = 2
  Cooldown = 3
  TestPeriod = 1
  MaxHalvings = 2
  MaxBoots = 1
  OperatorOverrides = TRUE
  BrokerRaises = TRUE
INVARIANTS
  OneRecoveryPerHalt
  OwnCheckOnly
CHECK_DEADLOCK FALSE
