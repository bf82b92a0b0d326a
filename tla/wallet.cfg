SPECIFICATION Spec
CONSTANTS
  Amounts = {1, 2, 3}
  Initials = {0, 1}
  KycThreshold = 2
  MaxPerDay = 2
  DailyLimit = 3
  MaxBalance = 4
  MaxPaid = 3
  MaxBoots = 1
  DbFails = TRUE
INVARIANTS
  MoneyIsConserved
  NewestRowIsTheBalance
  DailyLimitsHold
CHECK_DEADLOCK FALSE
