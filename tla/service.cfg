SPECIFICATION FairSpec
CONSTANTS
  Calls = {c1, c2, c3, c4}
  FailureThreshold = 3
  SuccessThreshold = 2
  MaxProbes = 2
  Timeout = 2
INVARIANTS
  ProbesBounded
  TestCanGoOn
PROPERTIES
  RecoveryIsTried
  TestIsDecided
CHECK_DEADLOCK FALSE
