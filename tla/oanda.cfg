SPECIFICATION FairSpec
CONSTANTS
  Callers = {c1, c2}
  Orders = {o1}
  Positions = {p1}
  p1 = p1
  Leg <- OneLeg
  Slots = 1
  Retries = 2
  TTL = 1
  Timeout = 1
INVARIANTS
  ExecutionsBounded
  OldPositionsAreAnswered
PROPERTIES
  CallsEnd
CHECK_DEADLOCK FALSE
