SPECIFICATION Spec
CONSTANTS
  Messages = {m1, m2}
  Ids = {1, 2}
  Consumers = {c1, c2}
  Claimers = {k1, k2}
  BatchSize = 2
  MaxLen = 1
  MaxDead = 1
SYMMETRY Alike
INVARIANTS
  NoMessageLost
  HandledAtMostOnce
  ClaimedByOne
CHECK_DEADLOCK FALSE
