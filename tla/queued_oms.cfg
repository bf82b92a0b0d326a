SPECIFICATION FairSpec
CONSTANTS
  Orders = {o1, o2, o3}
  Workers = {w1, w2}
  QueueSize = 1
INVARIANTS
  NoOrderLost
  FillsAreRecorded
  StopLeavesOneEach
PROPERTIES
  SubmittedIsDecided
CHECK_DEADLOCK FALSE
