SPECIFICATION FairSpec
CONSTANTS
  o1 = o1
  o2 = o2
  Orders <- MCOrders
  Requests <- MCRequests
  FillSizes <- MCFillSizes
  FillPrices <- MCFillPrices
INVARIANTS
  StatusMatchesFills
  AverageWithinLimit
  BookShowsWorkingOrders
PROPERTIES
  SubmissionResolves
CHECK_DEADLOCK FALSE
