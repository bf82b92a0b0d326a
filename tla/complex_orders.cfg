SPECIFICATION ComplexSpec
CONSTANTS
  o1 = o1
  o2 = o2
  Orders <- MCOrders
  Requests <- MCRequests
  FillSizes = {1, 2}
  FillPrices = {2}
  LegsOf <- MCLegsOf
  OcoIds = {g1}
  Entries = {e1}
  Icebergs = {i1}
  Quantity = 3
  TakeProfit = 2
  DisplaySize = 2
  MaxSlices = 2
SYMMETRY Symmetry
INVARIANTS
  SiblingAtTheBrokerIsStopped
  ExitsMatchTheirEntry
PROPERTIES
  KeepsPromise
CHECK_DEADLOCK FALSE
