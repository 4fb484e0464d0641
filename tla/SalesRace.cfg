SPECIFICATION Spec
CONSTANTS
  i1 = i1
  i2 = i2
  b1 = b1
  b2 = b2
  b3 = b3
  t1 = t1
  Items <- TwoItems
  Bills <- ThreeBills
  Trades <- None
  InShop <- TwoItems
  TradeItems <- MCTradeItems
  Meltable <- OneItem
  ManualStatuses <- None
  Weights <- OneWeight
  Totals <- Total2
  Differences <- Difference2
  Amounts <- Amounts2
  Requests = {r1, r2}
SYMMETRY RowSymmetry
INVARIANTS
  LinesMatchStatus
PROPERTIES
  ImplementsCustody
CHECK_DEADLOCK FALSE
