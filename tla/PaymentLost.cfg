SPECIFICATION Spec
CONSTANTS
  i1 = i1
  i2 = i2
  b1 = b1
  b2 = b2
  b3 = b3
  t1 = t1
  Items <- OneItem
  Bills <- OneBill
  Trades <- None
  InShop <- OneItem
  TradeItems <- MCTradeItems
  Meltable <- None
  ManualStatuses <- None
  Weights <- OneWeight
  Totals <- Total2
  Differences <- Differences2
  Amounts <- Amounts12
  Requests = {r1, r2}
SYMMETRY RowSymmetry
INVARIANTS
  PaidIsReceived
CHECK_DEADLOCK FALSE
