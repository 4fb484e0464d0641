SPECIFICATION Spec
CONSTANTS
  i1 = i1
  i2 = i2
  b1 = b1
  b2 = b2
  b3 = b3
  t1 = t1
  Items <- TwoItems
  Bills <- TwoBills
  Trades <- OneTrade
  InShop <- OneItem
  TradeItems <- MCTradeItems
  Meltable <- None
  ManualStatuses <- ByHand
  Weights <- TwoWeights
  Totals <- Total2
  Differences <- Differences2
  Amounts <- Amounts14
  Requests = {r1}
SYMMETRY RowSymmetry
INVARIANTS
  PaidIsReceived
  SoldAsWeighed
  LedgerNets
  
PROPERTIES
  SoldOnlyLeavesByReturn
  NoInstalmentOverpays
CHECK_DEADLOCK FALSE
