SPECIFICATION Spec
CONSTANTS
  o1 = o1
  l1 = l1
  l2 = l2
  f1 = f1
  k1 = k1
  gold = gold
  t1 = t1
  Orders <- MCOrders
  Issues <- LinesAndFree
  Lines <- TwoLines
  Karigars <- MCKarigars
  Metals <- MCMetals
  Items <- NoItems
  Requests = {r1}
  OrderOf <- MCOrderOf
  MetalOf <- MCMetalOf
  KarigarOf <- MCKarigarOf
  Expected <- MCExpected
  MetalOfItem <- MCMetalOfItem
  WeightOf <- MCWeightOf
  ToleranceGram <- NullTolerance
  TolerancePct <- MCTolerancePct
  InitialBalance <- SomeBalance
  Resolutions <- CashOrCarry
  RawWeights <- Raw8
  AppliedWeights <- Apply02
  ActualWeights <- Actual18
  Eps = 1
  MaxReturns = 2
INVARIANTS
  HeldOnlyWhileDisputed
  BalanceMatchesLedger
CHECK_DEADLOCK FALSE
