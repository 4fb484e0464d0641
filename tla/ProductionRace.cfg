SPECIFICATION Spec
CONSTANTS
  o1 = o1
  l1 = l1
  l2 = l2
  f1 = f1
  k1 = k1
  gold = gold
  t1 = t1
  Orders <- MCOrders
  Issues <- TwoLines
  Lines <- TwoLines
  Karigars <- MCKarigars
  Metals <- MCMetals
  Items <- OneItem
  Requests = {r1, r2}
  OrderOf <- MCOrderOf
  MetalOf <- MCMetalOf
  KarigarOf <- MCKarigarOf
  Expected <- MCExpected
  MetalOfItem <- MCMetalOfItem
  WeightOf <- MCWeightOf
  ToleranceGram <- MCToleranceGram
  TolerancePct <- MCTolerancePct
  InitialBalance <- ZeroBalance
  Resolutions <- Carry
  RawWeights <- Raw8
  AppliedWeights <- Apply0
  ActualWeights <- Actual18
  Eps = 1
  MaxReturns = 2
SYMMETRY RequestSymmetry
INVARIANTS
  AuditInv
  StockMatchesWeighIn
  OneReturnPerIssue
  NotForSaleWhileDisputed
  DisputeIsTheDeficit
  MissingMetalIsAccounted
  PoolMatchesLines
  MeltedOnce
PROPERTIES
  ApprovalIsFinal
  DisputeIsKept
  ImplementsLifecycle
CHECK_DEADLOCK FALSE
