SPECIFICATION Spec
CONSTANTS
  s1 = s1
  himal = himal
  p1 = p1
  p2 = p2
  gold = gold
  silver = silver
  r1 = r1
  r2 = r2
  Suppliers = {s1}
  NameOf <- OneName
  Orders = {p1, p2}
  Metals = {gold, silver}
  Newest = {}
  Brought = {gold}
  RateOf <- MCRateOf
  Drafts <- TwoLines
  Sheet <- MCSheet
  Sheets = {himal}
  Receipts <- OneReceipt
  Requests = {r1, r2}
  Parts = 2
  MaxItems = 4
INVARIANTS TotalNearSum StockedOnceUnlessOverlapped NumbersContiguous
CHECK_DEADLOCK FALSE
SYMMETRY Both
