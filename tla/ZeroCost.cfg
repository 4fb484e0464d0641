SPECIFICATION Spec
CONSTANTS
  s1 = s1
  himal = himal
  p1 = p1
  p2 = p2
  gold = gold
  silver = silver
  r1 = r1
  r2 = r2
  Suppliers = {s1}
  NameOf <- OneName
  Orders = {p1}
  Metals = {gold, silver}
  Newest = {gold, silver}
  Brought = {gold, silver}
  RateOf <- MCRateOf
  Drafts <- MCDrafts
  Sheet <- MCSheet
  Sheets = {himal}
  Receipts <- MCReceipts
  Requests = {r1}
  Parts = 2
  MaxItems = 2
INVARIANTS CostIsKnown
CHECK_DEADLOCK FALSE
