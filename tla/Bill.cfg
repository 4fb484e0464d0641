SPECIFICATION Spec
CONSTANTS
  Entries <- MCEntries
  Discounts <- MCDiscounts
  LuxuryPct = 2
  VatPct = 13
  MaxLines = 2
INVARIANTS TotalIsRoundedUp ColumnsAddUp ShownAsEntered
CHECK_DEADLOCK FALSE
