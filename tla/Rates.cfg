SPECIFICATION Spec
CONSTANTS
  g24 = g24
  g22 = g22
  ag = ag
  u1 = u1
  u2 = u2
  cron = cron
  Metals <- MCMetals
  Gold <- MCGold
  Fine = g24
  Silver = ag
  Purity <- MCPurity
  Cron = cron
  Requests = {u1, u2, cron}
  Days <- Saturday6
  Typed <- Typed2
  Bases <- Base1004
  Overrides <- MCOverrides
  Percents <- NoDiscount
  Discounted <- OnlySilver
  Published <- None
  Pages <- NoPages
  MaxWrites = 2
  MaxManual = 0
INVARIANTS OneCurrentRate NeverInverted
PROPERTIES ImplementsBook
CHECK_DEADLOCK FALSE
SYMMETRY Users
