SPECIFICATION FairSpec
CONSTANTS
  g24 = g24
  g22 = g22
  ag = ag
  u1 = u1
  u2 = u2
  cron = cron
  Metals <- MCMetals
  Gold <- MCGold
  Fine = g24
  Silver = ag
  Purity <- MCPurity
  Cron = cron
  Requests = {u1, cron}
  Days <- Weekend
  Typed <- None
  Bases <- Base5500000
  Overrides <- NoOverrides
  Percents <- None
  Discounted <- None
  Published <- ShownRates
  Pages <- SitePages
  MaxWrites = 1
  MaxManual = 1
INVARIANTS NoRepeatedFetch ReadAsPublished
PROPERTIES FetchEnds DayIsCovered
CHECK_DEADLOCK FALSE
