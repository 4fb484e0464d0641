SPECIFICATION Spec
CONSTANTS
  ring = ring
  chain = chain
  g22 = g22
  r1 = r1
  r2 = r2
  Names = {ring, chain}
  Codes = {1, 2}
  Metals <- OneMetal
  Suffix <- MCSuffix
  Edits <- MCEdits
  Sheets <- MCSheets
  Requests = {r1, r2}
  MaxSerial = 4
  MaxAttempts = 2
INVARIANTS NumbersGapless
PROPERTIES StuckForGood
CHECK_DEADLOCK FALSE
SYMMETRY Both
