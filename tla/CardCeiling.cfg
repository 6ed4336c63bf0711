SPECIFICATION Spec
CONSTANTS
  s1 = s1
  s2 = s2
  Sweepers <- OneCaller
  NumAuths = 2
  Funds = 4
  MaxAmount = 2
  DailyLimit = 2
  MaxIncrements = 0
  Crashes = FALSE
INVARIANTS
  WithinCeiling
CHECK_DEADLOCK FALSE
