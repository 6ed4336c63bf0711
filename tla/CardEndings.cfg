SPECIFICATION Spec
CONSTANTS
  s1 = s1
  s2 = s2
  Sweepers <- OneCaller
  NumAuths = 1
  Funds = 3
  MaxAmount = 2
  DailyLimit = 3
  MaxIncrements = 1
  Crashes = FALSE
INVARIANTS
  EndedGivesHoldBack
CHECK_DEADLOCK FALSE
