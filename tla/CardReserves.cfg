SPECIFICATION Spec
CONSTANTS
  s1 = s1
  s2 = s2
  Sweepers <- TwoCallers
  NumAuths = 2
  Funds = 3
  MaxAmount = 2
  DailyLimit = 3
  MaxIncrements = 1
  Crashes = TRUE
INVARIANTS
  TypeOK
  ReserveExact
  HoldTotalExact
  ChargedExact
  ReserveCovered
PROPERTIES
  EndingStands
SYMMETRY Callers
CHECK_DEADLOCK FALSE
