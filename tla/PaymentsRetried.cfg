SPECIFICATION Spec
CONSTANTS
  c1 = c1
  c2 = c2
  k1 = k1
  k2 = k2
  Calls <- TwoCalls
  Keys <- TwoKeys
  Bodies <- AllQuotes
  NumQuotes = 3
  Amount <- TwoOneOne
  Funds = 3
  Ttl = 2
  DayLength = 1
  MonthLength = 2
  MaxTime = 3
  PerTransaction = 2
  DailyAmount = 2
  DailyCount = 1
  MonthlyAmount = 2
INVARIANTS
  TypeOK
  TransferOnce
  LimitsHeld
  AnswersTrue
  OneHandler
PROPERTIES
  KeepsPromise
SYMMETRY Alike
CHECK_DEADLOCK FALSE
