SPECIFICATION Spec
CONSTANTS
  i1 = i1
  i2 = i2
  Source <- OwnAccount
  Amount <- Ones
  Fee <- Ones
  NumPayments = 1
  NumAccounts = 1
  Instances <- OneInstance
  Funds = 1
  BatchSize = 1
  MaxFaults = 0
  ClockJumps = FALSE
INVARIANTS
  AcceptedStands
CHECK_DEADLOCK FALSE
