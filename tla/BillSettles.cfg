SPECIFICATION Spec
CONSTANTS
  i1 = i1
  i2 = i2
  Source <- OwnAccount
  Amount <- Ones
  Fee <- Ones
  NumPayments = 2
  NumAccounts = 2
  Instances <- OneInstance
  Funds = 2
  BatchSize = 1
  MaxFaults = 1
  ClockJumps = TRUE
PROPERTIES
  KeepsPromise
  Settles
CHECK_DEADLOCK FALSE
