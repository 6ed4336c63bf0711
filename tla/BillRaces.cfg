SPECIFICATION Spec
CONSTANTS
  i1 = i1
  i2 = i2
  Source <- OwnAccount
  Amount <- Ones
  Fee <- Ones
  NumPayments = 2
  NumAccounts = 1
  Instances <- TwoInstances
  Funds = 2
  BatchSize = 1
  MaxFaults = 1
  ClockJumps = TRUE
INVARIANTS
  TypeOK
  EntriesMatchStatus
  InFlightExact
  SubmittedOnce
SYMMETRY Replicas
CHECK_DEADLOCK FALSE
