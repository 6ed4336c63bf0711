SPECIFICATION Spec
CONSTANTS
  m1 = m1
  w1 = w1
  w2 = w2
  r1 = r1
  r2 = r2
  n1 = n1
  n2 = n2
  g1 = g1
  s1 = s1
  s2 = s2
  e1 = e1
  e2 = e2
  e3 = e3
  genesis = genesis
  p1 = p1
  h1 = h1
  h2 = h2
  d1 = d1
  d2 = d2
  c1 = c1
  c2 = c2
  k1 = k1
  k2 = k2
  v1 = v1
  v2 = v2
  a1 = a1
  a2 = a2
  MaxDay = 3
  MaxFunds = 2
  MaxHeld = 1
  Customers = {{"deposits"}}
  MandateIds <- OneMandate
  Asks = {1, 2}
  Collectors <- TwoCollectors
  FixedAmount <- FixedNone
  MaxAmount <- UpToTwo
  Frequency <- EveryDay
  Notice = 1
  Guarantee = 1
  MaxCollections = 2
  Requests <- TwoRequests
  RequestAmount <- OneAndTwo
  RequestLife = 2
  MaxNudges = 2
  Reminders <- TwoReminders
  Goals <- OneGoal
  Savers <- TwoSavers
  Contributions = {1}
  SavePeriod = 2
  MaxMovements = 2
  Disputed <- OneDisputed
  DisputedAmount <- OneOff
  MerchantDays = 1
  Handlers <- TwoHandlers
  Deposits <- TwoDeposits
  Principal <- Ones
  Yield = 1
  Term = 1
  Clerks <- TwoClerks
  Events <- ThreeEvents
  Genesis = genesis
  MaxAppends = 2
  VerifyBatch = 2
  Charges <- TwoCharges
  Assessors <- TwoAssessors
  Fee <- OneEach
  FreePerMonth = 1
  DaysInMonth = 2
  Accruers <- TwoAccruers
  Increment <- TwoThirds
  Unit = 3
  DaysInPeriod = 2
INVARIANTS
  EveryDepositFunded
CHECK_DEADLOCK FALSE
