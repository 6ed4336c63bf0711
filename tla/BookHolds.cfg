SPECIFICATION Spec
CONSTANTS
  NumAccounts = 1
  NumHolds = 2
  NumRequests = 1
  MaxAmount = 2
  MaxLimit = 1
  MaxReversals = 1
  Owner <- OneOwner
  Minimum <- NoMinimum
INVARIANTS
  HoldsExact
  CaptureExact
  WithinFacility
