SPECIFICATION Spec
CONSTANTS
  NumAccounts = 2
  NumHolds = 1
  NumRequests = 2
  MaxAmount = 2
  MaxLimit = 0
  MaxReversals = 1
  Owner <- OneOwner
  Minimum <- SecondHasMinimum
INVARIANTS
  AvailabilityExact
  ControlExact
  JournalExplains
  BookedOnce
  ReversalExact
PROPERTIES
  FrozenAndClosedStand
  KeepsPromise
