SPECIFICATION LiveSpec
CONSTANTS
  c1 = c1
  c2 = c2
  a1 = a1
  a2 = a2
  Callers <- Calls
  Accounts <- Book
  Touches <- Overlap
  MaxAttempts = 2
  CommitAttempts = 2
  MaxVersion = 1
  Faults = TRUE
INVARIANTS
  AppliedOnce
PROPERTIES
  Answered
  WorksAtOnce
CHECK_DEADLOCK FALSE
