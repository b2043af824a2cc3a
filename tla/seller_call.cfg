SPECIFICATION FairSpec
CONSTANTS
  Callers = {c1, c2}
  FailureThreshold = 2
  RecoveryTimeout = 2
  MaxRetries = 2
  MaxSeconds = 2
  Delays = {1, 3}
  Contexts = {}
  NoContext = NoContext
INVARIANTS
  TypeOK
  SendCeiling
  SleepWithinBudget
  BlindResendOnlyAfterExpiry
PROPERTIES
  UsesBreaker
  CallsEnd
