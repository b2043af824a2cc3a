SPECIFICATION Spec
CONSTANTS
  Callers = {c1}
  FailureThreshold = 2
  RecoveryTimeout = 1
  MaxRetries = 2
  MaxSeconds = 2
  Delays = {1, 3}
  Contexts = {ctx}
  NoContext = NoContext
INVARIANT
  ExpiredContextDropped
