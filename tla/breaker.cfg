SPECIFICATION FairSpec
CONSTANTS
  Callers = {c1, c2, c3, c4}
  FailureThreshold = 3
  RecoveryTimeout = 3
INVARIANTS
  TypeOK
  StateMatchesCount
  SlotHeldByProbe
PROPERTIES
  AdmissionRespectsCooldown
  RecoversWithSeller
