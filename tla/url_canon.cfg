SPECIFICATION Spec
CONSTANTS
  Families <- MCFamilies
  AuthorityLength = 9
  PathLength = 11
  AnyLength = 6
INVARIANTS
  
  ResolvesSegments
  
  Bare
CHECK_DEADLOCK FALSE
