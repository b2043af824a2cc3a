SPECIFICATION FairSpec
CONSTANTS
  u = u
  uSlash = uSlash
  Urls = {u, uSlash}
  Bare <- MCBare
  Site <- MCSite
  NoUrl = NoUrl
  Configured = {}
  Registries = 1
  ForcedMode = "auto"
  OperatorToken = TRUE
  Callers = {c1, c2}
  Brands = {b1}
  a1 = a1
  a2 = a2
  c1 = c1
  c2 = c2
  Tasks <- MCTasks
  Ids = {a1, a2}
  Offers <- MCOffers
  Listings <- MCListings
  Echoed = {"timezone"}
  Configurable = {}
  Sandbox = FALSE
  AutoProvision = TRUE
  Pinned = NoId
  MaxPages = 2
  MaxChanges = 1
  MaxDiscoveries = 0
  MaxCrashes = 1
  NoId = NoId
  NoAccount = NoAccount
  NoAgent = NoAgent
  NoCall = NoCall
  NoRef = NoRef
INVARIANTS
  TypeOK
  
  StoredAsSaid
  GrantRestsOnSeller
  
  UniqueChoice
PROPERTIES
  ActivatedGetsUsed
CHECK_DEADLOCK FALSE
