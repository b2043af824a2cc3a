SPECIFICATION Spec
CONSTANTS
  u = u
  uSlash = uSlash
  Urls = {u, uSlash}
  Bare <- MCBare
  Site <- MCSite
  NoUrl = NoUrl
  Configured = {}
  Registries = 1
  ForcedMode = "auto"
  OperatorToken = TRUE
  Callers = {c1, c2}
  Brands = {b1}
  a1 = a1
  a2 = a2
  c1 = c1
  c2 = c2
  Tasks <- MCTasks
  Ids = {a1, a2}
  Offers <- MCOffers
  Listings <- MCListings
  Echoed = {}
  Configurable = {}
  Sandbox = FALSE
  AutoProvision = TRUE
  Pinned = a1
  MaxPages = 3
  MaxChanges = 1
  MaxDiscoveries = 1
  MaxCrashes = 0
  NoId = NoId
  NoAccount = NoAccount
  NoAgent = NoAgent
  NoCall = NoCall
  NoRef = NoRef
PROPERTIES
  AccountMatchesCredential
CHECK_DEADLOCK FALSE
