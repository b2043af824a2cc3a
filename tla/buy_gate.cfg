SPECIFICATION FairSpec
CONSTANTS
  Callers = {c1, c2}
  Operator = Operator
  Seller = Seller
  AnyBrand = AnyBrand
  NoBrand = NoBrand
  NoDomain = NoDomain
  NoDoc = NoDoc
  NoEntry = NoEntry
  NoProduct = NoProduct
  NoFetch = NoFetch
  NoRequest = NoRequest
  Leaf = Leaf
  House = House
  Publisher = Publisher
  Location = Location
  p1 = p1
  p2 = p2
  i1 = i1
  i2 = i2
  w1 = w1
  Products = {p1, p2}
  Windows = {w1}
  Countries = {}
  Placements = {}
  PropertyIds = {i1, i2}
  Responses <- MCResponses
  Requests <- MCRequests
  Published <- MCPublished
  Ttl = 1
  NegativeTtl = 1
  FetchTimeout = 1
  LongestRoute = 2
  MaxChanges = 1
  SkipSellerCheck = FALSE
  SellerOptimizes = FALSE
INVARIANTS
  TypeOK
  EveryProductVerified
PROPERTIES
  
  ClaimsRecentlyGranted
  RefusalHeals
CHECK_DEADLOCK FALSE
