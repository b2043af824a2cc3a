---------------------------- MODULE BuyGateProofs ----------------------------
(***************************************************************************)
(* Type correctness of the gate, and that no request gets through it with  *)
(* a product whose claims were not verified, for any documents, products,  *)
(* lifetimes and number of concurrent buys.                                *)
(***************************************************************************)
EXTENDS BuyGate, TLAPS

-----------------------------------------------------------------------------
(* The inductive invariant *)

World ==
  /\ origin = [d \in Domains |-> origin[d]]
  /\ \A d \in Domains : origin[d] \in Published[d]
  /\ age = [d \in Domains |-> age[d]]
  /\ \A d \in Domains : age[d] \in [Published[d] -> 0 .. Recent + 1]
  /\ changes \in 0 .. MaxChanges
  /\ windows \in [Windows -> {"before", "open", "after"}]
  /\ known \in [Products -> RawProducts \cup {NoProduct}]

\* Entries live as long as a lifetime allows.
IsCache(cache, keys) ==
  /\ cache = [k \in keys |-> cache[k]]
  /\ \A k \in keys : cache[k] # NoEntry =>
       /\ cache[k] = [left |-> cache[k].left, value |-> cache[k].value]
       /\ cache[k].left \in Lifetimes

Caches == IsCache(brands, Queries) /\ IsCache(agents, Domains)

Coroutines ==
  /\ pc \in [Callers -> {"idle", "operator", "fetching", "products", "claims",
                         "account", "ready"}]
  /\ request \in [Callers -> Requests \cup {NoRequest}]
  /\ fetch \in [Callers -> Fetches \cup {NoFetch}]
  /\ hops \in [Callers -> 0 .. MaxDocumentHops + 1]
  /\ held = [c \in Callers |-> held[c]]
  /\ todo \in [Callers -> SUBSET Products]
  /\ raw \in [Callers -> RawProducts \cup {NoProduct}]
  /\ claims \in [Callers -> SUBSET Claims]
  /\ passed \in [Callers -> SUBSET (RawProducts \X Claims)]

\* Whoever buys has a request, and whoever fetches a fetch.
Busy(c) ==
  /\ pc[c] # "idle" => request[c] \in Requests
  /\ pc[c] = "fetching" => fetch[c] \in Fetches

Loading(c) == pc[c] = "fetching" /\ fetch[c].stage \in {"publisher", "location"}

\* While a product is verified, the claims that are left are some of its own,
\* and the others are verified.
Checking(c) ==
  /\ pc[c] = "claims" \/ Loading(c) =>
       /\ raw[c] \in RawProducts
       /\ claims[c] # {} /\ claims[c] \subseteq raw[c].claims
       /\ {raw[c]} \X (raw[c].claims \ claims[c]) \subseteq passed[c]
  /\ Loading(c) => held[c] \in claims[c]

Verified(c, p) ==
  \E product \in {x \in RawProducts : x.id = p /\ x.claims # {}} :
    {product} \X product.claims \subseteq passed[c]

\* Past the operator's check, a product is yet to be verified, or it is.
Covered(c) ==
  /\ pc[c] \in {"products", "claims", "account", "ready"} \/ Loading(c) =>
       SkipSellerCheck \/ \A p \in Packages(request[c]) : p \in todo[c] \/ Verified(c, p)
  /\ pc[c] \in {"account", "ready"} => todo[c] = {}

Sound(c) == Busy(c) /\ Checking(c) /\ Covered(c)

IInv == World /\ Caches /\ Coroutines /\ \A c \in Callers : Sound(c)

-----------------------------------------------------------------------------
(* Data *)

LEMMA RecentIsNat == Recent \in Nat
  <1>1. LongestRoute * FetchTimeout \in Nat
    BY GateAssumption
  <1> QED
    BY <1>1, GateAssumption DEF Recent

LEMMA PackagesAreProducts ==
  ASSUME NEW r \in Requests
  PROVE  Packages(r) \subseteq Products
  <1>1. r.packages \subseteq Products /\ r.product \in Products
    BY InputAssumption
  <1> QED
    BY <1>1 DEF Packages

LEMMA ClaimsOfProducts ==
  ASSUME NEW x \in RawProducts
  PROVE  x.claims \subseteq Claims /\ x.id \in Products
  BY InputAssumption

LEMMA QueryIsKnown ==
  ASSUME NEW c \in Callers, request[c] \in Requests
  PROVE  /\ QueryOf(c) \in Queries
         /\ QueryOf(c).domain \in Domains \cup {Operator}
  <1>1. request[c].brand \in BrandRefs
    BY InputAssumption
  <1>2. QueryOf(c).domain \in Domains \cup {Operator}
    BY <1>1 DEF QueryOf, BrandRefs
  <1>3. request[c].brand \in Brands
    BY DEF Brands
  <1> QED
    BY <1>2, <1>3 DEF QueryOf, Queries

\* A cache with one more entry of a lifetime.
LEMMA CacheAccepts ==
  ASSUME NEW cache, NEW keys, IsCache(cache, keys), NEW key, NEW life \in Lifetimes, NEW x
  PROVE  IsCache([cache EXCEPT ![key] = [left |-> life, value |-> x]], keys)
  <1> DEFINE new == [cache EXCEPT ![key] = [left |-> life, value |-> x]]
  <1>1. new = [k \in keys |-> IF k = key THEN [left |-> life, value |-> x] ELSE cache[k]]
    BY DEF IsCache
  <1>2. \A k \in keys : new[k] = IF k = key THEN [left |-> life, value |-> x] ELSE cache[k]
    BY <1>1
  <1>3. new = [k \in keys |-> new[k]]
    BY <1>1
  <1> HIDE DEF new
  <1>4. \A k \in keys : new[k] # NoEntry =>
          new[k] = [left |-> new[k].left, value |-> new[k].value] /\ new[k].left \in Lifetimes
    BY <1>2 DEF IsCache
  <1>5. IsCache(new, keys)
    BY <1>3, <1>4 DEF IsCache
  <1> QED
    BY <1>5 DEF new

LEMMA OlderIsCache ==
  ASSUME NEW cache, NEW keys, IsCache(cache, keys)
  PROVE  IsCache(Older(cache), keys)
  <1> DEFINE older(k) == IF Fresh(cache[k]) /\ cache[k].left > 1
                         THEN [cache[k] EXCEPT !.left = @ - 1] ELSE NoEntry
  <1>1. DOMAIN cache = keys
    BY DEF IsCache
  <1>2. Older(cache) = [k \in keys |-> older(k)]
    BY <1>1 DEF Older
  <1>3. ASSUME NEW k \in keys, older(k) # NoEntry
        PROVE  /\ older(k) = [left |-> cache[k].left - 1, value |-> cache[k].value]
               /\ cache[k].left - 1 \in Lifetimes
    <2>1. Fresh(cache[k]) /\ cache[k].left > 1 /\ older(k) = [cache[k] EXCEPT !.left = @ - 1]
      BY <1>3
    <2>2. /\ cache[k] = [left |-> cache[k].left, value |-> cache[k].value]
          /\ cache[k].left \in Lifetimes
      BY <2>1 DEF IsCache, Fresh
    <2>3. cache[k].left - 1 \in Lifetimes
      BY <2>1, <2>2, GateAssumption DEF Lifetimes
    <2> DEFINE l == cache[k].left
               v == cache[k].value
    <2>4. [cache[k] EXCEPT !.left = @ - 1] = [left |-> l - 1, value |-> v]
      <3>1. cache[k] = [left |-> l, value |-> v]
        BY <2>2
      <3> HIDE DEF l, v
      <3> QED
        BY <3>1
    <2> QED
      BY <2>1, <2>3, <2>4
  <1> HIDE DEF older
  <1>4. \A k \in keys : older(k) # NoEntry =>
          older(k) = [left |-> older(k).left, value |-> older(k).value]
          /\ older(k).left \in Lifetimes
    <2> TAKE k \in keys
    <2> HAVE older(k) # NoEntry
    <2> DEFINE l == cache[k].left - 1
               v == cache[k].value
    <2>1. older(k) = [left |-> l, value |-> v] /\ l \in Lifetimes
      BY <1>3
    <2> HIDE DEF l, v
    <2> QED
      BY <2>1
  <1> QED
    BY <1>2, <1>4 DEF IsCache

-----------------------------------------------------------------------------
(* Pieces of a caller's steps *)

LEMMA StaysFunction ==
  ASSUME NEW f, f = [c \in Callers |-> f[c]], NEW c \in Callers, NEW x
  PROVE  [f EXCEPT ![c] = x] = [d \in Callers |-> [f EXCEPT ![c] = x][d]]
  <1>1. [f EXCEPT ![c] = x] = [d \in Callers |-> IF d = c THEN x ELSE f[d]]
    OBVIOUS
  <1> QED
    BY <1>1

\* A load that ends, or does not begin, leaves its variables typed.
LEMMA EndLoadTypes ==
  ASSUME Coroutines, NEW c \in Callers, EndLoad(c)
  PROVE  /\ fetch' \in [Callers -> Fetches \cup {NoFetch}]
         /\ hops' \in [Callers -> 0 .. MaxDocumentHops + 1]
         /\ held' = [d \in Callers |-> held'[d]]
  <1> USE DEF Coroutines, EndLoad, Set
  <1>1. fetch' \in [Callers -> Fetches \cup {NoFetch}]
    OBVIOUS
  <1>2. hops' \in [Callers -> 0 .. MaxDocumentHops + 1]
    BY DEF MaxDocumentHops
  <1>3. held' = [d \in Callers |-> held'[d]]
    BY StaysFunction
  <1> QED
    BY <1>1, <1>2, <1>3

\* Nobody else's state counts for a caller.
LEMMA OthersSound ==
  ASSUME IInv, NEW c \in Callers, NEW d \in Callers,
         pc'[d] = pc[d], request'[d] = request[d], fetch'[d] = fetch[d],
         held'[d] = held[d], todo'[d] = todo[d], raw'[d] = raw[d],
         claims'[d] = claims[d], passed'[d] = passed[d]
  PROVE  Sound(d)'
  <1>1. Sound(d)
    BY DEF IInv
  <1>2. Loading(d)' <=> Loading(d)
    BY DEF Loading
  <1>3. Busy(d)'
    BY <1>1 DEF Sound, Busy
  <1>4. Checking(d)'
    BY <1>1, <1>2 DEF Sound, Checking
  <1>5. \A p : Verified(d, p) => Verified(d, p)'
    BY DEF Verified
  <1>6. Covered(d)'
    BY <1>1, <1>2, <1>5 DEF Sound, Covered
  <1> QED
    BY <1>3, <1>4, <1>6 DEF Sound

LEMMA WorldKept ==
  ASSUME World, UNCHANGED worldVars
  PROVE  World'
  BY DEF World, worldVars

\* A buy that is over leaves nothing behind.
LEMMA ReturnKeeps ==
  ASSUME IInv, NEW c \in Callers, Return(c), World', Caches'
  PROVE  IInv'
  <1> USE DEF IInv, Return, Set
  <1>1. Coroutines'
    <2>1. EndLoad(c)
      BY DEF EndLoad
    <2> QED
      BY <2>1, EndLoadTypes DEF Coroutines
  <1>2. ASSUME NEW d \in Callers
        PROVE  Sound(d)'
    <2>1. CASE d = c
      <3>1. pc'[c] = "idle"
        BY DEF Coroutines
      <3> QED
        BY <2>1, <3>1 DEF Sound, Busy, Checking, Covered, Loading
    <2>2. CASE d # c
      BY <2>2, OthersSound DEF Coroutines
    <2> QED
      BY <2>1, <2>2
  <1> QED
    BY <1>1, <1>2

\* The load of a brand goes on to another domain.
LEMMA AskKeeps ==
  ASSUME IInv, NEW c \in Callers, request[c] \in Requests,
         NEW stage \in {"brand", "house", "leaf"}, NEW domain \in Domains,
         Ask(c, stage, domain),
         hops' \in [Callers -> 0 .. MaxDocumentHops + 1],
         held' = [d \in Callers |-> held'[d]],
         \A d \in Callers : d # c => held'[d] = held[d],
         UNCHANGED <<request, checkVars>>, World', Caches'
  PROVE  IInv'
  <1> USE DEF IInv, Ask, Set, checkVars
  <1> DEFINE asked == [stage |-> stage, at |-> domain, doc |-> NoDoc, waited |-> 0]
  <1>1. asked \in Fetches
    <2> DEFINE docs == (UNION {Published[d] : d \in Domains}) \cup {Down, NoDoc}
    <2>1. NoDoc \in docs
      OBVIOUS
    <2>2. stage \in Stages /\ 0 \in 0 .. FetchTimeout
      BY GateAssumption DEF Stages
    <2> HIDE DEF docs
    <2>3. asked \in [stage : Stages, at : Domains, waited : 0 .. FetchTimeout, doc : docs]
      BY <2>1, <2>2
    <2> QED
      BY <2>3 DEF Fetches, docs
  <1>2. fetch'[c] = asked /\ pc'[c] = "fetching" /\ asked.stage = stage
    BY DEF Coroutines
  <1>3. Coroutines'
    BY <1>1 DEF Coroutines
  <1>4. ASSUME NEW d \in Callers
        PROVE  Sound(d)'
    <2>1. CASE d = c
      <3>1. ~Loading(c)'
        BY <1>2 DEF Loading
      <3> QED
        BY <1>1, <1>2, <2>1, <3>1 DEF Sound, Busy, Checking, Covered
    <2>2. CASE d # c
      BY <2>2, OthersSound DEF Coroutines
    <2> QED
      BY <2>1, <2>2
  <1> QED
    BY <1>3, <1>4

\* All products of the request are still to be verified.
LEMMA PassesKeeps ==
  ASSUME IInv, NEW c \in Callers, request[c] \in Requests, OperatorPasses(c),
         World', Caches'
  PROVE  IInv'
  <1> USE DEF IInv, OperatorPasses, EndLoad, Set
  <1>1. Packages(request[c]) \subseteq Products
    BY PackagesAreProducts
  <1>2. Coroutines'
    <2>1. /\ fetch' \in [Callers -> Fetches \cup {NoFetch}]
          /\ hops' \in [Callers -> 0 .. MaxDocumentHops + 1]
          /\ held' = [d \in Callers |-> held'[d]]
      BY EndLoadTypes
    <2>2. todo' \in [Callers -> SUBSET Products]
      BY <1>1 DEF Coroutines
    <2> QED
      BY <2>1, <2>2 DEF Coroutines
  <1>3. ASSUME NEW d \in Callers
        PROVE  Sound(d)'
    <2>1. CASE d = c
      <3>1. /\ pc'[c] = "products" /\ request'[c] = request[c]
            /\ todo'[c] = IF SkipSellerCheck THEN {} ELSE Packages(request[c])
        BY DEF Coroutines
      <3> QED
        BY <2>1, <3>1 DEF Sound, Busy, Checking, Covered, Loading
    <2>2. CASE d # c
      BY <2>2, OthersSound DEF Coroutines
    <2> QED
      BY <2>1, <2>2
  <1> QED
    BY <1>2, <1>3

LEMMA JudgeOperatorKeeps ==
  ASSUME IInv, NEW c \in Callers, request[c] \in Requests, NEW resolution,
         JudgeOperator(c, resolution), World', Caches'
  PROVE  IInv'
  BY PassesKeeps, ReturnKeeps DEF JudgeOperator

\* A claim that a document grants is verified; the last one ends its product.
LEMMA JudgeClaimKeeps ==
  ASSUME IInv, NEW c \in Callers, pc[c] = "claims" \/ Loading(c),
         NEW claim \in claims[c], NEW doc, JudgeClaim(c, claim, doc), World', Caches'
  PROVE  IInv'
  <1> USE DEF IInv, Set
  <1>1. CASE Return(c)
    BY <1>1, ReturnKeeps
  <1> DEFINE verified == passed[c] \cup {<<raw[c], claim>>}
  <1>2. CASE /\ passed' = [passed EXCEPT ![c] = verified]
             /\ EndLoad(c) /\ UNCHANGED request
             /\ \/ /\ claims[c] = {claim}
                   /\ pc' = [pc EXCEPT ![c] = "products"]
                   /\ todo' = [todo EXCEPT ![c] = todo[c] \ {raw[c].id}]
                   /\ raw' = [raw EXCEPT ![c] = NoProduct]
                   /\ claims' = [claims EXCEPT ![c] = {}]
                \/ /\ claims[c] # {claim}
                   /\ pc' = [pc EXCEPT ![c] = "claims"]
                   /\ claims' = [claims EXCEPT ![c] = claims[c] \ {claim}]
                   /\ UNCHANGED <<todo, raw>>
    <2>1. /\ request[c] \in Requests /\ raw[c] \in RawProducts
          /\ claims[c] \subseteq raw[c].claims /\ raw[c].claims # {}
          /\ {raw[c]} \X (raw[c].claims \ claims[c]) \subseteq passed[c]
      BY DEF Sound, Busy, Checking, Loading
    <2>2. claim \in Claims /\ verified \in SUBSET (RawProducts \X Claims)
      BY <2>1 DEF Coroutines
    <2>3. Coroutines'
      <3>1. /\ fetch' \in [Callers -> Fetches \cup {NoFetch}]
            /\ hops' \in [Callers -> 0 .. MaxDocumentHops + 1]
            /\ held' = [d \in Callers |-> held'[d]]
            /\ request' \in [Callers -> Requests \cup {NoRequest}]
            /\ passed' \in [Callers -> SUBSET (RawProducts \X Claims)]
        BY <1>2, <2>2, EndLoadTypes DEF Coroutines
      <3>2. claims[c] \ {claim} \in SUBSET Claims
        BY DEF Coroutines
      <3>3. /\ pc' \in [Callers -> {"idle", "operator", "fetching", "products", "claims",
                                    "account", "ready"}]
            /\ todo' \in [Callers -> SUBSET Products]
            /\ raw' \in [Callers -> RawProducts \cup {NoProduct}]
            /\ claims' \in [Callers -> SUBSET Claims]
        BY <1>2, <3>2 DEF Coroutines
      <3> QED
        BY <3>1, <3>3 DEF Coroutines
    <2>4. passed'[c] = verified /\ request'[c] = request[c] /\ pc'[c] # "fetching"
          /\ pc'[c] \notin {"account", "ready"} /\ pc'[c] # "idle"
      BY <1>2 DEF Coroutines
    <2>5. \A p : Verified(c, p) => Verified(c, p)'
      BY <2>4 DEF Verified
    <2>6. SkipSellerCheck \/ \A p \in Packages(request[c]) : p \in todo[c] \/ Verified(c, p)
      BY DEF Sound, Covered
    <2>7. CASE claims[c] = {claim}
      <3>1. /\ pc'[c] = "products" /\ todo'[c] = todo[c] \ {raw[c].id}
        BY <1>2, <2>7 DEF Coroutines
      <3>2. {raw[c]} \X raw[c].claims \subseteq verified
        BY <2>1, <2>7
      <3>3. \A p : p = raw[c].id => Verified(c, p)'
        BY <2>1, <2>4, <3>2 DEF Verified
      <3>4. Busy(c)' /\ Checking(c)'
        BY <2>1, <2>4, <3>1 DEF Busy, Checking, Loading
      <3>5. Covered(c)'
        BY <2>4, <2>5, <2>6, <3>1, <3>3 DEF Covered
      <3>6. Sound(c)'
        BY <3>4, <3>5 DEF Sound
      <3>7. \A d \in Callers : d # c => Sound(d)'
        BY <1>2, <2>7, OthersSound DEF Coroutines, EndLoad
      <3> QED
        BY <2>3, <3>6, <3>7
    <2>8. CASE claims[c] # {claim}
      <3>1. /\ pc'[c] = "claims" /\ claims'[c] = claims[c] \ {claim}
            /\ raw'[c] = raw[c] /\ todo'[c] = todo[c]
        BY <1>2, <2>8 DEF Coroutines
      <3>2. {raw[c]} \X (raw[c].claims \ claims'[c]) \subseteq verified
        BY <2>1, <3>1
      <3>3. Busy(c)' /\ Checking(c)'
        BY <2>1, <2>4, <2>8, <3>1, <3>2 DEF Busy, Checking, Loading
      <3>4. Covered(c)'
        BY <2>4, <2>5, <2>6, <3>1 DEF Covered
      <3>5. Sound(c)'
        BY <3>3, <3>4 DEF Sound
      <3>6. \A d \in Callers : d # c => Sound(d)'
        BY <1>2, <2>8, OthersSound DEF Coroutines, EndLoad
      <3> QED
        BY <2>3, <3>5, <3>6
    <2> QED
      BY <2>7, <2>8
  <1> QED
    BY <1>1, <1>2 DEF JudgeClaim

-----------------------------------------------------------------------------
(* Steps of a caller, to the operator's verdict *)

\* Steps that leave the world and both caches alone.
LEMMA CachesKept ==
  ASSUME Caches, UNCHANGED <<brands, agents>>
  PROVE  Caches'
  BY DEF Caches, IsCache

LEMMA BeginBuyKeeps ==
  ASSUME IInv, NEW c \in Callers, NEW r \in Requests, BeginBuy(c, r)
  PROVE  IInv'
  <1> USE DEF IInv, BeginBuy, Set, loadVars, checkVars
  <1>1. World' /\ Caches'
    BY WorldKept, CachesKept
  <1>2. Coroutines'
    BY DEF Coroutines
  <1>3. ASSUME NEW d \in Callers
        PROVE  Sound(d)'
    <2>1. CASE d = c
      <3>1. pc'[c] = "operator" /\ request'[c] = r
        BY DEF Coroutines
      <3> QED
        BY <2>1, <3>1 DEF Sound, Busy, Checking, Covered, Loading
    <2>2. CASE d # c
      BY <2>2, OthersSound DEF Coroutines
    <2> QED
      BY <2>1, <2>2
  <1> QED
    BY <1>1, <1>2, <1>3

LEMMA VerifyOperatorKeeps ==
  ASSUME IInv, NEW c \in Callers, VerifyOperator(c)
  PROVE  IInv'
  <1>1. /\ World' /\ Caches' /\ pc[c] = "operator" /\ request[c] \in Requests
    BY WorldKept, CachesKept DEF IInv, VerifyOperator, Sound, Busy
  <1> DEFINE q == QueryOf(c)
  <1>2. CASE OperatorPasses(c)
    BY <1>1, <1>2, PassesKeeps
  <1>3. CASE Return(c)
    BY <1>1, <1>3, ReturnKeeps
  <1>4. CASE JudgeOperator(c, brands[q].value)
    BY <1>1, <1>4, JudgeOperatorKeeps
  <1>5. CASE /\ q.domain # Operator /\ Ask(c, "brand", q.domain)
             /\ UNCHANGED <<request, hops, held, checkVars>>
    <2>1. q.domain \in Domains
      BY <1>1, <1>5, QueryIsKnown
    <2>2. hops' \in [Callers -> 0 .. MaxDocumentHops + 1] /\ held' = [d \in Callers |-> held'[d]]
      BY <1>5 DEF IInv, Coroutines
    <2>3. \A d \in Callers : d # c => held'[d] = held[d]
      BY <1>5
    <2>4. UNCHANGED <<request, checkVars>>
      BY <1>5
    <2> HIDE DEF q
    <2> QED
      BY <1>1, <1>5, <2>1, <2>2, <2>3, <2>4, AskKeeps
  <1> QED
    BY <1>2, <1>3, <1>4, <1>5 DEF VerifyOperator

\* The end of a brand's load, whatever it found.
LEMMA BrandsAccept ==
  ASSUME IInv, NEW c \in Callers, NEW life \in Lifetimes, NEW x,
         brands' = Set(brands, QueryOf(c), [left |-> life, value |-> x]), UNCHANGED agents
  PROVE  Caches'
  <1>1. IsCache(brands', Queries)
    BY CacheAccepts DEF IInv, Caches, Set
  <1>2. IsCache(agents', Domains)
    BY DEF IInv, Caches
  <1> QED
    BY <1>1, <1>2 DEF Caches

LEMMA TtlIsLifetime == Ttl \in Lifetimes /\ NegativeTtl \in Lifetimes
  BY GateAssumption DEF Lifetimes

LEMMA LoadEndsKeep ==
  ASSUME IInv, NEW c \in Callers, request[c] \in Requests, UNCHANGED <<worldVars, agents>>,
         Unavailable(c) \/ Refused(c) \/ \E resolution : Resolved(c, resolution)
  PROVE  IInv'
  <1>1. World'
    BY WorldKept DEF IInv
  <1>2. CASE Unavailable(c)
    <2>1. Caches'
      BY <1>2, TtlIsLifetime, BrandsAccept DEF Unavailable
    <2> QED
      BY <1>1, <1>2, <2>1, ReturnKeeps DEF Unavailable
  <1>3. CASE Refused(c)
    <2>1. Caches'
      BY <1>3, CachesKept DEF IInv, Refused
    <2> QED
      BY <1>1, <1>3, <2>1, ReturnKeeps DEF Refused
  <1>4. ASSUME NEW resolution, Resolved(c, resolution)
        PROVE  IInv'
    <2>1. Caches'
      BY <1>4, TtlIsLifetime, BrandsAccept DEF Resolved
    <2> QED
      BY <1>1, <1>4, <2>1, JudgeOperatorKeeps DEF Resolved
  <1> QED
    BY <1>2, <1>3, <1>4

\* A fetch that has landed carries a document of its domain, or nothing.
LEMMA LandedDocument ==
  ASSUME IInv, NEW c \in Callers, NEW stage, Landed(c, stage)
  PROVE  /\ pc[c] = "fetching" /\ fetch[c].stage = stage
         /\ request[c] \in Requests /\ fetch[c] \in Fetches
         /\ fetch[c].doc # Down =>
              \E d \in Domains : fetch[c].doc \in Published[d]
  <1>1. pc[c] = "fetching" /\ fetch[c].stage = stage /\ fetch[c].doc # NoDoc
    BY DEF Landed
  <1>2. request[c] \in Requests /\ fetch[c] \in Fetches
    BY <1>1 DEF IInv, Sound, Busy
  <1> DEFINE docs == UNION {Published[d] : d \in Domains}
  <1>3. fetch[c].doc \in docs \cup {Down, NoDoc}
    BY <1>2 DEF Fetches
  <1>4. fetch[c].doc # Down => fetch[c].doc \in docs
    BY <1>1, <1>3
  <1>5. fetch[c].doc # Down => \E d \in Domains : fetch[c].doc \in Published[d]
    BY <1>4
  <1> QED
    BY <1>1, <1>2, <1>5

LEMMA DownIsDown == Down.kind = "down"
  BY DEF Down

LEMMA FollowOnKeeps ==
  ASSUME IInv, NEW c \in Callers, NEW stage \in {"brand", "house", "leaf"},
         Landed(c, stage), FollowOn(c), UNCHANGED <<worldVars, agents>>
  PROVE  IInv'
  <1>1. /\ fetch[c].doc # Down /\ hops[c] # MaxDocumentHops + 1
        /\ fetch[c].doc.kind = "moved"
        /\ hops' = [hops EXCEPT ![c] = hops[c] + 1]
        /\ UNCHANGED <<request, held, checkVars, brands, agents>>
    BY DEF FollowOn, Lost, Set
  <1>2. fetch[c].doc.to \in Domains
    BY <1>1, LandedDocument, PublishedAssumption
  <1>3. fetch[c].stage = stage /\ request[c] \in Requests
    BY LandedDocument
  <1>4. Ask(c, stage, fetch[c].doc.to)
    BY <1>3 DEF FollowOn
  <1>5. hops' \in [Callers -> 0 .. MaxDocumentHops + 1]
    BY <1>1 DEF IInv, Coroutines, MaxDocumentHops
  <1>6. held' = [d \in Callers |-> held'[d]] /\ \A d \in Callers : d # c => held'[d] = held[d]
    BY <1>1 DEF IInv, Coroutines
  <1>7. World' /\ Caches'
    BY <1>1, WorldKept, CachesKept DEF IInv
  <1> QED
    BY <1>1, <1>2, <1>3, <1>4, <1>5, <1>6, <1>7, AskKeeps

\* A load keeps a document and asks another domain.
LEMMA KeepAndAskKeeps ==
  ASSUME IInv, NEW c \in Callers, request[c] \in Requests,
         NEW stage \in {"brand", "house", "leaf"}, NEW domain \in Domains, NEW doc,
         held' = Set(held, c, doc), hops' = Set(hops, c, 0), Ask(c, stage, domain),
         UNCHANGED <<worldVars, agents, request, checkVars, brands>>
  PROVE  IInv'
  <1>1. World' /\ Caches'
    BY WorldKept, CachesKept DEF IInv
  <1>2. hops' \in [Callers -> 0 .. MaxDocumentHops + 1]
    BY DEF IInv, Coroutines, MaxDocumentHops, Set
  <1>3. held' = [d \in Callers |-> held'[d]]
    BY StaysFunction DEF IInv, Coroutines, Set
  <1>4. \A d \in Callers : d # c => held'[d] = held[d]
    BY DEF IInv, Coroutines, Set
  <1>5. UNCHANGED <<request, checkVars>>
    OBVIOUS
  <1> QED
    BY <1>1, <1>2, <1>3, <1>4, <1>5, AskKeeps

LEMMA ReceiveBrandKeeps ==
  ASSUME IInv, NEW c \in Callers, ReceiveBrand(c)
  PROVE  IInv'
  <1> DEFINE doc == fetch[c].doc
             q == QueryOf(c)
  <1>1. Landed(c, "brand") /\ UNCHANGED <<worldVars, agents>>
    BY DEF ReceiveBrand
  <1>2. request[c] \in Requests
    BY <1>1, LandedDocument
  <1>3. CASE Unavailable(c) \/ Refused(c) \/ \E resolution : Resolved(c, resolution)
    BY <1>1, <1>2, <1>3, LoadEndsKeep
  <1>4. CASE FollowOn(c)
    BY <1>1, <1>4, FollowOnKeeps
  <1>5. CASE /\ ~Lost(c) /\ doc.kind = "portfolio" /\ NeedsLeaf(doc, q)
             /\ held' = Set(held, c, doc) /\ hops' = Set(hops, c, 0)
             /\ Ask(c, "leaf", PortfolioBrand(doc, q))
             /\ UNCHANGED <<request, checkVars, brands>>
    <2>1. doc # Down
      BY <1>5 DEF Lost
    <2>2. doc.refs \subseteq Domains
      BY <1>1, <1>5, <2>1, LandedDocument, PublishedAssumption
    <2>3. PortfolioBrand(doc, q) \in Domains
      BY <1>5, <2>2 DEF NeedsLeaf
    <2> HIDE DEF doc, q
    <2> QED
      BY <1>1, <1>2, <1>5, <2>3, KeepAndAskKeeps
  <1>6. CASE /\ ~Lost(c) /\ doc.kind = "canonical" /\ doc.house # NoDomain
             /\ held' = Set(held, c, doc) /\ hops' = Set(hops, c, 0)
             /\ Ask(c, "house", doc.house)
             /\ UNCHANGED <<request, checkVars, brands>>
    <2>1. doc # Down
      BY <1>6 DEF Lost
    <2>2. doc.house \in Domains
      BY <1>1, <1>6, <2>1, LandedDocument, PublishedAssumption
    <2> HIDE DEF doc
    <2> QED
      BY <1>1, <1>2, <1>6, <2>2, KeepAndAskKeeps
  <1>7. ASSUME ~Lost(c), doc.kind = "portfolio", ResolvePortfolio(c, doc)
        PROVE  IInv'
    BY <1>3, <1>5, <1>7 DEF ResolvePortfolio
  <1>8. ASSUME ~Lost(c), doc.kind = "canonical", ResolveCanonical(c, doc)
        PROVE  IInv'
    BY <1>3, <1>6, <1>8 DEF ResolveCanonical
  <1> QED
    BY <1>3, <1>4, <1>7, <1>8 DEF ReceiveBrand

LEMMA ReceiveHouseKeeps ==
  ASSUME IInv, NEW c \in Callers, ReceiveHouse(c)
  PROVE  IInv'
  <1>1. Landed(c, "house") /\ UNCHANGED <<worldVars, agents>>
    BY DEF ReceiveHouse
  <1>2. request[c] \in Requests
    BY <1>1, LandedDocument
  <1>3. CASE Unavailable(c) \/ Refused(c) \/ \E resolution : Resolved(c, resolution)
    BY <1>1, <1>2, <1>3, LoadEndsKeep
  <1>4. CASE FollowOn(c)
    BY <1>1, <1>4, FollowOnKeeps
  <1> QED
    BY <1>3, <1>4 DEF ReceiveHouse

LEMMA ReceiveLeafKeeps ==
  ASSUME IInv, NEW c \in Callers, ReceiveLeaf(c)
  PROVE  IInv'
  <1>1. Landed(c, "leaf") /\ UNCHANGED <<worldVars, agents>>
    BY DEF ReceiveLeaf
  <1>2. request[c] \in Requests
    BY <1>1, LandedDocument
  <1>3. \E resolution : Resolved(c, resolution)
    BY DEF ReceiveLeaf
  <1> QED
    BY <1>1, <1>2, <1>3, LoadEndsKeep

-----------------------------------------------------------------------------
(* Steps of a caller, from the sellers' check on *)

LEMMA NextProductKeeps ==
  ASSUME IInv, NEW c \in Callers, NextProduct(c)
  PROVE  IInv'
  <1>1. World' /\ Caches' /\ pc[c] = "products"
    BY WorldKept, CachesKept DEF IInv, NextProduct
  <1>2. Sound(c) /\ request[c] \in Requests
    BY <1>1 DEF IInv, Sound, Busy
  <1>3. CASE Return(c)
    BY <1>1, <1>3, ReturnKeeps
  <1>4. CASE /\ todo[c] = {} /\ pc' = [pc EXCEPT ![c] = "account"]
             /\ UNCHANGED <<request, loadVars, checkVars>>
    <2>1. Coroutines'
      BY <1>4 DEF IInv, Coroutines, loadVars, checkVars
    <2>2. pc'[c] = "account" /\ request'[c] = request[c] /\ todo'[c] = {}
          /\ passed'[c] = passed[c]
      BY <1>4 DEF IInv, Coroutines, checkVars
    <2>3. \A p : Verified(c, p) => Verified(c, p)'
      BY <2>2 DEF Verified
    <2>4. Sound(c)'
      BY <1>1, <1>2, <1>4, <2>2, <2>3 DEF Sound, Busy, Checking, Covered, Loading
    <2>5. \A d \in Callers : d # c => Sound(d)'
      BY <1>4, OthersSound DEF IInv, Coroutines, loadVars, checkVars
    <2> QED
      BY <1>1, <2>1, <2>4, <2>5 DEF IInv
  <1>5. ASSUME NEW p \in todo[c], known[p] # NoProduct, known[p].claims # {},
               raw' = [raw EXCEPT ![c] = known[p]],
               claims' = [claims EXCEPT ![c] = known[p].claims],
               pc' = [pc EXCEPT ![c] = "claims"],
               UNCHANGED <<request, loadVars, todo, passed>>
        PROVE  IInv'
    <2>1. known[p] \in RawProducts /\ known[p].claims \subseteq Claims
      <3>1. p \in Products
        BY DEF IInv, Coroutines
      <3>2. known[p] \in RawProducts
        BY <1>5, <3>1 DEF IInv, World
      <3> QED
        BY <3>2, ClaimsOfProducts
    <2>2. Coroutines'
      BY <1>5, <2>1 DEF IInv, Coroutines, loadVars
    <2>3. /\ pc'[c] = "claims" /\ request'[c] = request[c] /\ todo'[c] = todo[c]
          /\ passed'[c] = passed[c] /\ raw'[c] = known[p] /\ claims'[c] = known[p].claims
      BY <1>5 DEF IInv, Coroutines
    <2>4. \A x : Verified(c, x) => Verified(c, x)'
      BY <2>3 DEF Verified
    <2>5. Busy(c)' /\ Covered(c)'
      BY <1>1, <1>2, <2>3, <2>4 DEF Sound, Busy, Covered
    <2>6. Checking(c)'
      <3>1. raw'[c].claims \ claims'[c] = {}
        BY <2>3
      <3> QED
        BY <1>5, <2>1, <2>3, <3>1 DEF Checking, Loading
    <2>7. \A d \in Callers : d # c => Sound(d)'
      BY <1>5, OthersSound DEF IInv, Coroutines, loadVars
    <2> QED
      BY <1>1, <2>2, <2>5, <2>6, <2>7 DEF IInv, Sound
  <1> QED
    BY <1>3, <1>4, <1>5 DEF NextProduct, Set

\* A claim waits for a document.
LEMMA AskForClaimKeeps ==
  ASSUME IInv, NEW c \in Callers, pc[c] = "claims" \/ Loading(c), NEW claim \in claims[c],
         NEW stage \in {"publisher", "location"}, NEW domain \in Domains,
         Ask(c, stage, domain), held' = [d \in Callers |-> held'[d]], held'[c] = claim,
         \A d \in Callers : d # c => held'[d] = held[d],
         UNCHANGED <<request, hops, checkVars>>, World', Caches'
  PROVE  IInv'
  <1> USE DEF IInv, Ask, Set, checkVars
  <1> DEFINE asked == [stage |-> stage, at |-> domain, doc |-> NoDoc, waited |-> 0]
  <1>1. asked \in Fetches
    <2> DEFINE docs == (UNION {Published[d] : d \in Domains}) \cup {Down, NoDoc}
    <2>1. NoDoc \in docs
      OBVIOUS
    <2>2. stage \in Stages /\ 0 \in 0 .. FetchTimeout
      BY GateAssumption DEF Stages
    <2> HIDE DEF docs
    <2>3. asked \in [stage : Stages, at : Domains, waited : 0 .. FetchTimeout, doc : docs]
      BY <2>1, <2>2
    <2> QED
      BY <2>3 DEF Fetches, docs
  <1>2. fetch'[c] = asked /\ pc'[c] = "fetching" /\ asked.stage = stage
    BY DEF Coroutines
  <1>3. Coroutines'
    BY <1>1 DEF Coroutines
  <1>4. Sound(c) /\ request[c] \in Requests
    BY DEF Sound, Busy, Loading
  <1>5. \A p : Verified(c, p) => Verified(c, p)'
    BY DEF Verified
  <1>6. Sound(c)'
    BY <1>1, <1>2, <1>4, <1>5 DEF Sound, Busy, Checking, Covered, Loading
  <1>7. \A d \in Callers : d # c => Sound(d)'
    BY OthersSound DEF Coroutines
  <1> QED
    BY <1>3, <1>6, <1>7

LEMMA VerifyClaimKeeps ==
  ASSUME IInv, NEW c \in Callers, VerifyClaim(c)
  PROVE  IInv'
  <1>1. World' /\ Caches' /\ pc[c] = "claims"
    BY WorldKept, CachesKept DEF IInv, VerifyClaim
  <1>2. CASE Return(c)
    BY <1>1, <1>2, ReturnKeeps
  <1>3. ASSUME NEW claim \in claims[c], NEW doc, JudgeClaim(c, claim, doc)
        PROVE  IInv'
    BY <1>1, <1>3, JudgeClaimKeeps
  <1>4. ASSUME NEW claim \in claims[c], claim.domain # NoDomain,
               Ask(c, "publisher", claim.domain), held' = [held EXCEPT ![c] = claim],
               UNCHANGED <<request, hops, checkVars>>
        PROVE  IInv'
    <2>1. claim \in Claims
      BY DEF IInv, Coroutines
    <2>2. claim.domain \in Domains
      BY <1>4, <2>1 DEF Claims
    <2>3. held' = [d \in Callers |-> held'[d]]
      BY <1>4, StaysFunction DEF IInv, Coroutines
    <2>4. held'[c] = claim /\ \A d \in Callers : d # c => held'[d] = held[d]
      BY <1>4 DEF IInv, Coroutines
    <2> QED
      BY <1>1, <1>4, <2>2, <2>3, <2>4, AskForClaimKeeps
  <1> QED
    BY <1>2, <1>3, <1>4 DEF VerifyClaim, Set

LEMMA AgentsAccept ==
  ASSUME IInv, NEW key, NEW life \in Lifetimes, NEW x,
         agents' = Set(agents, key, [left |-> life, value |-> x]), UNCHANGED brands
  PROVE  Caches'
  <1>1. IsCache(agents', Domains)
    BY CacheAccepts DEF IInv, Caches, Set
  <1>2. IsCache(brands', Queries)
    BY DEF IInv, Caches
  <1> QED
    BY <1>1, <1>2 DEF Caches

LEMMA ClaimLoadEndsKeeps ==
  ASSUME IInv, NEW c \in Callers, Loading(c), UNCHANGED <<worldVars, brands>>,
         NotLoaded(c) \/ \E doc : Loaded(c, doc)
  PROVE  IInv'
  <1>1. World'
    BY WorldKept DEF IInv
  <1>2. held[c] \in claims[c]
    BY DEF IInv, Sound, Checking
  <1>3. CASE NotLoaded(c)
    <2>1. Caches'
      BY <1>3, TtlIsLifetime, AgentsAccept DEF NotLoaded
    <2> QED
      BY <1>1, <1>3, <2>1, ReturnKeeps DEF NotLoaded
  <1>4. ASSUME NEW doc, Loaded(c, doc)
        PROVE  IInv'
    <2>1. Caches'
      BY <1>4, TtlIsLifetime, AgentsAccept DEF Loaded
    <2> QED
      BY <1>1, <1>2, <1>4, <2>1, JudgeClaimKeeps DEF Loaded
  <1> QED
    BY <1>3, <1>4

LEMMA ReceivePublisherKeeps ==
  ASSUME IInv, NEW c \in Callers, ReceivePublisher(c)
  PROVE  IInv'
  <1>1. Landed(c, "publisher") /\ UNCHANGED <<worldVars, brands>>
    BY DEF ReceivePublisher
  <1>2. Loading(c)
    BY <1>1, LandedDocument DEF Loading
  <1>3. CASE NotLoaded(c) \/ \E doc : Loaded(c, doc)
    BY <1>1, <1>2, <1>3, ClaimLoadEndsKeeps
  <1>4. CASE /\ fetch[c].doc.kind = "moved" /\ Ask(c, "location", fetch[c].doc.to)
             /\ UNCHANGED <<request, hops, held, checkVars, agents>>
    <2>1. fetch[c].doc # Down
      BY <1>4, DownIsDown
    <2>2. fetch[c].doc.to \in Domains
      BY <1>1, <1>4, <2>1, LandedDocument, PublishedAssumption
    <2>3. held[c] \in claims[c]
      BY <1>2 DEF IInv, Sound, Checking
    <2>4. held' = [d \in Callers |-> held'[d]] /\ \A d \in Callers : held'[d] = held[d]
      BY <1>4 DEF IInv, Coroutines
    <2>5. World' /\ Caches'
      BY <1>1, <1>4, WorldKept, CachesKept DEF IInv
    <2> QED
      BY <1>2, <1>4, <2>2, <2>3, <2>4, <2>5, AskForClaimKeeps
  <1> QED
    BY <1>3, <1>4 DEF ReceivePublisher

LEMMA ReceiveLocationKeeps ==
  ASSUME IInv, NEW c \in Callers, ReceiveLocation(c)
  PROVE  IInv'
  <1>1. Landed(c, "location") /\ UNCHANGED <<worldVars, brands>>
    BY DEF ReceiveLocation
  <1>2. Loading(c)
    BY <1>1, LandedDocument DEF Loading
  <1>3. NotLoaded(c) \/ \E doc : Loaded(c, doc)
    BY DEF ReceiveLocation
  <1> QED
    BY <1>1, <1>2, <1>3, ClaimLoadEndsKeeps

LEMMA PrepareKeeps ==
  ASSUME IInv, NEW c \in Callers, Prepare(c)
  PROVE  IInv'
  <1>1. World' /\ Caches' /\ pc[c] = "account"
    BY WorldKept, CachesKept DEF IInv, Prepare
  <1>2. CASE Return(c)
    BY <1>1, <1>2, ReturnKeeps
  <1>3. CASE pc' = [pc EXCEPT ![c] = "ready"] /\ UNCHANGED <<request, loadVars, checkVars>>
    <2>1. Coroutines'
      BY <1>3 DEF IInv, Coroutines, loadVars, checkVars
    <2>2. /\ pc'[c] = "ready" /\ request'[c] = request[c] /\ todo'[c] = todo[c]
          /\ passed'[c] = passed[c]
      BY <1>3 DEF IInv, Coroutines, checkVars
    <2>3. \A p : Verified(c, p) => Verified(c, p)'
      BY <2>2 DEF Verified
    <2>4. Sound(c)'
      BY <1>1, <2>2, <2>3 DEF IInv, Sound, Busy, Checking, Covered, Loading
    <2>5. \A d \in Callers : d # c => Sound(d)'
      BY <1>3, OthersSound DEF IInv, Coroutines, loadVars, checkVars
    <2> QED
      BY <1>1, <2>1, <2>4, <2>5 DEF IInv
  <1> QED
    BY <1>2, <1>3 DEF Prepare, Set

LEMMA LeaveKeeps ==
  ASSUME IInv, NEW c \in Callers, AccountRefused(c) \/ Send(c)
  PROVE  IInv'
  BY WorldKept, CachesKept, ReturnKeeps DEF IInv, AccountRefused, Send

-----------------------------------------------------------------------------
(* The world *)

\* A document lands, or the fetch is given up; it stays a fetch of its stage.
LEMMA DocumentKeeps ==
  ASSUME IInv, NEW c \in Callers, pc[c] = "fetching",
         NEW doc \in (UNION {Published[d] : d \in Domains}) \cup {Down},
         fetch' = [fetch EXCEPT ![c].doc = doc],
         UNCHANGED <<worldVars, brands, agents, pc, request, hops, held, checkVars>>
  PROVE  IInv'
  <1> USE DEF IInv, checkVars
  <1>1. World' /\ Caches'
    BY WorldKept, CachesKept
  <1>2. fetch[c] \in Fetches
    BY DEF Sound, Busy
  <1> DEFINE docs == (UNION {Published[d] : d \in Domains}) \cup {Down, NoDoc}
  <1>3. doc \in docs
    OBVIOUS
  <1>4. fetch[c] \in [stage : Stages, at : Domains, waited : 0 .. FetchTimeout, doc : docs]
    BY <1>2 DEF Fetches
  <1> HIDE DEF docs
  <1>5. /\ [fetch[c] EXCEPT !.doc = doc] \in
             [stage : Stages, at : Domains, waited : 0 .. FetchTimeout, doc : docs]
        /\ [fetch[c] EXCEPT !.doc = doc].stage = fetch[c].stage
    BY <1>3, <1>4
  <1>6. [fetch[c] EXCEPT !.doc = doc] \in Fetches
    BY <1>5 DEF Fetches, docs
  <1>7. /\ fetch' \in [Callers -> Fetches \cup {NoFetch}]
        /\ fetch'[c] = [fetch[c] EXCEPT !.doc = doc]
        /\ \A d \in Callers : d # c => fetch'[d] = fetch[d]
    BY <1>6 DEF Coroutines
  <1>8. Coroutines'
    BY <1>7 DEF Coroutines
  <1>9. \A p : Verified(c, p) => Verified(c, p)'
    BY DEF Verified
  <1>10. Sound(c)'
    BY <1>5, <1>6, <1>7, <1>9 DEF Sound, Busy, Checking, Covered, Loading
  <1>11. \A d \in Callers : d # c => Sound(d)'
    BY <1>7, OthersSound
  <1> QED
    BY <1>1, <1>8, <1>10, <1>11

LEMMA FetchEventsKeep ==
  ASSUME IInv, NEW c \in Callers, Answer(c) \/ TimesOut(c)
  PROVE  IInv'
  <1>1. CASE TimesOut(c)
    BY <1>1, DocumentKeeps DEF TimesOut
  <1>2. CASE Answer(c)
    <2>1. fetch[c].at \in Domains
      BY <1>2 DEF Answer, IInv, Sound, Busy, Fetches
    <2>2. origin[fetch[c].at] \in UNION {Published[d] : d \in Domains}
      BY <2>1 DEF IInv, World
    <2> QED
      BY <1>2, <2>2, DocumentKeeps DEF Answer
  <1> QED
    BY <1>1, <1>2

LEMMA CallersKept ==
  ASSUME IInv, UNCHANGED <<pc, request, loadVars, checkVars>>
  PROVE  Coroutines' /\ \A c \in Callers : Sound(c)'
  <1> USE DEF loadVars, checkVars
  <1>1. Coroutines'
    BY DEF IInv, Coroutines
  <1> QED
    BY <1>1, OthersSound

LEMMA WorldChangesKeep ==
  ASSUME IInv,
         \/ \E d \in Domains : \E doc \in Published[d] : Publish(d, doc)
         \/ \E response \in Responses : FindProducts(response)
         \/ \E w \in Windows : WindowMoves(w)
  PROVE  IInv'
  <1>1. UNCHANGED <<pc, request, loadVars, checkVars, brands, agents>>
    BY DEF Publish, FindProducts, WindowMoves
  <1>2. Caches' /\ Coroutines' /\ \A c \in Callers : Sound(c)'
    BY <1>1, CachesKept, CallersKept DEF IInv
  <1>3. ASSUME NEW d \in Domains, NEW doc \in Published[d], Publish(d, doc)
        PROVE  World'
    <2>1. changes' \in 0 .. MaxChanges
      BY <1>3, GateAssumption DEF Publish, IInv, World
    <2>2. origin' = [x \in Domains |-> origin'[x]]
          /\ \A x \in Domains : origin'[x] = IF x = d THEN doc ELSE origin[x]
      BY <1>3 DEF Publish, Set, IInv, World
    <2>3. \A x \in Domains : age'[x] = IF x = d THEN [age[d] EXCEPT ![doc] = 0] ELSE age[x]
      BY <1>3 DEF Publish, IInv, World
    <2>4. age' = [x \in Domains |-> age'[x]]
      BY <1>3 DEF Publish, IInv, World
    <2>5. [age[d] EXCEPT ![doc] = 0] \in [Published[d] -> 0 .. Recent + 1]
      <3>1. 0 \in 0 .. Recent + 1
        BY RecentIsNat
      <3> QED
        BY <3>1 DEF IInv, World
    <2> QED
      BY <1>3, <2>1, <2>2, <2>3, <2>4, <2>5 DEF Publish, IInv, World
  <1>4. ASSUME NEW response \in Responses, FindProducts(response)
        PROVE  World'
    <2>1. \A p \in Products : known'[p] \in RawProducts \cup {NoProduct}
      <3> TAKE p \in Products
      <3>1. CASE \E x \in response : x.id = p
        <4>1. known'[p] \in response
          BY <1>4, <3>1 DEF FindProducts
        <4> QED
          BY <4>1 DEF RawProducts
      <3>2. CASE ~\E x \in response : x.id = p
        <4>1. known'[p] = known[p]
          BY <1>4, <3>2 DEF FindProducts
        <4> QED
          BY <4>1 DEF IInv, World
      <3> QED
        BY <3>1, <3>2
    <2>2. known' \in [Products -> RawProducts \cup {NoProduct}]
      <3>1. known' = [p \in Products |-> known'[p]]
        BY <1>4 DEF FindProducts
      <3> QED
        BY <2>1, <3>1
    <2> QED
      BY <1>4, <2>2 DEF FindProducts, IInv, World
  <1>5. ASSUME NEW w \in Windows, WindowMoves(w)
        PROVE  World'
    <2>1. changes' \in 0 .. MaxChanges
      BY <1>5, GateAssumption DEF WindowMoves, IInv, World
    <2>2. windows' \in [Windows -> {"before", "open", "after"}]
      BY <1>5 DEF WindowMoves, Set, IInv, World
    <2> QED
      BY <1>5, <2>1, <2>2 DEF WindowMoves, IInv, World
  <1> QED
    BY <1>2, <1>3, <1>4, <1>5 DEF IInv

\* No fetch waits longer than its timeout, and no entry gains time.
LEMMA TickKeeps ==
  ASSUME IInv, Tick
  PROVE  IInv'
  <1> USE DEF IInv
  <1>1. World'
    <2>1. UNCHANGED <<origin, changes, windows, known>>
      BY DEF Tick
    <2>2. age' = [d \in Domains |-> [x \in Published[d] |->
            IF x = origin[d] THEN 0
            ELSE IF age[d][x] > Recent THEN age[d][x] ELSE age[d][x] + 1]]
      BY DEF Tick
    <2>3. \A d \in Domains : age'[d] \in [Published[d] -> 0 .. Recent + 1]
      BY <2>2, RecentIsNat DEF World
    <2>4. age' = [d \in Domains |-> age'[d]]
      BY <2>2
    <2> QED
      BY <2>1, <2>3, <2>4 DEF World
  <1>2. Caches'
    <2>1. brands' = Older(brands) /\ agents' = Older(agents)
      BY DEF Tick
    <2> QED
      BY <2>1, OlderIsCache DEF Caches
  <1>3. UNCHANGED <<pc, request, hops, held, todo, raw, claims, passed>>
    BY DEF Tick, checkVars
  <1>4. fetch' = [c \in Callers |->
          IF pc[c] = "fetching" THEN [fetch[c] EXCEPT !.waited = @ + 1] ELSE fetch[c]]
    BY DEF Tick
  <1>5. ASSUME NEW c \in Callers, pc[c] = "fetching"
        PROVE  /\ [fetch[c] EXCEPT !.waited = @ + 1] \in Fetches
               /\ [fetch[c] EXCEPT !.waited = @ + 1].stage = fetch[c].stage
    <2> DEFINE docs == (UNION {Published[d] : d \in Domains}) \cup {Down, NoDoc}
    <2>1. fetch[c] \in [stage : Stages, at : Domains, waited : 0 .. FetchTimeout, doc : docs]
      BY <1>5 DEF Sound, Busy, Fetches
    <2>2. fetch[c].waited < FetchTimeout
      BY <1>5 DEF Tick
    <2> HIDE DEF docs
    <2>3. fetch[c].waited + 1 \in 0 .. FetchTimeout
      BY <2>1, <2>2, GateAssumption
    <2>4. /\ [fetch[c] EXCEPT !.waited = @ + 1] \in
               [stage : Stages, at : Domains, waited : 0 .. FetchTimeout, doc : docs]
          /\ [fetch[c] EXCEPT !.waited = @ + 1].stage = fetch[c].stage
      BY <2>1, <2>3
    <2> QED
      BY <2>4 DEF Fetches, docs
  <1>6. /\ fetch' \in [Callers -> Fetches \cup {NoFetch}]
        /\ \A c \in Callers : pc[c] = "fetching" =>
             fetch'[c] \in Fetches /\ fetch'[c].stage = fetch[c].stage
    BY <1>4, <1>5 DEF Coroutines
  <1>7. Coroutines'
    BY <1>3, <1>6 DEF Coroutines
  <1>8. ASSUME NEW c \in Callers
        PROVE  Sound(c)'
    <2>1. Loading(c)' <=> Loading(c)
      BY <1>3, <1>6 DEF Loading
    <2>2. Busy(c)'
      BY <1>3, <1>6 DEF Sound, Busy
    <2>3. Checking(c)'
      BY <1>3, <2>1 DEF Sound, Checking
    <2>4. \A p : Verified(c, p) => Verified(c, p)'
      BY <1>3 DEF Verified
    <2>5. Covered(c)'
      BY <1>3, <2>1, <2>4 DEF Sound, Covered
    <2> QED
      BY <2>2, <2>3, <2>5 DEF Sound
  <1> QED
    BY <1>1, <1>2, <1>7, <1>8

-----------------------------------------------------------------------------
(* Every state *)

LEMMA InitIInv == Init => IInv
  <1> SUFFICES ASSUME Init PROVE IInv
    OBVIOUS
  <1>1. /\ origin = [d \in Domains |-> origin[d]]
        /\ \A d \in Domains : origin[d] \in Published[d]
    BY DEF Init
  <1>2. /\ age = [d \in Domains |-> age[d]]
        /\ \A d \in Domains : age[d] \in [Published[d] -> 0 .. Recent + 1]
    BY RecentIsNat DEF Init
  <1>3. World
    BY <1>1, <1>2, GateAssumption DEF Init, World
  <1>4. Caches
    <2>1. brands = [q \in Queries |-> NoEntry] /\ agents = [d \in Domains |-> NoEntry]
      BY DEF Init
    <2> QED
      BY <2>1 DEF Caches, IsCache
  <1>5. held = [c \in Callers |-> held[c]]
    BY DEF Init
  <1>6. hops \in [Callers -> 0 .. MaxDocumentHops + 1]
    BY DEF Init, MaxDocumentHops
  <1>7. Coroutines
    BY <1>5, <1>6 DEF Init, Coroutines
  <1>8. \A c \in Callers : Sound(c)
    BY DEF Init, Sound, Busy, Checking, Covered, Loading
  <1> QED
    BY <1>3, <1>4, <1>7, <1>8 DEF IInv

LEMMA StutterKeeps ==
  ASSUME IInv, UNCHANGED vars
  PROVE  IInv'
  BY WorldKept, CachesKept, CallersKept DEF IInv, vars

LEMMA NextKeeps ==
  ASSUME IInv, [Next]_vars
  PROVE  IInv'
  <1>1. ASSUME NEW c \in Callers, Run(c)
        PROVE  IInv'
    BY <1>1, NextProductKeeps, VerifyClaimKeeps DEF Run
  <1>2. ASSUME NEW c \in Callers, Step(c)
        PROVE  IInv'
    <2>1. CASE Receive(c)
      BY <2>1, ReceiveBrandKeeps, ReceiveHouseKeeps, ReceiveLeafKeeps,
         ReceivePublisherKeeps, ReceiveLocationKeeps DEF Receive
    <2> QED
      BY <1>2, <2>1, VerifyOperatorKeeps, PrepareKeeps, LeaveKeeps DEF Step
  <1>3. ASSUME NEW c \in Callers, NEW r \in Requests, BeginBuy(c, r)
        PROVE  IInv'
    BY <1>3, BeginBuyKeeps
  <1>4. ASSUME NEW c \in Callers, AccountRefused(c)
        PROVE  IInv'
    BY <1>4, LeaveKeeps
  <1>5. ASSUME NEW c \in Callers, Answer(c) \/ TimesOut(c)
        PROVE  IInv'
    BY <1>5, FetchEventsKeep
  <1>6. ASSUME \/ \E d \in Domains : \E doc \in Published[d] : Publish(d, doc)
               \/ \E response \in Responses : FindProducts(response)
               \/ \E w \in Windows : WindowMoves(w)
        PROVE  IInv'
    BY <1>6, WorldChangesKeep
  <1>7. CASE Tick
    BY <1>7, TickKeeps
  <1>8. CASE UNCHANGED vars
    BY <1>8, StutterKeeps
  <1> QED
    BY <1>1, <1>2, <1>3, <1>4, <1>5, <1>6, <1>7, <1>8 DEF Next

\* The inductive invariant holds in every state that concurrent buys reach.
THEOREM GateInvariant == Spec => []IInv
  BY InitIInv, NextKeeps, PTL DEF Spec

\* Every variable keeps its type: no cache entry outlives its lifetime, no load
\* follows more redirects than _follow allows.
THEOREM GateTypes == Spec => []TypeOK
  <1>1. IInv => TypeOK
    BY DEF IInv, World, Caches, IsCache, Coroutines, TypeOK
  <1> QED
    BY <1>1, GateInvariant, PTL

\* A request that is about to be sent names only products all of whose claims
\* were verified (_authorize_seller), unless the seller proposes them.
THEOREM GateVerifiesProducts == Spec => []EveryProductVerified
  <1>1. IInv => EveryProductVerified
    <2> SUFFICES ASSUME IInv, NEW c \in Callers, pc[c] = "ready", ~SkipSellerCheck,
                        NEW p \in Packages(request[c])
                 PROVE  \E product \in {x \in RawProducts : x.id = p /\ x.claims # {}} :
                          {product} \X product.claims \subseteq passed[c]
      BY DEF EveryProductVerified
    <2>1. Covered(c)
      BY DEF IInv, Sound
    <2> QED
      BY <2>1 DEF Covered, Verified
  <1> QED
    BY <1>1, GateInvariant, PTL

=============================================================================
