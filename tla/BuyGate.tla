------------------------------ MODULE BuyGate -------------------------------
(***************************************************************************)
(* The gate a buy passes before the seller is asked                        *)
(* (BuyingOrchestrator._prepare_create_media_buy): our operator domain     *)
(* must be authorized in the brand's brand.json, and the seller in the     *)
(* adagents.json of every publisher whose properties the products claim.   *)
(* Both kinds of document are cached (BrandAuthorizationResolver,          *)
(* SalesAgentAuthorizer); loads of concurrent buys race, documents change  *)
(* while they are on their way, and time passes.                           *)
(*                                                                         *)
(* A caller is one coroutine in buy; a step runs from one await to the     *)
(* next.  A fetch is asked by the step that ends at the await, answered by *)
(* the origin (Answer) or given up (TimesOut), and received later.         *)
(***************************************************************************)
EXTENDS AuthorizationDocuments

CONSTANTS
  Callers,
  Requests,       \* what buy may be called with
  Products,       \* product ids of the seller
  Responses,      \* what get_products may return: sets of product objects
  Published,      \* the documents each domain may publish
  Windows,        \* validity windows of grants
  Countries, Placements, PropertyIds,
  Ttl, NegativeTtl, FetchTimeout,
  SkipSellerCheck,    \* settings.skip_sales_agent_authorization_check
  SellerOptimizes,    \* the seller's capability seller_optimized_budget
  LongestRoute,   \* fetches from one a verdict rests on to the end of its load:
                  \* five at most, fewer if documents point less far
  MaxChanges,     \* bound: changes of documents and windows
  NoDoc, NoEntry, NoProduct, NoFetch, NoRequest

MaxDocumentHops == 3

RawProducts == UNION Responses

Domains == DOMAIN Published
Brands == {r.brand : r \in Requests}
Queries == {[id |-> b.id, domain |-> b.domain] : b \in Brands}

\* Ages stop here: a document gone longer is simply gone.
Recent == Ttl + LongestRoute * FetchTimeout

BrandRefs == [domain : Domains \cup {Operator}, id : Domains \cup {NoBrand},
              countries : SUBSET Countries]
Claims == [domain : Domains \cup {NoDomain},
           selector : [type : {"all", "by_id", "by_tag"}, ids : SUBSET PropertyIds]]

\* The resolver's fetches follow the brand's documents, then those of its
\* house, or ask a leaf; the authorizer's go to a publisher, then a location.
Stages == {"brand", "house", "leaf", "publisher", "location"}

Fetches == [stage : Stages, at : Domains, waited : 0 .. FetchTimeout,
            doc : (UNION {Published[d] : d \in Domains}) \cup {Down, NoDoc}]

ASSUME InputAssumption ==
  /\ Requests \subseteq
       [brand : BrandRefs, packages : SUBSET Products, product : Products,
        proposal : BOOLEAN, goals : BOOLEAN, budgeted : BOOLEAN,
        allocation : {"none", "fixed", "seller_optimized", "unknown"},
        countries : SUBSET Countries]
  /\ RawProducts \subseteq
       [id : Products, placements : SUBSET Placements, claims : SUBSET Claims]

\* Whoever a document points to is a domain that publishes, if only that it is
\* down.
ASSUME PublishedAssumption ==
  \A d \in Domains : \A doc \in Published[d] :
    /\ doc # NoDoc
    /\ doc.kind = "moved" => doc.to \in Domains
    /\ doc.kind = "canonical" => doc.house \in Domains \cup {NoDomain}
    /\ doc.kind = "portfolio" => doc.refs \subseteq Domains

ASSUME GateAssumption ==
  /\ NoDoc # Down /\ NoFetch \notin Fetches
  /\ Ttl \in Nat \ {0} /\ NegativeTtl \in Nat \ {0}
  /\ FetchTimeout \in Nat \ {0} /\ LongestRoute \in Nat \ {0}
  /\ MaxChanges \in Nat
  /\ SkipSellerCheck \in BOOLEAN /\ SellerOptimizes \in BOOLEAN

VARIABLES
  origin,    \* what each domain publishes now
  age,       \* ticks since it last published a document (history)
  changes,
  windows,   \* "before", "open" or "after"
  brands,    \* BrandAuthorizationResolver._cache
  agents,    \* SalesAgentAuthorizer._cache
  known,     \* BuyingOrchestrator._products
  pc,        \* where a caller is
  request,   \* what it buys
  fetch,     \* the fetch it awaits
  hops,      \* redirects followed by its load
  held,      \* the document its load keeps while it fetches another one
  todo,      \* products left to verify
  raw,       \* the product object it is verifying
  claims,    \* selectors left of it
  passed     \* <<product object, claim>> pairs it verified (history)

worldVars == <<origin, age, changes, windows, known>>
loadVars == <<fetch, hops, held>>
checkVars == <<todo, raw, claims, passed>>
vars == <<worldVars, brands, agents, pc, request, loadVars, checkVars>>

Open == {w \in Windows : windows[w] = "open"}
QueryOf(c) == [id |-> request[c].brand.id, domain |-> request[c].brand.domain]

Init ==
  /\ origin \in {f \in [Domains -> UNION {Published[d] : d \in Domains}] :
                   \A d \in Domains : f[d] \in Published[d]}
  /\ age = [d \in Domains |-> [x \in Published[d] |->
              IF x = origin[d] THEN 0 ELSE Recent + 1]]
  /\ changes = 0
  /\ windows \in [Windows -> {"before", "open"}]
  /\ brands = [q \in Queries |-> NoEntry]
  /\ agents = [d \in Domains |-> NoEntry]
  /\ known = [p \in Products |-> NoProduct]
  /\ pc = [c \in Callers |-> "idle"]
  /\ request = [c \in Callers |-> NoRequest]
  /\ fetch = [c \in Callers |-> NoFetch]
  /\ hops = [c \in Callers |-> 0]
  /\ held = [c \in Callers |-> NoDoc]
  /\ todo = [c \in Callers |-> {}]
  /\ raw = [c \in Callers |-> NoProduct]
  /\ claims = [c \in Callers |-> {}]
  /\ passed = [c \in Callers |-> {}]

-----------------------------------------------------------------------------
(* Steps of a caller. *)

Set(f, c, value) == [f EXCEPT ![c] = value]

\* buy returns, with a request sent or a failure recorded.
Return(c) ==
  /\ pc' = Set(pc, c, "idle")
  /\ request' = Set(request, c, NoRequest)
  /\ fetch' = Set(fetch, c, NoFetch)
  /\ hops' = Set(hops, c, 0)
  /\ held' = Set(held, c, NoDoc)
  /\ todo' = Set(todo, c, {})
  /\ raw' = Set(raw, c, NoProduct)
  /\ claims' = Set(claims, c, {})
  /\ passed' = Set(passed, c, {})

\* Await a fetch of a domain's document.
Ask(c, stage, domain) ==
  /\ pc' = Set(pc, c, "fetching")
  /\ fetch' = Set(fetch, c,
       [stage |-> stage, at |-> domain, doc |-> NoDoc, waited |-> 0])

EndLoad(c) ==
  /\ fetch' = Set(fetch, c, NoFetch)
  /\ hops' = Set(hops, c, 0)
  /\ held' = Set(held, c, NoDoc)

Packages(r) == IF r.packages # {} THEN r.packages ELSE {r.product}

BeginBuy(c, r) ==
  /\ pc[c] = "idle"
  /\ pc' = Set(pc, c, "operator")
  /\ request' = Set(request, c, r)
  /\ UNCHANGED <<worldVars, brands, agents, loadVars, checkVars>>

-----------------------------------------------------------------------------
(* BrandAuthorizationResolver *)

\* An entry that has expired is as good as none.
Fresh(entry) == entry # NoEntry

OperatorPasses_RankedProduct(c) ==
  /\ pc' = Set(pc, c, "products")
  /\ todo' = Set(todo, c, IF SkipSellerCheck THEN {} ELSE {request[c].product})
  /\ EndLoad(c)
  /\ UNCHANGED <<request, raw, claims, passed>>

\* On to the sellers' check, with the products it is about.
OperatorPasses(c) ==
  /\ pc' = Set(pc, c, "products")
  /\ todo' = Set(todo, c, IF SkipSellerCheck THEN {} ELSE Packages(request[c]))
  /\ EndLoad(c)
  /\ UNCHANGED <<request, raw, claims, passed>>

\* verify_operator, once it has a resolution.
JudgeOperator(c, resolution) ==
  IF OperatorAuthorized(resolution, request[c].brand.countries, Open)
  THEN OperatorPasses(c) ELSE Return(c)

\* verify_operator and resolve, up to an answer or the first fetch.
VerifyOperator(c) ==
  /\ pc[c] = "operator"
  /\ LET q == QueryOf(c) IN
     \/ q.domain = Operator /\ OperatorPasses(c)
     \/ /\ q.domain # Operator /\ Fresh(brands[q])
        /\ IF brands[q].value = NoDoc THEN Return(c)
           ELSE JudgeOperator(c, brands[q].value)
     \/ /\ q.domain # Operator /\ ~Fresh(brands[q])
        /\ Ask(c, "brand", q.domain)
        /\ UNCHANGED <<request, hops, held, checkVars>>
  /\ UNCHANGED <<worldVars, brands, agents>>

\* The load succeeds: the result is cached from now on, and judged.
Resolved(c, resolution) ==
  /\ brands' = Set(brands, QueryOf(c), [left |-> Ttl, value |-> resolution])
  /\ JudgeOperator(c, resolution)

\* Failures to get at the documents are cached ...
Unavailable(c) ==
  /\ brands' = Set(brands, QueryOf(c), [left |-> NegativeTtl, value |-> NoDoc])
  /\ Return(c)

\* ... what they say against the query is not.
Refused(c) == Return(c) /\ UNCHANGED brands

Landed(c, stage) ==
  /\ pc[c] = "fetching" /\ fetch[c].doc # NoDoc /\ fetch[c].stage = stage

Lost_NoLimit(c) == fetch[c].doc = Down

\* _follow gives up after the fetch that follows the last redirect allowed.
Lost(c) ==
  \/ fetch[c].doc = Down
  \/ hops[c] = MaxDocumentHops + 1

FollowOn(c) ==
  /\ ~Lost(c) /\ fetch[c].doc.kind = "moved"
  /\ hops' = Set(hops, c, hops[c] + 1)
  /\ Ask(c, fetch[c].stage, fetch[c].doc.to)
  /\ UNCHANGED <<request, held, checkVars, brands>>

\* _resolve_portfolio_brand
ResolvePortfolio(c, doc) ==
  LET q == QueryOf(c) IN
  \/ /\ Ambiguous(doc, q) \/ MissingFromPortfolio(doc, q)
     /\ Refused(c)
  \/ /\ ~Ambiguous(doc, q) /\ NeedsLeaf(doc, q)
     /\ held' = Set(held, c, doc)
     /\ hops' = Set(hops, c, 0)
     /\ Ask(c, "leaf", PortfolioBrand(doc, q))
     /\ UNCHANGED <<request, checkVars, brands>>
  \/ /\ ~Ambiguous(doc, q) /\ ~MissingFromPortfolio(doc, q) /\ ~NeedsLeaf(doc, q)
     /\ Resolved(c, Resolution(PortfolioBrand(doc, q), doc.operators,
                               HouseVouches(doc, q)))

\* _resolve_canonical, up to the house
ResolveCanonical(c, doc) ==
  LET q == QueryOf(c) IN
  \/ q.id \notin {NoBrand, doc.id} /\ Refused(c)
  \/ /\ q.id \in {NoBrand, doc.id} /\ doc.house = NoDomain
     /\ Resolved(c, Resolution(doc.id, {}, FALSE))
  \/ /\ q.id \in {NoBrand, doc.id} /\ doc.house # NoDomain
     /\ held' = Set(held, c, doc)
     /\ hops' = Set(hops, c, 0)
     /\ Ask(c, "house", doc.house)
     /\ UNCHANGED <<request, checkVars, brands>>

\* _resolve_uncached: the brand's own documents.
ReceiveBrand(c) ==
  /\ Landed(c, "brand")
  /\ LET doc == fetch[c].doc IN
     \/ (Lost(c) \/ doc.kind = "other") /\ Unavailable(c)
     \/ FollowOn(c)
     \/ ~Lost(c) /\ doc.kind = "agent" /\ Refused(c)
     \/ ~Lost(c) /\ doc.kind = "portfolio" /\ ResolvePortfolio(c, doc)
     \/ ~Lost(c) /\ doc.kind = "canonical" /\ ResolveCanonical(c, doc)
  /\ UNCHANGED <<worldVars, agents>>

\* _resolve_canonical: the documents of the house.
ReceiveHouse(c) ==
  /\ Landed(c, "house")
  /\ LET doc == fetch[c].doc IN
     \/ Lost(c) /\ Unavailable(c)
     \/ FollowOn(c)
     \/ ~Lost(c) /\ doc.kind \notin {"moved", "portfolio"} /\ Refused(c)
     \/ /\ ~Lost(c) /\ doc.kind = "portfolio"
        /\ Resolved(c, Resolution(held[c].id, doc.operators,
                         HouseReciprocates(doc, held[c], QueryOf(c))))
  /\ UNCHANGED <<worldVars, agents>>

\* _leaf_reciprocates: a leaf that cannot be fetched is unverified.
ReceiveLeaf(c) ==
  /\ Landed(c, "leaf")
  /\ Resolved(c, Resolution(PortfolioBrand(held[c], QueryOf(c)), held[c].operators,
                            LeafReciprocates(fetch[c].doc, held[c])))
  /\ UNCHANGED <<worldVars, agents>>

-----------------------------------------------------------------------------
(* SalesAgentAuthorizer *)

\* _authorize_seller and verify_product: the product object found now is the
\* one whose claims are verified.  Without products left, on to the account.
NextProduct(c) ==
  /\ pc[c] = "products"
  /\ \/ /\ todo[c] = {}
        /\ pc' = Set(pc, c, "account")
        /\ UNCHANGED <<request, loadVars, checkVars>>
     \/ \E p \in todo[c] :
          \/ known[p] = NoProduct /\ Return(c)
          \/ known[p] # NoProduct /\ known[p].claims = {} /\ Return(c)
          \/ /\ known[p] # NoProduct /\ known[p].claims # {}
             /\ raw' = Set(raw, c, known[p])
             /\ claims' = Set(claims, c, known[p].claims)
             /\ pc' = Set(pc, c, "claims")
             /\ UNCHANGED <<request, loadVars, todo, passed>>
  /\ UNCHANGED <<worldVars, brands, agents>>

\* _verify_selector, once it has a document.  With its last claim the product
\* is done.
JudgeClaim(c, claim, doc) ==
  IF SelectorAuthorized(claim, doc,
       [countries |-> request[c].countries, placements |-> raw[c].placements], Open)
  THEN /\ passed' = Set(passed, c, passed[c] \cup {<<raw[c], claim>>})
       /\ EndLoad(c)
       /\ IF claims[c] = {claim}
          THEN /\ pc' = Set(pc, c, "products")
               /\ todo' = Set(todo, c, todo[c] \ {raw[c].id})
               /\ raw' = Set(raw, c, NoProduct)
               /\ claims' = Set(claims, c, {})
          ELSE /\ pc' = Set(pc, c, "claims")
               /\ claims' = Set(claims, c, claims[c] \ {claim})
               /\ UNCHANGED <<todo, raw>>
       /\ UNCHANGED request
  ELSE Return(c)

\* _verify_selector and get_adagents, up to an answer or the first fetch.
\* A claim on no single publisher names no domain.
VerifyClaim(c) ==
  /\ pc[c] = "claims"
  /\ \E claim \in claims[c] :
       \/ claim.domain = NoDomain /\ Return(c)
       \/ /\ claim.domain # NoDomain /\ Fresh(agents[claim.domain])
          /\ IF agents[claim.domain].value = NoDoc THEN Return(c)
             ELSE JudgeClaim(c, claim, agents[claim.domain].value)
       \/ /\ claim.domain # NoDomain /\ ~Fresh(agents[claim.domain])
          /\ Ask(c, "publisher", claim.domain)
          /\ held' = Set(held, c, claim)
          /\ UNCHANGED <<request, hops, checkVars>>
  /\ UNCHANGED <<worldVars, brands, agents>>

\* get_adagents: what _load found is cached under the publisher's domain.
Loaded(c, doc) ==
  /\ agents' = Set(agents, held[c].domain, [left |-> Ttl, value |-> doc])
  /\ JudgeClaim(c, held[c], doc)

NotLoaded(c) ==
  /\ agents' = Set(agents, held[c].domain, [left |-> NegativeTtl, value |-> NoDoc])
  /\ Return(c)

ReceivePublisher(c) ==
  /\ Landed(c, "publisher")
  /\ LET doc == fetch[c].doc IN
     \/ doc.kind \notin {"moved", "agents"} /\ NotLoaded(c)
     \/ doc.kind = "agents" /\ Loaded(c, doc)
     \/ /\ doc.kind = "moved"
        /\ Ask(c, "location", doc.to)
        /\ UNCHANGED <<request, hops, held, checkVars, agents>>
  /\ UNCHANGED <<worldVars, brands>>

\* One hop only: a location that points on is an error.
ReceiveLocation(c) ==
  /\ Landed(c, "location")
  /\ IF fetch[c].doc.kind = "agents" THEN Loaded(c, fetch[c].doc) ELSE NotLoaded(c)
  /\ UNCHANGED <<worldVars, brands>>

-----------------------------------------------------------------------------
(* The request *)

\* _check_seller_optimized, resolve_budget_allocation and the checks of
\* build_create_media_buy_request.
Buildable(r) ==
  /\ r.allocation = "seller_optimized" => SellerOptimizes /\ r.goals
  /\ r.allocation # "unknown"
  /\ r.proposal => r.allocation = "none"
  /\ ~r.proposal /\ r.packages # {} /\ r.allocation \in {"none", "fixed"} => r.budgeted

\* The account is resolved or not; then the request is built and stored.
Prepare(c) ==
  /\ pc[c] = "account"
  /\ \/ Buildable(request[c]) /\ pc' = Set(pc, c, "ready")
        /\ UNCHANGED <<request, loadVars, checkVars>>
     \/ ~Buildable(request[c]) /\ Return(c)
  /\ UNCHANGED <<worldVars, brands, agents>>

AccountRefused(c) ==
  /\ pc[c] = "account"
  /\ Return(c)
  /\ UNCHANGED <<worldVars, brands, agents>>

Send(c) ==
  /\ pc[c] = "ready"
  /\ Return(c)
  /\ UNCHANGED <<worldVars, brands, agents>>

-----------------------------------------------------------------------------
(* The world. *)

\* The origin answers a fetch with what it publishes at that moment.
Answer(c) ==
  /\ pc[c] = "fetching" /\ fetch[c].doc = NoDoc
  /\ fetch' = [fetch EXCEPT ![c].doc = origin[fetch[c].at]]
  /\ UNCHANGED <<worldVars, brands, agents, pc, request, hops, held, checkVars>>

\* asyncio.timeout in fetch_json, whether or not an answer is on its way.
TimesOut(c) ==
  /\ pc[c] = "fetching" /\ fetch[c].waited = FetchTimeout
  /\ fetch[c].doc # Down
  /\ fetch' = [fetch EXCEPT ![c].doc = Down]
  /\ UNCHANGED <<worldVars, brands, agents, pc, request, hops, held, checkVars>>

\* A domain publishes another document.
Publish(d, doc) ==
  /\ changes < MaxChanges /\ doc # origin[d]
  /\ changes' = changes + 1
  /\ origin' = Set(origin, d, doc)
  /\ age' = [age EXCEPT ![d][doc] = 0]
  /\ UNCHANGED <<windows, known, brands, agents, pc, request, loadVars, checkVars>>

\* A search stores the seller's product objects over the ones it had.
FindProducts(response) ==
  /\ known' = [p \in Products |->
       IF \E x \in response : x.id = p
       THEN CHOOSE x \in response : x.id = p ELSE known[p]]
  /\ UNCHANGED <<origin, age, changes, windows, brands, agents, pc, request,
                 loadVars, checkVars>>

\* The wall clock reaches a valid_from, or a valid_until.
WindowMoves(w) ==
  /\ changes < MaxChanges /\ windows[w] # "after"
  /\ changes' = changes + 1
  /\ windows' = Set(windows, w, IF windows[w] = "before" THEN "open" ELSE "after")
  /\ UNCHANGED <<origin, age, known, brands, agents, pc, request, loadVars, checkVars>>

Older_NeverExpires(cache) ==
  [k \in DOMAIN cache |->
     IF Fresh(cache[k]) /\ cache[k].left > 1
     THEN [cache[k] EXCEPT !.left = @ - 1] ELSE cache[k]]

Older_KeepsErrors(cache) ==
  [k \in DOMAIN cache |->
     IF Fresh(cache[k]) /\ (cache[k].left > 1 \/ cache[k].value = NoDoc)
     THEN [cache[k] EXCEPT !.left = IF @ > 1 THEN @ - 1 ELSE 1] ELSE NoEntry]

\* expires_at counts down.
Older(cache) ==
  [k \in DOMAIN cache |->
     IF Fresh(cache[k]) /\ cache[k].left > 1
     THEN [cache[k] EXCEPT !.left = @ - 1] ELSE NoEntry]

\* Time passes; no fetch outlives its timeout.
Tick ==
  /\ \A c \in Callers : pc[c] = "fetching" => fetch[c].waited < FetchTimeout
  /\ age' = [d \in Domains |-> [x \in Published[d] |->
       IF x = origin[d] THEN 0
       ELSE IF age[d][x] > Recent THEN age[d][x] ELSE age[d][x] + 1]]
  /\ brands' = Older(brands)
  /\ agents' = Older(agents)
  /\ fetch' = [c \in Callers |->
       IF pc[c] = "fetching" THEN [fetch[c] EXCEPT !.waited = @ + 1] ELSE fetch[c]]
  /\ UNCHANGED <<origin, changes, windows, known, pc, request, hops, held, checkVars>>

Receive(c) ==
  \/ ReceiveBrand(c) \/ ReceiveHouse(c) \/ ReceiveLeaf(c)
  \/ ReceivePublisher(c) \/ ReceiveLocation(c)

Run(c) == NextProduct(c) \/ VerifyClaim(c)

Step(c) == VerifyOperator(c) \/ Receive(c) \/ Prepare(c) \/ Send(c)

\* A coroutine that has work to do before its next await goes on with it;
\* everything else waits.
Running(c) == pc[c] \in {"products", "claims"}
Quiet == \A c \in Callers : ~Running(c)

Next ==
  \/ \E c \in Callers : Run(c)
  \/ \E c \in Callers, r \in Requests : Quiet /\ BeginBuy(c, r)
  \/ \E c \in Callers : Quiet /\ Step(c)
  \/ \E c \in Callers : Quiet /\ AccountRefused(c)
  \/ \E c \in Callers : Quiet /\ Answer(c)
  \/ \E c \in Callers : Quiet /\ TimesOut(c)
  \/ \E d \in Domains : \E doc \in Published[d] : Quiet /\ Publish(d, doc)
  \/ \E response \in Responses : Quiet /\ FindProducts(response)
  \/ \E w \in Windows : Quiet /\ WindowMoves(w)
  \/ Quiet /\ Tick

Spec == Init /\ [][Next]_vars

\* The event loop comes round to every coroutine that stays ready, and to the
\* clock; buys are tried again and again; the timeout ends a fetch that is not
\* answered.
Fairness ==
  /\ WF_vars(Tick)
  /\ \A c \in Callers :
       /\ WF_vars(\E r \in Requests : BeginBuy(c, r))
       /\ WF_vars(Run(c)) /\ WF_vars(Step(c)) /\ WF_vars(TimesOut(c))

FairSpec == Spec /\ Fairness

-----------------------------------------------------------------------------
(* Properties *)

Lifetimes == (1 .. Ttl) \cup (1 .. NegativeTtl)

\* Every variable has its type: cache entries live at most their TTL, and a
\* load follows at most one redirect more than it may use.
TypeOK ==
  /\ \A d \in Domains : origin[d] \in Published[d]
  /\ \A d \in Domains : age[d] \in [Published[d] -> 0 .. Recent + 1]
  /\ changes \in 0 .. MaxChanges
  /\ windows \in [Windows -> {"before", "open", "after"}]
  /\ \A q \in Queries : brands[q] # NoEntry => brands[q].left \in Lifetimes
  /\ \A d \in Domains : agents[d] # NoEntry => agents[d].left \in Lifetimes
  /\ known \in [Products -> RawProducts \cup {NoProduct}]
  /\ pc \in [Callers -> {"idle", "operator", "fetching", "products", "claims",
                         "account", "ready"}]
  /\ request \in [Callers -> Requests \cup {NoRequest}]
  /\ fetch \in [Callers -> Fetches \cup {NoFetch}]
  /\ hops \in [Callers -> 0 .. MaxDocumentHops + 1]
  /\ todo \in [Callers -> SUBSET Products]
  /\ raw \in [Callers -> RawProducts \cup {NoProduct}]
  /\ claims \in [Callers -> SUBSET Claims]
  /\ passed \in [Callers -> SUBSET (RawProducts \X Claims)]

\* What a domain has published within the lifetime of a cache entry and the
\* time the load behind it took.
RecentDocs(d) == {x \in Published[d] : age[d][x] <= Recent}
RecentOf(kind) == UNION {{x \in RecentDocs(d) : x.kind = kind} : d \in Domains}

\* The brand asked for belongs to this house: it is published by the house
\* itself, or both say so.
BelongsTo(query, brand, house) ==
  \/ brand = NoBrand /\ query.domain = house.house
  \/ brand \in house.inline
  \/ /\ brand \in house.refs
     /\ \E leaf \in RecentOf("canonical") :
          \/ leaf.house = house.house
          \/ leaf.id = brand /\ query.domain = brand

\* We act for ourselves, or for a brand whose house has recently named us, in
\* a grant whose window is open, and to which the brand belongs.
MayActFor(c) ==
  LET q == QueryOf(c) IN
  \/ q.domain = Operator
  \/ \E house \in RecentOf("portfolio") :
       \E brand \in {Wanted(q), NoBrand} \cup house.inline \cup house.refs :
         /\ BelongsTo(q, brand, house)
         /\ \E entry \in house.operators :
              OperatorEntryAuthorizes(entry, brand, request[c].brand.countries, Open)

Resolving(c) ==
  \/ pc[c] = "operator"
  \/ pc[c] = "fetching" /\ fetch[c].stage \in {"brand", "house", "leaf"}

\* No buy passes the operator check on the strength of a brand document that
\* was withdrawn longer ago than a cache entry lives, whichever loads raced
\* and in whatever order they ended (BrandAuthorizationResolver.verify_operator).
ActsForRecentBrand ==
  [][\A c \in Callers :
       Resolving(c) /\ pc'[c] = "products" => MayActFor(c)]_vars

\* No claim is verified but by a grant that the publisher, or the location it
\* pointed to, has published so recently (SalesAgentAuthorizer.verify_product).
SellerGranted(c, claim) ==
  \E doc \in RecentOf("agents") :
    /\ \/ doc \in RecentDocs(claim.domain)
       \/ \E pointer \in RecentDocs(claim.domain) :
            pointer.kind = "moved" /\ doc \in RecentDocs(pointer.to)
    /\ SelectorAuthorized(claim, doc, [countries |-> request[c].countries,
                                      placements |-> raw[c].placements], Open)

ClaimsRecentlyGranted ==
  [][\A c \in Callers :
       \A pair \in passed'[c] \ passed[c] : SellerGranted(c, pair[2])]_vars

\* A request that is about to be sent names only products of which some object
\* the seller returned has claims, all of them verified (_authorize_seller).
\* A proposal's products are the seller's to know.
EveryProductVerified ==
  \A c \in Callers :
    pc[c] = "ready" /\ ~SkipSellerCheck /\ ~request[c].proposal =>
      \A p \in Packages(request[c]) :
        \E product \in {x \in RawProducts : x.id = p /\ x.claims # {}} :
          {product} \X product.claims \subseteq passed[c]

\* Everything a buy needs is published, found and in its window.
Granting(r) ==
  LET q == [domain |-> r.brand.domain, id |-> r.brand.id] IN
  /\ \E h \in Domains :
       /\ origin[h].kind = "portfolio" /\ origin[h].house = h
       /\ origin[q.domain].kind = "canonical" /\ origin[q.domain].house = h
       /\ HouseReciprocates(origin[h], origin[q.domain], q)
       /\ \E e \in origin[h].operators :
            OperatorEntryAuthorizes(e, origin[q.domain].id, r.brand.countries, Open)
  /\ \A p \in Packages(r) :
       /\ known[p] # NoProduct /\ known[p].claims # {}
       /\ \A claim \in known[p].claims :
            /\ origin[claim.domain].kind = "agents"
            /\ SelectorAuthorized(claim, origin[claim.domain],
                 [countries |-> r.countries, placements |-> known[p].placements], Open)

\* A refusal is not for ever: once the documents grant what all requests need,
\* and fetches are answered in time, buys get through, whatever was cached
\* before (the negative TTL of both caches, and the positive one).
RefusalHeals ==
  /\ <>[](\A r \in Requests : Granting(r))
  /\ <>[][\A c \in Callers : ~TimesOut(c)]_vars
  => []<>(\E c \in Callers : pc[c] = "account")

=============================================================================
