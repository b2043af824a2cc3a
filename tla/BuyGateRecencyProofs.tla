------------------------ MODULE BuyGateRecencyProofs -------------------------
(***************************************************************************)
(* What the gate lets pass rests on documents published recently: no       *)
(* verdict outlives a document by more than the load behind it took and    *)
(* the lifetime of a cache entry, whichever loads race and in whatever     *)
(* order they end.                                                         *)
(***************************************************************************)
EXTENDS BuyGateProofs, Integers

-----------------------------------------------------------------------------
(* The inductive invariant *)

\* The domain published this document n ticks ago at most.
Known(ages, d, doc, n) == d \in Domains /\ doc \in Published[d] /\ ages[d][doc] <= n

Current == \A d \in Domains : age[d][origin[d]] = 0

\* A document that has landed was there when the fetch was under way.
Landing(c) ==
  pc[c] = "fetching" /\ fetch[c].doc \notin {NoDoc, Down} =>
    Known(age, fetch[c].at, fetch[c].doc, fetch[c].waited)

\* What a load keeps from its earlier fetches is as old as these took.
Kept(c) ==
  pc[c] = "fetching" =>
    /\ fetch[c].stage = "house" =>
         /\ held[c].kind = "canonical"
         /\ \E d \in Domains :
              Known(age, d, held[c], FetchTimeout * (hops[c] + 1) + fetch[c].waited)
    /\ fetch[c].stage = "leaf" =>
         /\ held[c].kind = "portfolio"
         /\ PortfolioBrand(held[c], QueryOf(c)) \in held[c].refs
         /\ \E d \in Domains : Known(age, d, held[c], FetchTimeout + fetch[c].waited)
    /\ fetch[c].stage = "publisher" => fetch[c].at = held[c].domain
    /\ fetch[c].stage = "location" =>
         \E pointer \in Published[held[c].domain] :
           /\ Known(age, held[c].domain, pointer, FetchTimeout + fetch[c].waited)
           /\ pointer.kind = "moved" /\ pointer.to = fetch[c].at

\* The documents behind a brand's resolution: its house's, and the brand's own
\* where the house only refers to it.
LeafKnown(ages, brand, query, house, n) ==
  \E d \in Domains : \E leaf \in Published[d] :
    /\ leaf.kind = "canonical" /\ Known(ages, d, leaf, n)
    /\ leaf.house = house.house \/ (leaf.id = brand /\ query.domain = brand)

Vouched(ages, resolution, query, n) ==
  resolution.verified =>
    \E d \in Domains : \E house \in Published[d] :
      /\ house.kind = "portfolio" /\ Known(ages, d, house, n)
      /\ resolution.operators = house.operators
      /\ \/ resolution.brand = NoBrand /\ query.domain = house.house
         \/ resolution.brand \in house.inline
         \/ /\ resolution.brand \in house.refs
            /\ LeafKnown(ages, resolution.brand, query, house, n)

\* The publisher's own document, or that of the location it pointed to.
Routed(ages, domain, doc, n) ==
  /\ doc.kind = "agents"
  /\ \/ Known(ages, domain, doc, n)
     \/ \E pointer \in Published[domain] :
          pointer.kind = "moved" /\ Known(ages, domain, pointer, n) /\ Known(ages, pointer.to, doc, n)

\* A brand's load takes five fetches at most, from the first document its
\* result rests on; a publisher's takes two.
BrandRoute == 5 * FetchTimeout
AgentsRoute == 2 * FetchTimeout

Positive(entry) == entry # NoEntry /\ entry.value # NoDoc

BrandsRecent ==
  \A q \in Queries : Positive(brands[q]) =>
    /\ brands[q].left <= Ttl
    /\ Vouched(age, brands[q].value, q, BrandRoute + Ttl - brands[q].left)

AgentsRecent ==
  \A d \in Domains : Positive(agents[d]) =>
    /\ agents[d].left <= Ttl
    /\ Routed(age, d, agents[d].value, AgentsRoute + Ttl - agents[d].left)

Traced(c) == Landing(c) /\ Kept(c)

RInv == Current /\ BrandsRecent /\ AgentsRecent /\ \A c \in Callers : Traced(c)

-----------------------------------------------------------------------------
(* Documents get older with time only *)

\* In this step no document gets older by more than k.
Aged(k) == \A d \in Domains : \A doc \in Published[d] : age'[d][doc] <= age[d][doc] + k

LEMMA AgeIsNat ==
  ASSUME IInv, NEW d \in Domains, NEW doc \in Published[d]
  PROVE  age[d][doc] \in Nat
  BY RecentIsNat DEF IInv, World

LEMMA AgeIsNatNext ==
  ASSUME IInv', NEW d \in Domains, NEW doc \in Published[d]
  PROVE  age'[d][doc] \in Nat
  BY RecentIsNat DEF IInv, World

LEMMA KnownLater ==
  ASSUME IInv, IInv', NEW k \in Nat, Aged(k), NEW n \in Int, NEW m \in Int, n + k <= m,
         NEW d, NEW doc, Known(age, d, doc, n)
  PROVE  Known(age', d, doc, m)
  <1>1. d \in Domains /\ doc \in Published[d] /\ age[d][doc] <= n
    BY DEF Known
  <1>2. age[d][doc] \in Nat /\ age'[d][doc] \in Nat
    BY <1>1, AgeIsNat, AgeIsNatNext
  <1>3. age'[d][doc] <= age[d][doc] + k
    BY <1>1 DEF Aged
  <1>4. age'[d][doc] <= m
    BY <1>1, <1>2, <1>3
  <1> QED
    BY <1>1, <1>4 DEF Known

LEMMA LeafKnownLater ==
  ASSUME IInv, IInv', NEW k \in Nat, Aged(k), NEW n \in Int, NEW m \in Int, n + k <= m,
         NEW b, NEW q, NEW house, LeafKnown(age, b, q, house, n)
  PROVE  LeafKnown(age', b, q, house, m)
  <1>1. PICK d \in Domains : \E leaf \in Published[d] :
          /\ leaf.kind = "canonical" /\ Known(age, d, leaf, n)
          /\ leaf.house = house.house \/ (leaf.id = b /\ q.domain = b)
    BY DEF LeafKnown
  <1>2. PICK leaf \in Published[d] :
          /\ leaf.kind = "canonical" /\ Known(age, d, leaf, n)
          /\ leaf.house = house.house \/ (leaf.id = b /\ q.domain = b)
    BY <1>1
  <1>3. Known(age', d, leaf, m)
    BY <1>2, KnownLater
  <1> QED
    BY <1>2, <1>3 DEF LeafKnown

LEMMA VouchedLater ==
  ASSUME IInv, IInv', NEW k \in Nat, Aged(k), NEW n \in Int, NEW m \in Int, n + k <= m,
         NEW x, NEW q, Vouched(age, x, q, n)
  PROVE  Vouched(age', x, q, m)
  <1> SUFFICES ASSUME x.verified
               PROVE  \E d \in Domains : \E house \in Published[d] :
                        /\ house.kind = "portfolio" /\ Known(age', d, house, m)
                        /\ x.operators = house.operators
                        /\ \/ x.brand = NoBrand /\ q.domain = house.house
                           \/ x.brand \in house.inline
                           \/ x.brand \in house.refs /\ LeafKnown(age', x.brand, q, house, m)
    BY DEF Vouched
  <1>1. PICK d \in Domains : \E house \in Published[d] :
          /\ house.kind = "portfolio" /\ Known(age, d, house, n)
          /\ x.operators = house.operators
          /\ \/ x.brand = NoBrand /\ q.domain = house.house
             \/ x.brand \in house.inline
             \/ x.brand \in house.refs /\ LeafKnown(age, x.brand, q, house, n)
    BY DEF Vouched
  <1>2. PICK house \in Published[d] :
          /\ house.kind = "portfolio" /\ Known(age, d, house, n)
          /\ x.operators = house.operators
          /\ \/ x.brand = NoBrand /\ q.domain = house.house
             \/ x.brand \in house.inline
             \/ x.brand \in house.refs /\ LeafKnown(age, x.brand, q, house, n)
    BY <1>1
  <1>3. Known(age', d, house, m)
    BY <1>2, KnownLater
  <1>4. LeafKnown(age, x.brand, q, house, n) => LeafKnown(age', x.brand, q, house, m)
    BY LeafKnownLater
  <1> QED
    BY <1>2, <1>3, <1>4

LEMMA RoutedLater ==
  ASSUME IInv, IInv', NEW k \in Nat, Aged(k), NEW n \in Int, NEW m \in Int, n + k <= m,
         NEW d, NEW doc, Routed(age, d, doc, n)
  PROVE  Routed(age', d, doc, m)
  <1>1. Known(age, d, doc, n) => Known(age', d, doc, m)
    BY KnownLater
  <1>2. ASSUME NEW pointer \in Published[d], pointer.kind = "moved",
               Known(age, d, pointer, n), Known(age, pointer.to, doc, n)
        PROVE  Routed(age', d, doc, m)
    <2>1. Known(age', d, pointer, m) /\ Known(age', pointer.to, doc, m)
      BY <1>2, KnownLater
    <2> QED
      BY <1>2, <2>1 DEF Routed
  <1> QED
    BY <1>1, <1>2 DEF Routed

\* Only the clock makes documents older.
LEMMA PublishAges ==
  ASSUME IInv, NEW d \in Domains, NEW doc \in Published[d], Publish(d, doc)
  PROVE  Aged(0)
  <1>1. \A x \in Domains : \A y \in Published[x] :
          age'[x][y] = 0 \/ age'[x][y] = age[x][y]
    BY DEF Publish, IInv, World
  <1>2. \A x \in Domains : \A y \in Published[x] : age'[x][y] <= age[x][y] + 0
    BY <1>1, AgeIsNat
  <1> QED
    BY <1>2 DEF Aged

LEMMA TickAges ==
  ASSUME IInv, Tick
  PROVE  Aged(1)
  <1>1. ASSUME NEW d \in Domains, NEW doc \in Published[d]
        PROVE  age'[d][doc] <= age[d][doc] + 1
    <2>1. age'[d][doc] = IF doc = origin[d] THEN 0
                         ELSE IF age[d][doc] > Recent THEN age[d][doc] ELSE age[d][doc] + 1
      BY DEF Tick
    <2> QED
      BY <2>1, AgeIsNat
  <1> QED
    BY <1>1 DEF Aged

\* A domain's document is as new as can be.
LEMMA CurrentKept ==
  ASSUME IInv, Current, [Next]_vars
  PROVE  Current'
  <1>1. CASE UNCHANGED <<age, origin>>
    BY <1>1 DEF Current
  <1>2. ASSUME NEW d \in Domains, NEW doc \in Published[d], Publish(d, doc)
        PROVE  Current'
    <2>1. \A x \in Domains : origin'[x] = IF x = d THEN doc ELSE origin[x]
      BY <1>2 DEF Publish, Set, IInv, World
    <2>2. \A x \in Domains : age'[x] = IF x = d THEN [age[d] EXCEPT ![doc] = 0] ELSE age[x]
      BY <1>2 DEF Publish, IInv, World
    <2>3. age[d] \in [Published[d] -> 0 .. Recent + 1]
      BY DEF IInv, World
    <2> QED
      BY <2>1, <2>2, <2>3 DEF Current
  <1>3. CASE Tick
    BY <1>3 DEF Tick, Current, IInv, World
  <1>4. \/ UNCHANGED <<age, origin>> \/ Tick
        \/ \E d \in Domains : \E doc \in Published[d] : Publish(d, doc)
    BY DEF Next, vars, worldVars, Run, Step, Receive, NextProduct, VerifyClaim,
       VerifyOperator, ReceiveBrand, ReceiveHouse, ReceiveLeaf, ReceivePublisher,
       ReceiveLocation, Prepare, Send, BeginBuy, AccountRefused, Answer, TimesOut,
       FindProducts, WindowMoves
  <1> QED
    BY <1>1, <1>2, <1>3, <1>4

-----------------------------------------------------------------------------
(* What callers wait for *)

LEMMA FetchTypes ==
  ASSUME IInv, NEW c \in Callers, pc[c] = "fetching"
  PROVE  /\ request[c] \in Requests /\ fetch[c] \in Fetches /\ fetch[c].at \in Domains
         /\ fetch[c].waited \in Nat /\ fetch[c].waited <= FetchTimeout
         /\ hops[c] \in 0 .. MaxDocumentHops + 1
         /\ FetchTimeout * (hops[c] + 1) \in Nat
  <1>1. request[c] \in Requests /\ fetch[c] \in Fetches
    BY DEF IInv, Sound, Busy
  <1>2. fetch[c].at \in Domains /\ fetch[c].waited \in 0 .. FetchTimeout
    BY <1>1 DEF Fetches
  <1>3. hops[c] \in 0 .. MaxDocumentHops + 1
    BY DEF IInv, Coroutines
  <1>4. hops[c] + 1 \in Nat
    BY <1>3 DEF MaxDocumentHops
  <1>5. FetchTimeout * (hops[c] + 1) \in Nat
    BY <1>4, GateAssumption
  <1> QED
    BY <1>1, <1>2, <1>3, <1>5, GateAssumption

\* Whoever goes on with the same fetch, k ticks later, keeps what it has.
LEMMA KeptLater ==
  ASSUME IInv, IInv', NEW k \in Nat, Aged(k), NEW c \in Callers, Kept(c),
         pc'[c] = pc[c], request'[c] = request[c], hops'[c] = hops[c], held'[c] = held[c],
         pc[c] = "fetching" => /\ fetch'[c].stage = fetch[c].stage
                               /\ fetch'[c].at = fetch[c].at
                               /\ fetch'[c].waited = fetch[c].waited + k
  PROVE  Kept(c)'
  <1> SUFFICES ASSUME pc[c] = "fetching"
               PROVE  Kept(c)'
    BY DEF Kept
  <1> DEFINE w == fetch[c].waited
             spent == FetchTimeout * (hops[c] + 1)
  <1>1. w \in Nat /\ spent \in Nat /\ fetch'[c].waited = w + k
    BY FetchTypes
  <1>2. FetchTimeout * (hops'[c] + 1) = spent /\ QueryOf(c)' = QueryOf(c)
    BY DEF QueryOf
  <1>3. \A d, x : Known(age, d, x, spent + w) => Known(age', d, x, spent + w + k)
    BY <1>1, KnownLater
  <1>4. \A d, x : Known(age, d, x, FetchTimeout + w) => Known(age', d, x, FetchTimeout + w + k)
    BY <1>1, KnownLater, GateAssumption
  <1>5. /\ FetchTimeout * (hops'[c] + 1) + fetch'[c].waited = spent + w + k
        /\ FetchTimeout + fetch'[c].waited = FetchTimeout + w + k
    BY <1>1, <1>2, GateAssumption
  <1>6. Kept(c)
    OBVIOUS
  <1> HIDE DEF w, spent
  <1>7. ASSUME fetch[c].stage = "house"
        PROVE  /\ held'[c].kind = "canonical"
               /\ \E d \in Domains :
                    Known(age', d, held'[c], FetchTimeout * (hops'[c] + 1) + fetch'[c].waited)
    <2>1. PICK d \in Domains : Known(age, d, held[c], spent + w)
      BY <1>7 DEF Kept, w, spent
    <2>2. Known(age', d, held[c], spent + w + k)
      BY <1>3, <2>1
    <2>3. Known(age', d, held'[c], FetchTimeout * (hops'[c] + 1) + fetch'[c].waited)
      BY <1>5, <2>2 DEF Known
    <2> QED
      BY <1>7, <2>3 DEF Kept
  <1>8. ASSUME fetch[c].stage = "leaf"
        PROVE  /\ held'[c].kind = "portfolio"
               /\ PortfolioBrand(held[c], QueryOf(c))' \in held'[c].refs
               /\ \E d \in Domains : Known(age', d, held'[c], FetchTimeout + fetch'[c].waited)
    <2>1. PICK d \in Domains : Known(age, d, held[c], FetchTimeout + w)
      BY <1>8 DEF Kept, w
    <2>2. Known(age', d, held[c], FetchTimeout + w + k)
      BY <1>4, <2>1
    <2>3. Known(age', d, held'[c], FetchTimeout + fetch'[c].waited)
      BY <1>5, <2>2 DEF Known
    <2>4. PortfolioBrand(held[c], QueryOf(c))' = PortfolioBrand(held[c], QueryOf(c))
      BY <1>2
    <2> QED
      BY <1>8, <2>3, <2>4 DEF Kept
  <1>9. ASSUME fetch[c].stage = "location"
        PROVE  \E pointer \in Published[held'[c].domain] :
                 /\ Known(age', held'[c].domain, pointer, FetchTimeout + fetch'[c].waited)
                 /\ pointer.kind = "moved" /\ pointer.to = fetch'[c].at
    <2>1. PICK pointer \in Published[held[c].domain] :
            /\ Known(age, held[c].domain, pointer, FetchTimeout + w)
            /\ pointer.kind = "moved" /\ pointer.to = fetch[c].at
      BY <1>9 DEF Kept, w
    <2>2. Known(age', held[c].domain, pointer, FetchTimeout + w + k)
      BY <1>4, <2>1 DEF Known
    <2>3. Known(age', held'[c].domain, pointer, FetchTimeout + fetch'[c].waited)
      BY <1>5, <2>2 DEF Known
    <2> QED
      BY <2>1, <2>3
  <1>10. fetch'[c].stage = "publisher" => fetch'[c].at = held'[c].domain
    BY DEF Kept
  <1> QED
    BY <1>7, <1>8, <1>9, <1>10 DEF Kept

LEMMA TracedKept ==
  ASSUME IInv, IInv', Aged(0), NEW c \in Callers, Traced(c),
         pc'[c] = pc[c], request'[c] = request[c], hops'[c] = hops[c], held'[c] = held[c],
         fetch'[c] = fetch[c]
  PROVE  Traced(c)'
  <1>1. Kept(c)'
    <2>1. pc[c] = "fetching" => fetch[c].waited = fetch[c].waited + 0
      BY FetchTypes
    <2> QED
      BY <2>1, KeptLater DEF Traced
  <1>2. Landing(c)'
    <2> SUFFICES ASSUME pc[c] = "fetching", fetch[c].doc \notin {NoDoc, Down}
                 PROVE  Known(age', fetch'[c].at, fetch'[c].doc, fetch'[c].waited)
      BY DEF Landing
    <2>1. Known(age, fetch[c].at, fetch[c].doc, fetch[c].waited) /\ fetch[c].waited \in Nat
      BY FetchTypes DEF Traced, Landing
    <2>2. Known(age', fetch[c].at, fetch[c].doc, fetch[c].waited + 0)
      BY <2>1, KnownLater
    <2> QED
      BY <2>1, <2>2 DEF Known
  <1> QED
    BY <1>1, <1>2 DEF Traced

LEMMA IdleTraced ==
  ASSUME NEW c \in Callers, pc'[c] # "fetching"
  PROVE  Traced(c)'
  BY DEF Traced, Landing, Kept

LEMMA AskedFetch ==
  ASSUME IInv, NEW c \in Callers, NEW stage, NEW domain, Ask(c, stage, domain)
  PROVE  /\ pc'[c] = "fetching"
         /\ fetch'[c].stage = stage /\ fetch'[c].at = domain
         /\ fetch'[c].doc = NoDoc /\ fetch'[c].waited = 0
         /\ \A d \in Callers : d # c => pc'[d] = pc[d] /\ fetch'[d] = fetch[d]
         /\ Landing(c)'
  <1>1. fetch'[c] = [stage |-> stage, at |-> domain, doc |-> NoDoc, waited |-> 0]
    BY DEF Ask, Set, IInv, Coroutines
  <1>2. pc'[c] = "fetching" /\ \A d \in Callers : d # c => pc'[d] = pc[d] /\ fetch'[d] = fetch[d]
    BY DEF Ask, Set, IInv, Coroutines
  <1>3. fetch'[c].stage = stage /\ fetch'[c].at = domain
        /\ fetch'[c].doc = NoDoc /\ fetch'[c].waited = 0
    BY <1>1
  <1> QED
    BY <1>2, <1>3 DEF Landing

LEMMA LandedIsKnown ==
  ASSUME IInv, NEW c \in Callers, Traced(c), NEW stage, Landed(c, stage), fetch[c].doc # Down
  PROVE  Known(age, fetch[c].at, fetch[c].doc, fetch[c].waited)
  BY DEF Traced, Landing, Landed

LEMMA FetchEventsTrace ==
  ASSUME IInv, IInv', RInv, Aged(0), NEW c \in Callers, Answer(c) \/ TimesOut(c)
  PROVE  \A d \in Callers : Traced(d)'
  <1> DEFINE doc == IF Answer(c) THEN origin[fetch[c].at] ELSE Down
  <1>1. /\ pc[c] = "fetching" /\ fetch' = [fetch EXCEPT ![c].doc = fetch'[c].doc]
        /\ UNCHANGED <<age, pc, request, hops, held>>
        /\ fetch'[c].doc = Down \/ fetch'[c].doc = origin[fetch[c].at]
    <2>1. fetch[c] \in [stage : Stages, at : Domains, waited : 0 .. FetchTimeout,
                        doc : (UNION {Published[d] : d \in Domains}) \cup {Down, NoDoc}]
      BY DEF Answer, TimesOut, IInv, Sound, Busy, Fetches
    <2>2. DOMAIN fetch = Callers
      BY DEF IInv, Coroutines
    <2>3. \A x : [fetch EXCEPT ![c].doc = x][c].doc = x
      BY <2>1, <2>2
    <2> QED
      BY <2>3 DEF Answer, TimesOut, worldVars
  <1>2. /\ fetch'[c].stage = fetch[c].stage /\ fetch'[c].at = fetch[c].at
        /\ fetch'[c].waited = fetch[c].waited
        /\ \A d \in Callers : d # c => fetch'[d] = fetch[d]
    <2>1. fetch[c] \in [stage : Stages, at : Domains, waited : 0 .. FetchTimeout,
                        doc : (UNION {Published[d] : d \in Domains}) \cup {Down, NoDoc}]
      BY <1>1 DEF IInv, Sound, Busy, Fetches
    <2>2. DOMAIN fetch = Callers
      BY DEF IInv, Coroutines
    <2> QED
      BY <1>1, <2>1, <2>2
  <1>3. Kept(c)'
    <2>1. fetch'[c].waited = fetch[c].waited + 0
      BY <1>1, <1>2, FetchTypes
    <2> QED
      BY <1>1, <1>2, <2>1, KeptLater DEF RInv, Traced
  <1>4. Landing(c)'
    <2>1. fetch[c].at \in Domains /\ fetch[c].waited \in Nat
      BY <1>1, FetchTypes
    <2>2. Known(age', fetch[c].at, origin[fetch[c].at], fetch[c].waited)
      BY <1>1, <2>1 DEF Known, RInv, Current, IInv, World
    <2> QED
      BY <1>1, <1>2, <2>2 DEF Landing, Known
  <1>5. ASSUME NEW d \in Callers, d # c
        PROVE  Traced(d)'
    BY <1>1, <1>2, <1>5, TracedKept DEF RInv
  <1> QED
    BY <1>3, <1>4, <1>5 DEF Traced

LEMMA TickTraces ==
  ASSUME IInv, IInv', RInv, Tick, Aged(1), NEW c \in Callers
  PROVE  Traced(c)'
  <1>1. UNCHANGED <<pc, request, hops, held>>
    BY DEF Tick
  <1>2. CASE pc[c] # "fetching"
    BY <1>1, <1>2, IdleTraced
  <1>3. CASE pc[c] = "fetching"
    <2>1. fetch'[c] = [fetch[c] EXCEPT !.waited = @ + 1]
      BY <1>3 DEF Tick
    <2>2. fetch[c] \in [stage : Stages, at : Domains, waited : 0 .. FetchTimeout,
                        doc : (UNION {Published[d] : d \in Domains}) \cup {Down, NoDoc}]
      BY <1>3, FetchTypes DEF Fetches
    <2>3. /\ fetch'[c].stage = fetch[c].stage /\ fetch'[c].at = fetch[c].at
          /\ fetch'[c].doc = fetch[c].doc /\ fetch'[c].waited = fetch[c].waited + 1
      BY <2>1, <2>2
    <2>4. Kept(c)'
      BY <1>1, <2>3, KeptLater DEF RInv, Traced
    <2>5. Landing(c)'
      <3> SUFFICES ASSUME fetch[c].doc \notin {NoDoc, Down}
                   PROVE  Known(age', fetch'[c].at, fetch'[c].doc, fetch'[c].waited)
        BY <2>3 DEF Landing
      <3>1. Known(age, fetch[c].at, fetch[c].doc, fetch[c].waited) /\ fetch[c].waited \in Nat
        BY <1>3, FetchTypes DEF RInv, Traced, Landing
      <3>2. Known(age', fetch[c].at, fetch[c].doc, fetch[c].waited + 1)
        BY <3>1, KnownLater
      <3> QED
        BY <2>3, <3>2 DEF Known
    <2> QED
      BY <2>4, <2>5 DEF Traced
  <1> QED
    BY <1>2, <1>3

-----------------------------------------------------------------------------
(* Cache entries get older with time only, or are new *)

LEMMA LeftIsNat ==
  ASSUME NEW cache, NEW keys, IsCache(cache, keys), NEW key \in keys, cache[key] # NoEntry
  PROVE  cache[key].left \in Nat
  BY GateAssumption DEF IsCache, Lifetimes

LEMMA BrandsLater ==
  ASSUME IInv, IInv', RInv, NEW k \in Nat, Aged(k),
         \A q \in Queries : Positive(brands'[q]) =>
           \/ /\ Positive(brands[q]) /\ brands'[q].value = brands[q].value
              /\ brands'[q].left + k = brands[q].left
           \/ brands'[q].left = Ttl /\ Vouched(age', brands'[q].value, q, BrandRoute)
  PROVE  BrandsRecent'
  <1>1. BrandRoute \in Nat /\ Ttl \in Nat
    BY GateAssumption DEF BrandRoute
  <1>2. ASSUME NEW q \in Queries, Positive(brands'[q])
        PROVE  /\ brands'[q].left <= Ttl
               /\ Vouched(age', brands'[q].value, q, BrandRoute + Ttl - brands'[q].left)
    <2>1. CASE /\ Positive(brands[q]) /\ brands'[q].value = brands[q].value
               /\ brands'[q].left + k = brands[q].left
      <3> DEFINE left == brands[q].left
                 later == brands'[q].left
                 x == brands[q].value
                 n == BrandRoute + Ttl - left
      <3>1. left \in Nat /\ later \in Nat
        BY <1>2, <2>1, LeftIsNat DEF Positive, IInv, Caches
      <3>2. left <= Ttl /\ Vouched(age, x, q, n)
        BY <2>1 DEF RInv, BrandsRecent
      <3>3. n \in Int /\ n + k = BrandRoute + Ttl - later /\ n + k \in Int
        BY <1>1, <2>1, <3>1
      <3>4. Vouched(age', x, q, n + k)
        <4> HIDE DEF n, x
        <4> QED
          BY <3>2, <3>3, VouchedLater
      <3>5. later <= Ttl
        BY <1>1, <2>1, <3>1, <3>2
      <3> QED
        BY <2>1, <3>3, <3>4, <3>5
    <2>2. CASE brands'[q].left = Ttl /\ Vouched(age', brands'[q].value, q, BrandRoute)
      <3>1. BrandRoute + Ttl - Ttl = BrandRoute /\ Ttl <= Ttl
        BY <1>1
      <3> QED
        BY <2>2, <3>1
    <2> QED
      BY <1>2, <2>1, <2>2
  <1> QED
    BY <1>2 DEF BrandsRecent, Positive

LEMMA AgentsLater ==
  ASSUME IInv, IInv', RInv, NEW k \in Nat, Aged(k),
         \A d \in Domains : Positive(agents'[d]) =>
           \/ /\ Positive(agents[d]) /\ agents'[d].value = agents[d].value
              /\ agents'[d].left + k = agents[d].left
           \/ agents'[d].left = Ttl /\ Routed(age', d, agents'[d].value, AgentsRoute)
  PROVE  AgentsRecent'
  <1>1. AgentsRoute \in Nat /\ Ttl \in Nat
    BY GateAssumption DEF AgentsRoute
  <1>2. ASSUME NEW d \in Domains, Positive(agents'[d])
        PROVE  /\ agents'[d].left <= Ttl
               /\ Routed(age', d, agents'[d].value, AgentsRoute + Ttl - agents'[d].left)
    <2>1. CASE /\ Positive(agents[d]) /\ agents'[d].value = agents[d].value
               /\ agents'[d].left + k = agents[d].left
      <3> DEFINE left == agents[d].left
                 later == agents'[d].left
                 x == agents[d].value
                 n == AgentsRoute + Ttl - left
      <3>1. left \in Nat /\ later \in Nat
        BY <1>2, <2>1, LeftIsNat DEF Positive, IInv, Caches
      <3>2. left <= Ttl /\ Routed(age, d, x, n)
        BY <2>1 DEF RInv, AgentsRecent
      <3>3. n \in Int /\ n + k = AgentsRoute + Ttl - later /\ n + k \in Int
        BY <1>1, <2>1, <3>1
      <3>4. Routed(age', d, x, n + k)
        <4> HIDE DEF n, x
        <4> QED
          BY <3>2, <3>3, RoutedLater
      <3>5. later <= Ttl
        BY <1>1, <2>1, <3>1, <3>2
      <3> QED
        BY <2>1, <3>3, <3>4, <3>5
    <2>2. CASE agents'[d].left = Ttl /\ Routed(age', d, agents'[d].value, AgentsRoute)
      <3>1. AgentsRoute + Ttl - Ttl = AgentsRoute /\ Ttl <= Ttl
        BY <1>1
      <3> QED
        BY <2>2, <3>1
    <2> QED
      BY <1>2, <2>1, <2>2
  <1> QED
    BY <1>2 DEF AgentsRecent, Positive

\* Entries that are still there after a tick have a tick less to live.
LEMMA OlderEntry ==
  ASSUME NEW cache, NEW keys, IsCache(cache, keys), NEW key \in keys,
         Positive(Older(cache)[key])
  PROVE  /\ Positive(cache[key]) /\ Older(cache)[key].value = cache[key].value
         /\ Older(cache)[key].left + 1 = cache[key].left
  <1>1. Older(cache)[key] = IF Fresh(cache[key]) /\ cache[key].left > 1
                            THEN [cache[key] EXCEPT !.left = @ - 1] ELSE NoEntry
    BY DEF Older, IsCache
  <1>2. /\ Fresh(cache[key]) /\ cache[key].left > 1
        /\ Older(cache)[key] = [cache[key] EXCEPT !.left = @ - 1]
    BY <1>1 DEF Positive
  <1> DEFINE l == cache[key].left
             v == cache[key].value
  <1>3. cache[key] = [left |-> l, value |-> v] /\ l \in Nat
    BY <1>2, LeftIsNat DEF IsCache, Fresh
  <1>4. [cache[key] EXCEPT !.left = @ - 1] = [left |-> l - 1, value |-> v]
    <2> HIDE DEF l, v
    <2> QED
      BY <1>3
  <1>5. Older(cache)[key].value = v /\ Older(cache)[key].left = l - 1
    BY <1>2, <1>4
  <1>6. l - 1 + 1 = l
    BY <1>3
  <1> QED
    BY <1>2, <1>5, <1>6 DEF Positive, Fresh

-----------------------------------------------------------------------------
(* Steps of one caller *)

\* A step of this caller, which leaves the others and the documents alone.
Alone(c) ==
  /\ UNCHANGED worldVars
  /\ \A d \in Callers : d # c =>
       /\ pc'[d] = pc[d] /\ request'[d] = request[d] /\ hops'[d] = hops[d]
       /\ held'[d] = held[d] /\ fetch'[d] = fetch[d] /\ passed'[d] = passed[d]

LEMMA ReturnAlone ==
  ASSUME IInv, NEW c \in Callers, Return(c), UNCHANGED worldVars
  PROVE  Alone(c) /\ pc'[c] = "idle"
  BY DEF Return, Set, IInv, Coroutines, Alone

LEMMA JudgedOperatorAlone ==
  ASSUME IInv, NEW c \in Callers, NEW x, OperatorPasses(c) \/ JudgeOperator(c, x),
         UNCHANGED worldVars
  PROVE  Alone(c) /\ pc'[c] # "fetching"
  <1>1. CASE OperatorPasses(c)
    BY <1>1 DEF OperatorPasses, EndLoad, Set, IInv, Coroutines, Alone
  <1> QED
    BY <1>1, ReturnAlone DEF JudgeOperator

LEMMA JudgedClaimAlone ==
  ASSUME IInv, NEW c \in Callers, NEW claim, NEW doc, JudgeClaim(c, claim, doc),
         UNCHANGED worldVars
  PROVE  Alone(c) /\ pc'[c] # "fetching"
  <1>1. CASE /\ EndLoad(c) /\ UNCHANGED request
             /\ passed' = Set(passed, c, passed[c] \cup {<<raw[c], claim>>})
             /\ pc' = Set(pc, c, "products") \/ pc' = Set(pc, c, "claims")
    BY <1>1 DEF EndLoad, Set, IInv, Coroutines, Alone
  <1>2. CASE Return(c)
    BY <1>2, ReturnAlone
  <1> QED
    BY <1>1, <1>2 DEF JudgeClaim

\* The load asks another domain; what it keeps is this, or what it had.
LEMMA AskAlone ==
  ASSUME IInv, NEW c \in Callers, NEW stage, NEW domain, Ask(c, stage, domain),
         UNCHANGED <<worldVars, request, passed>>,
         UNCHANGED hops \/ \E n : hops' = Set(hops, c, n),
         UNCHANGED held \/ \E x : held' = Set(held, c, x)
  PROVE  Alone(c)
  BY DEF Ask, Set, IInv, Coroutines, Alone

LEMMA AloneIsYoung ==
  ASSUME IInv, NEW c, Alone(c)
  PROVE  Aged(0)
  <1>1. \A d \in Domains : \A doc \in Published[d] : age'[d][doc] <= age[d][doc] + 0
    BY AgeIsNat DEF Alone, worldVars
  <1> QED
    BY <1>1 DEF Aged

LEMMA AloneKeeps ==
  ASSUME IInv, IInv', RInv, NEW c \in Callers, Alone(c), Traced(c)',
         BrandsRecent', AgentsRecent'
  PROVE  RInv'
  <1>1. Aged(0)
    BY AloneIsYoung
  <1>2. \A d \in Callers : Traced(d)'
    BY <1>1, TracedKept DEF RInv, Alone
  <1>3. Current'
    BY DEF RInv, Current, Alone, worldVars
  <1> QED
    BY <1>2, <1>3 DEF RInv

LEMMA SameBrands ==
  ASSUME IInv, IInv', RInv, Aged(0), UNCHANGED brands
  PROVE  BrandsRecent'
  <1>1. \A q \in Queries : Positive(brands'[q]) =>
          /\ Positive(brands[q]) /\ brands'[q].value = brands[q].value
          /\ brands'[q].left + 0 = brands[q].left
    BY LeftIsNat DEF Positive, IInv, Caches
  <1> QED
    BY <1>1, BrandsLater

LEMMA SameAgents ==
  ASSUME IInv, IInv', RInv, Aged(0), UNCHANGED agents
  PROVE  AgentsRecent'
  <1>1. \A d \in Domains : Positive(agents'[d]) =>
          /\ Positive(agents[d]) /\ agents'[d].value = agents[d].value
          /\ agents'[d].left + 0 = agents[d].left
    BY LeftIsNat DEF Positive, IInv, Caches
  <1> QED
    BY <1>1, AgentsLater

\* One entry replaced, by what a load that took so long found or by a failure.
LEMMA NewBrand ==
  ASSUME IInv, IInv', RInv, Aged(0), NEW query, NEW entry, brands' = Set(brands, query, entry),
         Positive(entry) => entry.left = Ttl /\ Vouched(age', entry.value, query, BrandRoute)
  PROVE  BrandsRecent'
  <1>1. \A q \in Queries : brands'[q] = IF q = query THEN entry ELSE brands[q]
    BY DEF Set, IInv, Caches, IsCache
  <1>2. ASSUME NEW q \in Queries, Positive(brands'[q])
        PROVE  \/ /\ Positive(brands[q]) /\ brands'[q].value = brands[q].value
                  /\ brands'[q].left + 0 = brands[q].left
               \/ brands'[q].left = Ttl /\ Vouched(age', brands'[q].value, q, BrandRoute)
    <2>1. CASE q = query
      BY <1>1, <1>2, <2>1
    <2>2. CASE q # query
      <3>1. brands'[q] = brands[q]
        BY <1>1, <2>2
      <3>2. brands[q].left \in Nat
        BY <1>2, <3>1, LeftIsNat DEF Positive, IInv, Caches
      <3> QED
        BY <1>2, <3>1, <3>2
    <2> QED
      BY <2>1, <2>2
  <1> QED
    BY <1>2, BrandsLater

LEMMA NewAgents ==
  ASSUME IInv, IInv', RInv, Aged(0), NEW domain, NEW entry, agents' = Set(agents, domain, entry),
         Positive(entry) => entry.left = Ttl /\ Routed(age', domain, entry.value, AgentsRoute)
  PROVE  AgentsRecent'
  <1>1. \A d \in Domains : agents'[d] = IF d = domain THEN entry ELSE agents[d]
    BY DEF Set, IInv, Caches, IsCache
  <1>2. ASSUME NEW d \in Domains, Positive(agents'[d])
        PROVE  \/ /\ Positive(agents[d]) /\ agents'[d].value = agents[d].value
                  /\ agents'[d].left + 0 = agents[d].left
               \/ agents'[d].left = Ttl /\ Routed(age', d, agents'[d].value, AgentsRoute)
    <2>1. CASE d = domain
      BY <1>1, <1>2, <2>1
    <2>2. CASE d # domain
      <3>1. agents'[d] = agents[d]
        BY <1>1, <2>2
      <3>2. agents[d].left \in Nat
        BY <1>2, <3>1, LeftIsNat DEF Positive, IInv, Caches
      <3> QED
        BY <1>2, <3>1, <3>2
    <2> QED
      BY <2>1, <2>2
  <1> QED
    BY <1>2, AgentsLater

-----------------------------------------------------------------------------
(* What a brand's load ends with *)

LEMMA KnownLonger ==
  ASSUME IInv, NEW d, NEW doc, NEW n \in Int, NEW m \in Int, n <= m, Known(age, d, doc, n)
  PROVE  Known(age, d, doc, m)
  BY AgeIsNat DEF Known

\* The document a brand's load receives is as old as the fetch, at most.
LEMMA ReceivedIsKnown ==
  ASSUME IInv, RInv, NEW c \in Callers, NEW stage, Landed(c, stage), fetch[c].doc # Down
  PROVE  /\ Known(age, fetch[c].at, fetch[c].doc, FetchTimeout)
         /\ Known(age, fetch[c].at, fetch[c].doc, BrandRoute)
         /\ Known(age, fetch[c].at, fetch[c].doc, AgentsRoute)
  <1>1. Known(age, fetch[c].at, fetch[c].doc, fetch[c].waited)
    BY LandedIsKnown DEF RInv
  <1>2. /\ fetch[c].waited \in Nat /\ fetch[c].waited <= FetchTimeout
    BY FetchTypes DEF Landed
  <1>3. /\ FetchTimeout \in Nat /\ BrandRoute \in Nat /\ AgentsRoute \in Nat
        /\ FetchTimeout <= BrandRoute /\ FetchTimeout <= AgentsRoute
    BY GateAssumption DEF BrandRoute, AgentsRoute
  <1> DEFINE w == fetch[c].waited
  <1>4. w \in Int /\ w <= FetchTimeout /\ w <= BrandRoute /\ w <= AgentsRoute
    BY <1>2, <1>3
  <1> HIDE DEF w
  <1>5. Known(age, fetch[c].at, fetch[c].doc, w)
    BY <1>1 DEF w
  <1> QED
    BY <1>3, <1>4, <1>5, KnownLonger

LEMMA FollowOnTraces ==
  ASSUME IInv, IInv', RInv, NEW c \in Callers, NEW stage \in {"brand", "house"},
         Landed(c, stage), FollowOn(c), UNCHANGED worldVars
  PROVE  UNCHANGED brands /\ Alone(c) /\ Traced(c)' /\ pc'[c] = "fetching"
  <1>1. /\ fetch[c].stage = stage /\ pc[c] = "fetching"
        /\ Ask(c, stage, fetch[c].doc.to) /\ hops' = Set(hops, c, hops[c] + 1)
        /\ UNCHANGED <<request, held, brands, passed>>
    BY DEF FollowOn, Landed, checkVars
  <1>2. Alone(c)
    BY <1>1, AskAlone
  <1>3. Aged(0)
    BY <1>2, AloneIsYoung
  <1>4. /\ fetch'[c].stage = stage /\ fetch'[c].waited = 0 /\ Landing(c)'
        /\ pc'[c] = "fetching"
    BY <1>1, AskedFetch
  <1>5. hops'[c] = hops[c] + 1 /\ held'[c] = held[c]
    BY <1>1 DEF Set, IInv, Coroutines
  <1>6. Kept(c)'
    <2>1. CASE stage = "brand"
      BY <1>4, <2>1 DEF Kept
    <2>2. CASE stage = "house"
      <3> DEFINE spent == FetchTimeout * (hops[c] + 1)
                 n == spent + fetch[c].waited
                 m == FetchTimeout * (hops'[c] + 1) + fetch'[c].waited
      <3>1. held[c].kind = "canonical" /\ \E d \in Domains : Known(age, d, held[c], n)
        BY <1>1, <2>2 DEF RInv, Traced, Kept
      <3>2. n \in Int /\ m \in Int /\ n + 0 <= m
        <4>1. spent \in Nat /\ fetch[c].waited \in Nat /\ fetch[c].waited <= FetchTimeout
              /\ hops[c] \in 0 .. MaxDocumentHops + 1
          BY <1>1, FetchTypes
        <4>2. FetchTimeout * (hops[c] + 1 + 1) = spent + FetchTimeout
          BY <4>1, GateAssumption DEF MaxDocumentHops
        <4> QED
          BY <1>4, <1>5, <4>1, <4>2, GateAssumption
      <3> HIDE DEF n, m
      <3>3. \E d \in Domains : Known(age', d, held[c], m)
        BY <1>3, <3>1, <3>2, KnownLater
      <3> QED
        BY <1>4, <1>5, <2>2, <3>1, <3>3 DEF Kept, m
    <2> QED
      BY <2>1, <2>2
  <1> QED
    BY <1>1, <1>2, <1>4, <1>6 DEF Traced

\* A house is asked about a brand's document, or a leaf about its house's.
LEMMA KeepAndAskTraces ==
  ASSUME IInv, IInv', RInv, NEW c \in Callers, Landed(c, "brand"), fetch[c].doc # Down,
         NEW stage \in {"house", "leaf"}, NEW domain, Ask(c, stage, domain),
         held' = Set(held, c, fetch[c].doc), hops' = Set(hops, c, 0),
         UNCHANGED <<worldVars, request, brands, passed>>,
         stage = "house" => fetch[c].doc.kind = "canonical",
         stage = "leaf" => /\ fetch[c].doc.kind = "portfolio"
                           /\ PortfolioBrand(fetch[c].doc, QueryOf(c)) \in fetch[c].doc.refs
  PROVE  UNCHANGED brands /\ Alone(c) /\ Traced(c)' /\ pc'[c] = "fetching"
  <1>1. Alone(c)
    BY AskAlone
  <1>2. /\ fetch'[c].stage = stage /\ fetch'[c].waited = 0 /\ Landing(c)'
        /\ pc'[c] = "fetching"
    BY AskedFetch
  <1>3. held'[c] = fetch[c].doc /\ hops'[c] = 0 /\ QueryOf(c)' = QueryOf(c)
    BY DEF Set, IInv, Coroutines, QueryOf
  <1>4. Known(age', fetch[c].at, held'[c], FetchTimeout) /\ fetch[c].at \in Domains
    <2>1. Known(age, fetch[c].at, fetch[c].doc, FetchTimeout)
      BY ReceivedIsKnown
    <2> QED
      BY <1>3, <2>1 DEF Known, worldVars
  <1>5. FetchTimeout * (hops'[c] + 1) + fetch'[c].waited = FetchTimeout
        /\ FetchTimeout + fetch'[c].waited = FetchTimeout
    BY <1>2, <1>3, GateAssumption
  <1>6. PortfolioBrand(held[c], QueryOf(c))' = PortfolioBrand(fetch[c].doc, QueryOf(c))
    BY <1>3
  <1>7. Kept(c)'
    BY <1>2, <1>3, <1>4, <1>5, <1>6 DEF Kept
  <1> QED
    BY <1>1, <1>2, <1>7 DEF Traced

\* How a step of a brand's load may end.
BrandStep(c) ==
  \/ Unavailable(c) \/ Refused(c)
  \/ \E x : Resolved(c, x) /\ Vouched(age, x, QueryOf(c), BrandRoute)
  \/ UNCHANGED brands /\ Alone(c) /\ Traced(c)' /\ pc'[c] = "fetching"

LEMMA PortfolioVouches ==
  ASSUME IInv, RInv, NEW c \in Callers, Landed(c, "brand"), fetch[c].doc # Down,
         fetch[c].doc.kind = "portfolio", NEW q
  PROVE  Vouched(age, Resolution(PortfolioBrand(fetch[c].doc, q), fetch[c].doc.operators,
                                 HouseVouches(fetch[c].doc, q)), q, BrandRoute)
  <1> DEFINE doc == fetch[c].doc
             x == Resolution(PortfolioBrand(doc, q), doc.operators, HouseVouches(doc, q))
  <1>1. Known(age, fetch[c].at, doc, BrandRoute)
    BY ReceivedIsKnown
  <1>2. /\ x.brand = PortfolioBrand(doc, q) /\ x.operators = doc.operators
        /\ x.verified = HouseVouches(doc, q)
    BY DEF Resolution
  <1>3. HouseVouches(doc, q) =>
          \/ PortfolioBrand(doc, q) = NoBrand /\ q.domain = doc.house
          \/ PortfolioBrand(doc, q) \in doc.inline
    BY DEF HouseVouches
  <1> HIDE DEF doc, x
  <1>4. fetch[c].at \in Domains /\ doc \in Published[fetch[c].at] /\ doc.kind = "portfolio"
    BY <1>1 DEF Known, doc
  <1>5. Vouched(age, x, q, BrandRoute)
    BY <1>1, <1>2, <1>3, <1>4 DEF Vouched
  <1> QED
    BY <1>5 DEF doc, x

LEMMA ReceiveBrandTraces ==
  ASSUME IInv, IInv', RInv, NEW c \in Callers, ReceiveBrand(c)
  PROVE  BrandStep(c)
  <1> DEFINE doc == fetch[c].doc
             q == QueryOf(c)
  <1>1. Landed(c, "brand") /\ UNCHANGED worldVars
    BY DEF ReceiveBrand
  <1>2. CASE Unavailable(c) \/ Refused(c)
    BY <1>2 DEF BrandStep
  <1>3. CASE FollowOn(c)
    BY <1>1, <1>3, FollowOnTraces DEF BrandStep
  <1>4. ASSUME ~Lost(c), doc.kind = "portfolio", ResolvePortfolio(c, doc)
        PROVE  BrandStep(c)
    <2>1. doc # Down
      BY <1>4 DEF Lost
    <2>2. CASE Resolved(c, Resolution(PortfolioBrand(doc, q), doc.operators,
                                      HouseVouches(doc, q)))
      BY <1>1, <1>4, <2>1, <2>2, PortfolioVouches DEF BrandStep
    <2>3. CASE /\ NeedsLeaf(doc, q) /\ held' = Set(held, c, doc) /\ hops' = Set(hops, c, 0)
               /\ Ask(c, "leaf", PortfolioBrand(doc, q))
               /\ UNCHANGED <<request, checkVars, brands>>
      <3>1. PortfolioBrand(doc, q) \in doc.refs
        BY <2>3 DEF NeedsLeaf
      <3>2. UNCHANGED <<worldVars, request, brands, passed>>
        BY <1>1, <2>3 DEF checkVars
      <3> QED
        BY <1>1, <1>4, <2>1, <2>3, <3>1, <3>2, KeepAndAskTraces DEF BrandStep
    <2> QED
      BY <1>2, <1>4, <2>2, <2>3 DEF ResolvePortfolio
  <1>5. ASSUME ~Lost(c), doc.kind = "canonical", ResolveCanonical(c, doc)
        PROVE  BrandStep(c)
    <2>1. doc # Down
      BY <1>5 DEF Lost
    <2>2. CASE Resolved(c, Resolution(doc.id, {}, FALSE))
      <3>1. Vouched(age, Resolution(doc.id, {}, FALSE), q, BrandRoute)
        BY DEF Resolution, Vouched
      <3> QED
        BY <2>2, <3>1 DEF BrandStep
    <2>3. CASE /\ held' = Set(held, c, doc) /\ hops' = Set(hops, c, 0)
               /\ Ask(c, "house", doc.house) /\ UNCHANGED <<request, checkVars, brands>>
      <3>1. UNCHANGED <<worldVars, request, brands, passed>>
        BY <1>1, <2>3 DEF checkVars
      <3> QED
        BY <1>1, <1>5, <2>1, <2>3, <3>1, KeepAndAskTraces DEF BrandStep
    <2> QED
      BY <1>2, <1>5, <2>2, <2>3 DEF ResolveCanonical
  <1> QED
    BY <1>2, <1>3, <1>4, <1>5 DEF ReceiveBrand

LEMMA ReceiveHouseTraces ==
  ASSUME IInv, IInv', RInv, NEW c \in Callers, ReceiveHouse(c)
  PROVE  BrandStep(c)
  <1> DEFINE doc == fetch[c].doc
             q == QueryOf(c)
             leaf == held[c]
             x == Resolution(leaf.id, doc.operators, HouseReciprocates(doc, leaf, q))
  <1>1. Landed(c, "house") /\ UNCHANGED worldVars
    BY DEF ReceiveHouse
  <1>2. CASE Unavailable(c) \/ Refused(c)
    BY <1>2 DEF BrandStep
  <1>3. CASE FollowOn(c)
    BY <1>1, <1>3, FollowOnTraces DEF BrandStep
  <1>4. CASE ~Lost(c) /\ doc.kind = "portfolio" /\ Resolved(c, x)
    <2>1. doc # Down /\ hops[c] # MaxDocumentHops + 1
      BY <1>4 DEF Lost
    <2>2. Known(age, fetch[c].at, doc, BrandRoute)
      BY <1>1, <2>1, ReceivedIsKnown
    <2>3. /\ leaf.kind = "canonical"
          /\ \E d \in Domains : Known(age, d, leaf, BrandRoute)
      <3> DEFINE n == FetchTimeout * (hops[c] + 1) + fetch[c].waited
      <3>1. pc[c] = "fetching" /\ fetch[c].stage = "house"
        BY <1>1 DEF Landed
      <3>2. leaf.kind = "canonical" /\ \E d \in Domains : Known(age, d, leaf, n)
        BY <3>1 DEF RInv, Traced, Kept
      <3>3. n \in Int /\ BrandRoute \in Int /\ n <= BrandRoute
        <4>1. /\ fetch[c].waited \in Nat /\ fetch[c].waited <= FetchTimeout
              /\ hops[c] \in 0 .. MaxDocumentHops + 1
              /\ FetchTimeout * (hops[c] + 1) \in Nat
          BY <3>1, FetchTypes
        <4>2. hops[c] + 1 \in 1 .. 4
          BY <2>1, <4>1 DEF MaxDocumentHops
        <4>3. FetchTimeout * (hops[c] + 1) <= 4 * FetchTimeout
          BY <4>2, GateAssumption
        <4> QED
          BY <4>1, <4>3, GateAssumption DEF BrandRoute
      <3> HIDE DEF n, leaf
      <3> QED
        BY <3>2, <3>3, KnownLonger
    <2>4. Vouched(age, x, q, BrandRoute)
      <3>1. /\ x.brand = leaf.id /\ x.operators = doc.operators
            /\ x.verified = HouseReciprocates(doc, leaf, q)
        BY DEF Resolution
      <3>2. HouseReciprocates(doc, leaf, q) => q.domain = leaf.id /\ leaf.id \in doc.refs
        BY DEF HouseReciprocates
      <3> HIDE DEF x, leaf, doc, q
      <3>3. q.domain = leaf.id => LeafKnown(age, leaf.id, q, doc, BrandRoute)
        BY <2>3 DEF LeafKnown, Known
      <3> QED
        BY <1>4, <2>2, <3>1, <3>2, <3>3 DEF Vouched, Known
    <2> QED
      BY <1>4, <2>4 DEF BrandStep
  <1> QED
    BY <1>2, <1>3, <1>4 DEF ReceiveHouse

LEMMA ReceiveLeafTraces ==
  ASSUME IInv, IInv', RInv, NEW c \in Callers, ReceiveLeaf(c)
  PROVE  BrandStep(c)
  <1> DEFINE leaf == fetch[c].doc
             q == QueryOf(c)
             house == held[c]
             brand == PortfolioBrand(house, q)
             x == Resolution(brand, house.operators, LeafReciprocates(leaf, house))
  <1>1. Landed(c, "leaf") /\ Resolved(c, x)
    BY DEF ReceiveLeaf
  <1>2. pc[c] = "fetching" /\ fetch[c].stage = "leaf"
    BY <1>1 DEF Landed
  <1>3. /\ house.kind = "portfolio" /\ brand \in house.refs
        /\ \E d \in Domains : Known(age, d, house, FetchTimeout + fetch[c].waited)
    BY <1>2 DEF RInv, Traced, Kept
  <1>4. \E d \in Domains : Known(age, d, house, BrandRoute)
    <2> DEFINE n == FetchTimeout + fetch[c].waited
    <2>1. n \in Int /\ BrandRoute \in Int /\ n <= BrandRoute
      BY <1>2, FetchTypes, GateAssumption DEF BrandRoute
    <2> HIDE DEF n
    <2>2. \E d \in Domains : Known(age, d, house, n)
      BY <1>3 DEF n
    <2> HIDE DEF house
    <2> QED
      BY <2>1, <2>2, KnownLonger
  <1>5. /\ x.brand = brand /\ x.operators = house.operators
        /\ x.verified = LeafReciprocates(leaf, house)
    BY DEF Resolution
  <1>6. ASSUME LeafReciprocates(leaf, house)
        PROVE  LeafKnown(age, brand, q, house, BrandRoute)
    <2>1. leaf.kind = "canonical" /\ leaf.house = house.house
      BY <1>6 DEF LeafReciprocates
    <2>2. leaf # Down
      BY <2>1, DownIsDown
    <2>3. Known(age, fetch[c].at, leaf, BrandRoute)
      BY <1>1, <2>2, ReceivedIsKnown
    <2> HIDE DEF leaf, house, brand, q
    <2> QED
      BY <2>1, <2>3 DEF LeafKnown, Known
  <1> HIDE DEF x, leaf, house, brand
  <1>7. Vouched(age, x, q, BrandRoute)
    <2> HIDE DEF q
    <2> QED
      BY <1>3, <1>4, <1>5, <1>6 DEF Vouched, Known
  <1> QED
    BY <1>1, <1>7 DEF BrandStep

LEMMA BrandStepKeeps ==
  ASSUME IInv, IInv', RInv, NEW c \in Callers, BrandStep(c), UNCHANGED <<worldVars, agents>>
  PROVE  RInv' /\ Alone(c)
  <1>1. CASE UNCHANGED brands /\ Alone(c) /\ Traced(c)'
    BY <1>1, AloneIsYoung, SameBrands, SameAgents, AloneKeeps
  <1>2. CASE Refused(c)
    <2>1. Alone(c) /\ pc'[c] = "idle" /\ UNCHANGED brands
      BY <1>2, ReturnAlone DEF Refused
    <2> QED
      BY <2>1, AloneIsYoung, SameBrands, SameAgents, IdleTraced, AloneKeeps
  <1>3. CASE Unavailable(c)
    <2>1. Alone(c) /\ pc'[c] = "idle"
      BY <1>3, ReturnAlone DEF Unavailable
    <2>2. Aged(0)
      BY <2>1, AloneIsYoung
    <2>3. BrandsRecent'
      <3>1. ~Positive([left |-> NegativeTtl, value |-> NoDoc])
        BY DEF Positive
      <3> QED
        BY <1>3, <2>2, <3>1, NewBrand DEF Unavailable
    <2> QED
      BY <2>1, <2>2, <2>3, SameAgents, IdleTraced, AloneKeeps
  <1>4. ASSUME NEW x, Resolved(c, x), Vouched(age, x, QueryOf(c), BrandRoute)
        PROVE  RInv' /\ Alone(c)
    <2>1. Alone(c) /\ pc'[c] # "fetching"
      BY <1>4, JudgedOperatorAlone DEF Resolved
    <2>2. Aged(0)
      BY <2>1, AloneIsYoung
    <2>3. BrandsRecent'
      <3> DEFINE entry == [left |-> Ttl, value |-> x]
      <3>1. entry.left = Ttl /\ entry.value = x
        OBVIOUS
      <3>2. Vouched(age', x, QueryOf(c), BrandRoute)
        BY <1>4, <2>1 DEF Alone, worldVars
      <3>3. brands' = Set(brands, QueryOf(c), entry)
        BY <1>4 DEF Resolved
      <3> HIDE DEF entry
      <3> QED
        BY <2>2, <3>1, <3>2, <3>3, NewBrand
    <2> QED
      BY <2>1, <2>2, <2>3, SameAgents, IdleTraced, AloneKeeps
  <1> QED
    BY <1>1, <1>2, <1>3, <1>4 DEF BrandStep

LEMMA VerifyOperatorTraces ==
  ASSUME IInv, IInv', RInv, NEW c \in Callers, VerifyOperator(c)
  PROVE  RInv' /\ Alone(c)
  <1>1. UNCHANGED worldVars /\ UNCHANGED brands /\ UNCHANGED agents
    BY DEF VerifyOperator
  <1>2. CASE pc'[c] # "fetching" /\ Alone(c)
    BY <1>1, <1>2, IdleTraced, AloneIsYoung, SameBrands, SameAgents, AloneKeeps
  <1>3. CASE Return(c)
    BY <1>1, <1>2, <1>3, ReturnAlone
  <1>4. CASE OperatorPasses(c) \/ \E x : JudgeOperator(c, x)
    BY <1>1, <1>2, <1>4, JudgedOperatorAlone
  <1>5. ASSUME NEW domain, Ask(c, "brand", domain), UNCHANGED <<request, hops, held, passed>>
        PROVE  RInv' /\ Alone(c)
    <2>1. Alone(c)
      BY <1>1, <1>5, AskAlone
    <2>2. fetch'[c].stage = "brand" /\ Landing(c)'
      BY <1>5, AskedFetch
    <2>3. Traced(c)'
      BY <2>2 DEF Traced, Kept
    <2> QED
      BY <1>1, <2>1, <2>3, AloneIsYoung, SameBrands, SameAgents, AloneKeeps
  <1> QED
    BY <1>3, <1>4, <1>5 DEF VerifyOperator, checkVars

-----------------------------------------------------------------------------
(* What a publisher's load ends with *)

LEMMA PublisherRoutes ==
  ASSUME IInv, RInv, NEW c \in Callers, Landed(c, "publisher"), fetch[c].doc.kind = "agents"
  PROVE  Routed(age, held[c].domain, fetch[c].doc, AgentsRoute)
  <1>1. fetch[c].doc # Down
    BY DownIsDown
  <1>2. Known(age, fetch[c].at, fetch[c].doc, AgentsRoute)
    BY <1>1, ReceivedIsKnown
  <1>3. fetch[c].at = held[c].domain
    BY DEF RInv, Traced, Kept, Landed
  <1> QED
    BY <1>2, <1>3 DEF Routed

LEMMA LocationRoutes ==
  ASSUME IInv, RInv, NEW c \in Callers, Landed(c, "location"), fetch[c].doc.kind = "agents"
  PROVE  Routed(age, held[c].domain, fetch[c].doc, AgentsRoute)
  <1>1. fetch[c].doc # Down
    BY DownIsDown
  <1>2. Known(age, fetch[c].at, fetch[c].doc, AgentsRoute)
    BY <1>1, ReceivedIsKnown
  <1> DEFINE n == FetchTimeout + fetch[c].waited
  <1>3. PICK pointer \in Published[held[c].domain] :
          /\ Known(age, held[c].domain, pointer, n)
          /\ pointer.kind = "moved" /\ pointer.to = fetch[c].at
    BY DEF RInv, Traced, Kept, Landed
  <1>4. n \in Int /\ AgentsRoute \in Int /\ n <= AgentsRoute
    BY FetchTypes, GateAssumption DEF Landed, AgentsRoute
  <1> HIDE DEF n
  <1>5. Known(age, held[c].domain, pointer, AgentsRoute)
    BY <1>3, <1>4, KnownLonger
  <1> QED
    BY <1>2, <1>3, <1>5 DEF Routed

LEMMA ClaimLoadTraces ==
  ASSUME IInv, IInv', RInv, NEW c \in Callers, UNCHANGED <<worldVars, brands>>,
         \/ NotLoaded(c)
         \/ \E doc : Loaded(c, doc) /\ Routed(age, held[c].domain, doc, AgentsRoute)
  PROVE  RInv' /\ Alone(c)
  <1>1. CASE NotLoaded(c)
    <2>1. Alone(c) /\ pc'[c] = "idle"
      BY <1>1, ReturnAlone DEF NotLoaded
    <2>2. AgentsRecent'
      <3>1. ~Positive([left |-> NegativeTtl, value |-> NoDoc])
        BY DEF Positive
      <3> QED
        BY <1>1, <2>1, <3>1, AloneIsYoung, NewAgents DEF NotLoaded
    <2> QED
      BY <2>1, <2>2, AloneIsYoung, SameBrands, IdleTraced, AloneKeeps
  <1>2. ASSUME NEW doc, Loaded(c, doc), Routed(age, held[c].domain, doc, AgentsRoute)
        PROVE  RInv' /\ Alone(c)
    <2>1. Alone(c) /\ pc'[c] # "fetching"
      BY <1>2, JudgedClaimAlone DEF Loaded
    <2>2. AgentsRecent'
      <3> DEFINE entry == [left |-> Ttl, value |-> doc]
      <3>1. entry.left = Ttl /\ entry.value = doc
        OBVIOUS
      <3>2. Routed(age', held[c].domain, doc, AgentsRoute)
        BY <1>2, <2>1 DEF Alone, worldVars
      <3>3. agents' = Set(agents, held[c].domain, entry)
        BY <1>2 DEF Loaded
      <3> HIDE DEF entry
      <3> QED
        BY <2>1, <3>1, <3>2, <3>3, AloneIsYoung, NewAgents
    <2> QED
      BY <2>1, <2>2, AloneIsYoung, SameBrands, IdleTraced, AloneKeeps
  <1> QED
    BY <1>1, <1>2

LEMMA ReceivePublisherTraces ==
  ASSUME IInv, IInv', RInv, NEW c \in Callers, ReceivePublisher(c)
  PROVE  RInv' /\ Alone(c)
  <1>1. Landed(c, "publisher") /\ UNCHANGED worldVars /\ UNCHANGED brands
    BY DEF ReceivePublisher
  <1>2. CASE NotLoaded(c) \/ (fetch[c].doc.kind = "agents" /\ Loaded(c, fetch[c].doc))
    BY <1>1, <1>2, PublisherRoutes, ClaimLoadTraces
  <1>3. CASE /\ fetch[c].doc.kind = "moved" /\ Ask(c, "location", fetch[c].doc.to)
             /\ UNCHANGED <<request, hops, held, checkVars, agents>>
    <2>1. Alone(c)
      BY <1>1, <1>3, AskAlone DEF checkVars
    <2>2. /\ fetch'[c].stage = "location" /\ fetch'[c].at = fetch[c].doc.to
          /\ fetch'[c].waited = 0 /\ Landing(c)'
      BY <1>3, AskedFetch
    <2>3. fetch[c].at = held[c].domain
      BY <1>1 DEF RInv, Traced, Kept, Landed
    <2>4. Known(age, held[c].domain, fetch[c].doc, FetchTimeout)
      BY <1>1, <1>3, <2>3, DownIsDown, ReceivedIsKnown
    <2>5. FetchTimeout + fetch'[c].waited = FetchTimeout
      BY <2>2, GateAssumption
    <2>6. Kept(c)'
      <3>1. held'[c] = held[c] /\ age' = age
        BY <1>1, <1>3 DEF worldVars
      <3> QED
        BY <1>3, <2>2, <2>4, <2>5, <3>1 DEF Kept, Known
    <2> QED
      BY <1>1, <1>3, <2>1, <2>2, <2>6, AloneIsYoung, SameBrands, SameAgents, AloneKeeps
         DEF Traced
  <1> QED
    BY <1>2, <1>3 DEF ReceivePublisher

LEMMA ReceiveLocationTraces ==
  ASSUME IInv, IInv', RInv, NEW c \in Callers, ReceiveLocation(c)
  PROVE  RInv' /\ Alone(c)
  BY LocationRoutes, ClaimLoadTraces DEF ReceiveLocation

LEMMA VerifyClaimTraces ==
  ASSUME IInv, IInv', RInv, NEW c \in Callers, VerifyClaim(c)
  PROVE  RInv' /\ Alone(c)
  <1>1. UNCHANGED worldVars /\ UNCHANGED brands /\ UNCHANGED agents
    BY DEF VerifyClaim
  <1>2. CASE pc'[c] # "fetching" /\ Alone(c)
    BY <1>1, <1>2, IdleTraced, AloneIsYoung, SameBrands, SameAgents, AloneKeeps
  <1>3. CASE Return(c) \/ \E claim, doc : JudgeClaim(c, claim, doc)
    BY <1>1, <1>2, <1>3, ReturnAlone, JudgedClaimAlone
  <1>4. ASSUME NEW claim \in claims[c], Ask(c, "publisher", claim.domain),
               held' = Set(held, c, claim), UNCHANGED <<request, hops, passed>>
        PROVE  RInv' /\ Alone(c)
    <2>1. Alone(c)
      BY <1>1, <1>4, AskAlone
    <2>2. fetch'[c].stage = "publisher" /\ fetch'[c].at = claim.domain /\ Landing(c)'
      BY <1>4, AskedFetch
    <2>3. held'[c] = claim
      BY <1>4 DEF Set, IInv, Coroutines
    <2>4. Traced(c)'
      BY <2>2, <2>3 DEF Traced, Kept
    <2> QED
      BY <1>1, <2>1, <2>4, AloneIsYoung, SameBrands, SameAgents, AloneKeeps
  <1> QED
    BY <1>3, <1>4 DEF VerifyClaim, checkVars

-----------------------------------------------------------------------------
(* Every state *)

LEMMA InitRInv == Init => RInv
  <1> SUFFICES ASSUME Init PROVE RInv
    OBVIOUS
  <1>1. Current
    <2>1. \A d \in Domains : origin[d] \in Published[d]
      BY DEF Init
    <2> QED
      BY <2>1 DEF Init, Current
  <1>2. BrandsRecent /\ AgentsRecent
    BY DEF Init, BrandsRecent, AgentsRecent, Positive
  <1>3. \A c \in Callers : Traced(c)
    BY DEF Init, Traced, Landing, Kept
  <1> QED
    BY <1>1, <1>2, <1>3 DEF RInv

\* Steps that no verdict and no document depends on.
LEMMA QuietStepKeeps ==
  ASSUME IInv, IInv', RInv, Aged(0), UNCHANGED <<brands, agents>>, Current',
         \A c \in Callers : Traced(c)'
  PROVE  RInv'
  BY SameBrands, SameAgents DEF RInv

LEMMA LeavingKeeps ==
  ASSUME IInv, IInv', RInv, NEW c \in Callers,
         \/ NextProduct(c) \/ Prepare(c) \/ AccountRefused(c) \/ Send(c)
         \/ \E r \in Requests : BeginBuy(c, r)
  PROVE  RInv' /\ Alone(c)
  <1>1. UNCHANGED worldVars /\ UNCHANGED <<brands, agents>>
    BY DEF NextProduct, Prepare, AccountRefused, Send, BeginBuy
  <1>2. Alone(c) /\ pc'[c] # "fetching"
    <2>1. CASE Return(c)
      BY <1>1, <2>1, ReturnAlone
    <2>2. CASE \E r \in Requests : BeginBuy(c, r)
      BY <1>1, <2>2 DEF BeginBuy, Set, IInv, Coroutines, Alone, loadVars, checkVars
    <2>3. ASSUME NEW to \in {"claims", "account", "ready"}, pc' = Set(pc, c, to),
                 UNCHANGED <<request, loadVars, passed>>
          PROVE  Alone(c) /\ pc'[c] # "fetching"
      BY <1>1, <2>3 DEF Set, IInv, Coroutines, Alone, loadVars
    <2> QED
      BY <2>1, <2>2, <2>3 DEF NextProduct, Prepare, AccountRefused, Send, checkVars
  <1> QED
    BY <1>1, <1>2, AloneIsYoung, SameBrands, SameAgents, IdleTraced, AloneKeeps

LEMMA WorldStepKeeps ==
  ASSUME IInv, IInv', RInv, [Next]_vars,
         \/ \E d \in Domains : \E doc \in Published[d] : Publish(d, doc)
         \/ \E response \in Responses : FindProducts(response)
         \/ \E w \in Windows : WindowMoves(w)
         \/ UNCHANGED vars
  PROVE  RInv'
  <1>1. UNCHANGED <<brands, agents, pc, request, loadVars>>
    BY DEF Publish, FindProducts, WindowMoves, vars
  <1>2. Aged(0)
    <2>1. ASSUME UNCHANGED age PROVE Aged(0)
      <3>1. \A d \in Domains : \A doc \in Published[d] : age'[d][doc] <= age[d][doc] + 0
        BY <2>1, AgeIsNat
      <3> QED
        BY <3>1 DEF Aged
    <2>2. ASSUME NEW d \in Domains, NEW doc \in Published[d], Publish(d, doc)
          PROVE  Aged(0)
      BY <2>2, PublishAges
    <2> QED
      BY <2>1, <2>2 DEF FindProducts, WindowMoves, vars, worldVars
  <1>3. \A c \in Callers : Traced(c)'
    BY <1>1, <1>2, TracedKept DEF RInv, loadVars
  <1> QED
    BY <1>1, <1>2, <1>3, CurrentKept, QuietStepKeeps DEF RInv

LEMMA FetchEventKeeps ==
  ASSUME IInv, IInv', RInv, NEW c \in Callers, Answer(c) \/ TimesOut(c)
  PROVE  RInv'
  <1>1. UNCHANGED <<worldVars, brands, agents>>
    BY DEF Answer, TimesOut
  <1>2. Aged(0)
    <2>1. \A d \in Domains : \A doc \in Published[d] : age'[d][doc] <= age[d][doc] + 0
      BY <1>1, AgeIsNat DEF worldVars
    <2> QED
      BY <2>1 DEF Aged
  <1>3. Current'
    BY <1>1 DEF RInv, Current, worldVars
  <1> QED
    BY <1>1, <1>2, <1>3, FetchEventsTrace, QuietStepKeeps

LEMMA TickKeepsRecent ==
  ASSUME IInv, IInv', RInv, [Next]_vars, Tick
  PROVE  RInv'
  <1>1. Aged(1)
    BY TickAges
  <1>2. brands' = Older(brands) /\ agents' = Older(agents)
    BY DEF Tick
  <1>3. BrandsRecent'
    <2>1. \A q \in Queries : Positive(brands'[q]) =>
            /\ Positive(brands[q]) /\ brands'[q].value = brands[q].value
            /\ brands'[q].left + 1 = brands[q].left
      BY <1>2, OlderEntry DEF IInv, Caches
    <2> QED
      BY <1>1, <2>1, BrandsLater
  <1>4. AgentsRecent'
    <2>1. \A d \in Domains : Positive(agents'[d]) =>
            /\ Positive(agents[d]) /\ agents'[d].value = agents[d].value
            /\ agents'[d].left + 1 = agents[d].left
      BY <1>2, OlderEntry DEF IInv, Caches
    <2> QED
      BY <1>1, <2>1, AgentsLater
  <1>5. Current'
    BY CurrentKept DEF RInv
  <1> QED
    BY <1>1, <1>3, <1>4, <1>5, TickTraces DEF RInv

LEMMA NextKeepsRecent ==
  ASSUME IInv, IInv', RInv, [Next]_vars
  PROVE  RInv'
  <1>1. ASSUME NEW c \in Callers, Run(c)
        PROVE  RInv'
    BY <1>1, LeavingKeeps, VerifyClaimTraces DEF Run
  <1>2. ASSUME NEW c \in Callers, Receive(c)
        PROVE  RInv'
    <2>1. CASE ReceiveBrand(c) \/ ReceiveHouse(c) \/ ReceiveLeaf(c)
      <3>1. BrandStep(c)
        BY <2>1, ReceiveBrandTraces, ReceiveHouseTraces, ReceiveLeafTraces
      <3>2. UNCHANGED <<worldVars, agents>>
        BY <2>1 DEF ReceiveBrand, ReceiveHouse, ReceiveLeaf
      <3> QED
        BY <3>1, <3>2, BrandStepKeeps
    <2> QED
      BY <1>2, <2>1, ReceivePublisherTraces, ReceiveLocationTraces DEF Receive
  <1>3. ASSUME NEW c \in Callers, Step(c)
        PROVE  RInv'
    BY <1>2, <1>3, VerifyOperatorTraces, LeavingKeeps DEF Step
  <1>4. ASSUME NEW c \in Callers, AccountRefused(c) \/ \E r \in Requests : BeginBuy(c, r)
        PROVE  RInv'
    BY <1>4, LeavingKeeps
  <1>5. ASSUME NEW c \in Callers, Answer(c) \/ TimesOut(c)
        PROVE  RInv'
    BY <1>5, FetchEventKeeps
  <1>6. CASE \/ \E d \in Domains : \E doc \in Published[d] : Publish(d, doc)
             \/ \E response \in Responses : FindProducts(response)
             \/ \E w \in Windows : WindowMoves(w)
             \/ UNCHANGED vars
    BY <1>6, WorldStepKeeps
  <1>7. CASE Tick
    BY <1>7, TickKeepsRecent
  <1> QED
    BY <1>1, <1>3, <1>4, <1>5, <1>6, <1>7 DEF Next

\* Every document a verdict may rest on is as recent as its load took, plus the
\* time it is in the cache.
THEOREM DocumentsTraced == Spec => []RInv
  <1>1. IInv /\ IInv' /\ RInv /\ [Next]_vars => RInv'
    BY NextKeepsRecent
  <1> QED
    BY <1>1, InitRInv, GateInvariant, PTL DEF Spec

-----------------------------------------------------------------------------
(* What passes *)

LEMMA RecentCovers ==
  ASSUME NEW n \in Nat, LongestRoute >= n, NEW left \in Nat
  PROVE  n * FetchTimeout + Ttl - left \in Int /\ n * FetchTimeout + Ttl - left <= Recent
  <1>1. LongestRoute * FetchTimeout \in Nat /\ n * FetchTimeout \in Nat
    BY GateAssumption
  <1>2. n * FetchTimeout <= LongestRoute * FetchTimeout
    BY GateAssumption
  <1> QED
    BY <1>1, <1>2, GateAssumption DEF Recent

LEMMA VouchedActs ==
  ASSUME IInv, NEW c \in Callers, NEW x, NEW n \in Int, n <= Recent,
         Vouched(age, x, QueryOf(c), n),
         OperatorAuthorized(x, request[c].brand.countries, Open)
  PROVE  MayActFor(c)
  <1> DEFINE q == QueryOf(c)
             countries == request[c].brand.countries
  <1>1. x.verified /\ \E entry \in x.operators :
          OperatorEntryAuthorizes(entry, x.brand, countries, Open)
    BY DEF OperatorAuthorized
  <1>2. PICK d \in Domains : \E house \in Published[d] :
          /\ house.kind = "portfolio" /\ Known(age, d, house, n)
          /\ x.operators = house.operators
          /\ \/ x.brand = NoBrand /\ q.domain = house.house
             \/ x.brand \in house.inline
             \/ x.brand \in house.refs /\ LeafKnown(age, x.brand, q, house, n)
    BY <1>1 DEF Vouched
  <1>3. PICK house \in Published[d] :
          /\ house.kind = "portfolio" /\ Known(age, d, house, n)
          /\ x.operators = house.operators
          /\ \/ x.brand = NoBrand /\ q.domain = house.house
             \/ x.brand \in house.inline
             \/ x.brand \in house.refs /\ LeafKnown(age, x.brand, q, house, n)
    BY <1>2
  <1>4. \A e \in Domains : \A doc \in Published[e] :
          Known(age, e, doc, n) => doc \in RecentDocs(e)
    <2> SUFFICES ASSUME NEW e \in Domains, NEW doc \in Published[e], Known(age, e, doc, n)
                 PROVE  age[e][doc] <= Recent
      BY DEF RecentDocs
    <2>1. age[e][doc] \in Nat /\ age[e][doc] <= n /\ Recent \in Nat
      BY AgeIsNat, RecentIsNat DEF Known
    <2> QED
      BY <2>1
  <1>5. house \in RecentOf("portfolio")
    <2>1. house \in {y \in RecentDocs(d) : y.kind = "portfolio"}
      BY <1>3, <1>4
    <2> QED
      BY <2>1 DEF RecentOf
  <1>6. LeafKnown(age, x.brand, q, house, n) =>
          \E leaf \in RecentOf("canonical") :
            \/ leaf.house = house.house
            \/ leaf.id = x.brand /\ q.domain = x.brand
    <2> SUFFICES ASSUME NEW e \in Domains, NEW leaf \in Published[e],
                        leaf.kind = "canonical", Known(age, e, leaf, n)
                 PROVE  leaf \in RecentOf("canonical")
      BY DEF LeafKnown
    <2>1. leaf \in {y \in RecentDocs(e) : y.kind = "canonical"}
      BY <1>4
    <2> QED
      BY <2>1 DEF RecentOf
  <1>7. BelongsTo(q, x.brand, house)
    BY <1>3, <1>6 DEF BelongsTo
  <1>8. x.brand \in {Wanted(q), NoBrand} \cup house.inline \cup house.refs
    BY <1>3
  <1> HIDE DEF q, countries
  <1>9. \E h \in RecentOf("portfolio") :
          \E brand \in {Wanted(q), NoBrand} \cup h.inline \cup h.refs :
            /\ BelongsTo(q, brand, h)
            /\ \E entry \in h.operators :
                 OperatorEntryAuthorizes(entry, brand, countries, Open)
    <2>1. \E entry \in house.operators :
            OperatorEntryAuthorizes(entry, x.brand, countries, Open)
      BY <1>1, <1>3
    <2> QED
      BY <1>5, <1>7, <1>8, <2>1
  <1> QED
    BY <1>9 DEF MayActFor, q, countries

LEMMA RoutedGrants ==
  ASSUME IInv, NEW c \in Callers, NEW claim, NEW doc, NEW n \in Int, n <= Recent,
         Routed(age, claim.domain, doc, n),
         SelectorAuthorized(claim, doc, [countries |-> request[c].countries,
                                         placements |-> raw[c].placements], Open)
  PROVE  SellerGranted(c, claim)
  <1>1. \A e, y : Known(age, e, y, n) => e \in Domains /\ y \in RecentDocs(e)
    <2> SUFFICES ASSUME NEW e \in Domains, NEW y \in Published[e], Known(age, e, y, n)
                 PROVE  age[e][y] <= Recent
      BY DEF RecentDocs, Known
    <2>1. age[e][y] \in Nat /\ age[e][y] <= n /\ Recent \in Nat
      BY AgeIsNat, RecentIsNat DEF Known
    <2> QED
      BY <2>1
  <1>2. PICK e \in Domains : /\ doc \in RecentDocs(e)
                             /\ \/ doc \in RecentDocs(claim.domain)
                                \/ \E pointer \in RecentDocs(claim.domain) :
                                     /\ pointer.kind = "moved"
                                     /\ doc \in RecentDocs(pointer.to)
    BY <1>1 DEF Routed
  <1>3. doc \in {y \in RecentDocs(e) : y.kind = "agents"}
    BY <1>2 DEF Routed
  <1>4. doc \in RecentOf("agents")
    BY <1>3 DEF RecentOf
  <1> QED
    BY <1>2, <1>4 DEF SellerGranted

LEMMA CallerAlone ==
  ASSUME IInv, IInv', RInv, NEW c \in Callers,
         Run(c) \/ Step(c) \/ AccountRefused(c) \/ \E r \in Requests : BeginBuy(c, r)
  PROVE  Alone(c)
  <1>1. CASE ReceiveBrand(c) \/ ReceiveHouse(c) \/ ReceiveLeaf(c)
    <2>1. BrandStep(c)
      BY <1>1, ReceiveBrandTraces, ReceiveHouseTraces, ReceiveLeafTraces
    <2>2. UNCHANGED <<worldVars, agents>>
      BY <1>1 DEF ReceiveBrand, ReceiveHouse, ReceiveLeaf
    <2> QED
      BY <2>1, <2>2, BrandStepKeeps
  <1> QED
    BY <1>1, VerifyOperatorTraces, ReceivePublisherTraces, ReceiveLocationTraces,
       VerifyClaimTraces, LeavingKeeps DEF Run, Step, Receive

\* A caller is moved by its own steps only.
LEMMA OnlyItsOwn ==
  ASSUME IInv, IInv', RInv, [Next]_vars, NEW c \in Callers
  PROVE  \/ pc'[c] = pc[c] /\ passed'[c] = passed[c]
         \/ Run(c) \/ Step(c) \/ AccountRefused(c) \/ \E r \in Requests : BeginBuy(c, r)
  <1>1. ASSUME NEW d \in Callers, d # c,
               Run(d) \/ Step(d) \/ AccountRefused(d) \/ \E r \in Requests : BeginBuy(d, r)
        PROVE  pc'[c] = pc[c] /\ passed'[c] = passed[c]
    BY <1>1, CallerAlone DEF Alone
  <1>2. CASE UNCHANGED <<pc, passed>>
    BY <1>2
  <1>3. \/ UNCHANGED <<pc, passed>>
        \/ \E d \in Callers :
             Run(d) \/ Step(d) \/ AccountRefused(d) \/ \E r \in Requests : BeginBuy(d, r)
    BY DEF Next, vars, Answer, TimesOut, Publish, FindProducts, WindowMoves, Tick, checkVars
  <1> QED
    BY <1>1, <1>2, <1>3

\* What is cached was known so recently when it is used.
LEMMA CachedBrand ==
  ASSUME IInv, RInv, LongestRoute >= 5, NEW q \in Queries, Positive(brands[q])
  PROVE  \E n \in Int : n <= Recent /\ Vouched(age, brands[q].value, q, n)
  <1> DEFINE n == BrandRoute + Ttl - brands[q].left
  <1>1. brands[q].left \in Nat
    BY LeftIsNat DEF IInv, Caches, Positive
  <1>2. n \in Int /\ n <= Recent
    BY <1>1, RecentCovers DEF BrandRoute
  <1>3. Vouched(age, brands[q].value, q, n)
    BY DEF RInv, BrandsRecent
  <1> HIDE DEF n
  <1> QED
    BY <1>2, <1>3

LEMMA CachedAgents ==
  ASSUME IInv, RInv, LongestRoute >= 2, NEW d \in Domains, Positive(agents[d])
  PROVE  \E n \in Int : n <= Recent /\ Routed(age, d, agents[d].value, n)
  <1> DEFINE n == AgentsRoute + Ttl - agents[d].left
  <1>1. agents[d].left \in Nat
    BY LeftIsNat DEF IInv, Caches, Positive
  <1>2. n \in Int /\ n <= Recent
    BY <1>1, RecentCovers DEF AgentsRoute
  <1>3. Routed(age, d, agents[d].value, n)
    BY DEF RInv, AgentsRecent
  <1> HIDE DEF n
  <1> QED
    BY <1>2, <1>3

LEMMA RoutesAreRecent ==
  /\ LongestRoute >= 5 => BrandRoute \in Int /\ BrandRoute <= Recent
  /\ LongestRoute >= 2 => AgentsRoute \in Int /\ AgentsRoute <= Recent
  <1>1. ASSUME NEW n \in Nat, LongestRoute >= n
        PROVE  n * FetchTimeout \in Int /\ n * FetchTimeout <= Recent
    <2>1. n * FetchTimeout + Ttl - Ttl \in Int /\ n * FetchTimeout + Ttl - Ttl <= Recent
      BY <1>1, RecentCovers, GateAssumption
    <2>2. n * FetchTimeout \in Int
      BY <1>1, GateAssumption
    <2>3. n * FetchTimeout + Ttl - Ttl = n * FetchTimeout
      BY <2>2, GateAssumption
    <2> QED
      BY <2>1, <2>2, <2>3
  <1> QED
    BY <1>1 DEF BrandRoute, AgentsRoute

LEMMA JudgedOperator ==
  ASSUME IInv, NEW c \in Callers, NEW x, NEW n \in Int, n <= Recent,
         Vouched(age, x, QueryOf(c), n), JudgeOperator(c, x), pc'[c] = "products"
  PROVE  MayActFor(c)
  <1>1. ~Return(c)
    BY DEF Return, Set, IInv, Coroutines
  <1>2. OperatorAuthorized(x, request[c].brand.countries, Open)
    BY <1>1 DEF JudgeOperator
  <1> QED
    BY <1>2, VouchedActs

LEMMA PassesAsRecent ==
  ASSUME LongestRoute >= 5, IInv, IInv', RInv, [Next]_vars, NEW c \in Callers,
         Resolving(c), pc'[c] = "products"
  PROVE  MayActFor(c)
  <1>1. ~Return(c)
    BY DEF Return, Set, IInv, Coroutines
  <1>2. CASE VerifyOperator(c)
    <2> DEFINE q == QueryOf(c)
    <2>1. CASE q.domain = Operator
      BY <2>1 DEF MayActFor
    <2>2. CASE Fresh(brands[q]) /\ brands[q].value # NoDoc /\ JudgeOperator(c, brands[q].value)
      <3>1. q \in Queries
        BY <1>2, QueryIsKnown DEF VerifyOperator, IInv, Sound, Busy
      <3>2. Positive(brands[q])
        BY <2>2 DEF Positive, Fresh
      <3>3. PICK n \in Int : n <= Recent /\ Vouched(age, brands[q].value, q, n)
        BY <3>1, <3>2, CachedBrand
      <3> QED
        BY <2>2, <3>3, JudgedOperator
    <2>3. ~Ask(c, "brand", q.domain)
      BY DEF Ask, Set, IInv, Coroutines
    <2> QED
      BY <1>1, <1>2, <2>1, <2>2, <2>3 DEF VerifyOperator
  <1>3. CASE ReceiveBrand(c) \/ ReceiveHouse(c) \/ ReceiveLeaf(c)
    <2>1. BrandStep(c)
      BY <1>3, ReceiveBrandTraces, ReceiveHouseTraces, ReceiveLeafTraces
    <2>2. PICK x : Resolved(c, x) /\ Vouched(age, x, QueryOf(c), BrandRoute)
      BY <1>1, <2>1 DEF BrandStep, Unavailable, Refused
    <2> QED
      BY <2>2, RoutesAreRecent, JudgedOperator DEF Resolved
  <1>4. pc'[c] # pc[c]
    BY DEF Resolving
  <1>5. Run(c) \/ Step(c) \/ AccountRefused(c) \/ \E r \in Requests : BeginBuy(c, r)
    BY <1>4, OnlyItsOwn
  <1>6. VerifyOperator(c) \/ ReceiveBrand(c) \/ ReceiveHouse(c) \/ ReceiveLeaf(c)
    BY <1>5 DEF Resolving, Run, Step, Receive, NextProduct, VerifyClaim, Prepare, Send,
       AccountRefused, BeginBuy, ReceivePublisher, ReceiveLocation, Landed
  <1> QED
    BY <1>2, <1>3, <1>6

LEMMA JudgedClaim ==
  ASSUME IInv, NEW c \in Callers, NEW claim, NEW doc, NEW n \in Int, n <= Recent,
         Routed(age, claim.domain, doc, n), JudgeClaim(c, claim, doc),
         NEW pair \in passed'[c] \ passed[c]
  PROVE  SellerGranted(c, pair[2])
  <1>1. ~Return(c)
    BY DEF Return, Set, IInv, Coroutines
  <1>2. /\ passed' = Set(passed, c, passed[c] \cup {<<raw[c], claim>>})
        /\ SelectorAuthorized(claim, doc, [countries |-> request[c].countries,
                                           placements |-> raw[c].placements], Open)
    BY <1>1 DEF JudgeClaim
  <1>3. pair = <<raw[c], claim>>
    BY <1>2 DEF Set, IInv, Coroutines
  <1>4. pair[2] = claim
    BY <1>3
  <1> QED
    BY <1>2, <1>4, RoutedGrants

LEMMA VerifiedAsRecent ==
  ASSUME LongestRoute >= 2, IInv, IInv', RInv, [Next]_vars, NEW c \in Callers,
         NEW pair \in passed'[c] \ passed[c]
  PROVE  SellerGranted(c, pair[2])
  <1>1. ~Return(c)
    BY DEF Return, Set, IInv, Coroutines
  <1>2. passed'[c] # passed[c]
    OBVIOUS
  <1>3. CASE VerifyClaim(c)
    <2>1. PICK claim \in claims[c] :
            /\ claim.domain # NoDomain /\ Positive(agents[claim.domain])
            /\ JudgeClaim(c, claim, agents[claim.domain].value)
      BY <1>1, <1>2, <1>3 DEF VerifyClaim, Fresh, Positive, checkVars
    <2>2. claim.domain \in Domains
      BY <2>1 DEF IInv, Coroutines, Claims
    <2>3. PICK n \in Int : n <= Recent /\ Routed(age, claim.domain, agents[claim.domain].value, n)
      BY <2>1, <2>2, CachedAgents
    <2> QED
      BY <2>1, <2>3, JudgedClaim
  <1>4. CASE ReceivePublisher(c) \/ ReceiveLocation(c)
    <2>1. /\ Loaded(c, fetch[c].doc)
          /\ Routed(age, held[c].domain, fetch[c].doc, AgentsRoute)
      BY <1>1, <1>2, <1>4, PublisherRoutes, LocationRoutes
         DEF ReceivePublisher, ReceiveLocation, NotLoaded, checkVars
    <2> QED
      BY <2>1, RoutesAreRecent, JudgedClaim DEF Loaded
  <1>5. Run(c) \/ Step(c) \/ AccountRefused(c) \/ \E r \in Requests : BeginBuy(c, r)
    BY <1>2, OnlyItsOwn
  <1>6. ASSUME ReceiveBrand(c) \/ ReceiveHouse(c) \/ ReceiveLeaf(c)
        PROVE  passed' = passed \/ Return(c)
    BY <1>6 DEF ReceiveBrand, ReceiveHouse, ReceiveLeaf, FollowOn, Unavailable, Refused,
       ResolvePortfolio, ResolveCanonical, Resolved, JudgeOperator, OperatorPasses, checkVars
  <1>7. ASSUME VerifyOperator(c) \/ NextProduct(c) \/ Prepare(c) \/ Send(c)
               \/ AccountRefused(c) \/ \E r \in Requests : BeginBuy(c, r)
        PROVE  passed' = passed \/ Return(c)
    BY <1>7 DEF VerifyOperator, NextProduct, Prepare, Send, AccountRefused, BeginBuy,
       JudgeOperator, OperatorPasses, checkVars
  <1> QED
    BY <1>1, <1>2, <1>3, <1>4, <1>5, <1>6, <1>7 DEF Run, Step, Receive

\* No buy passes the operator check on a brand document withdrawn longer ago
\* than an entry lives and the load behind it took (verify_operator), if the
\* history goes back far enough to tell: five fetches.
THEOREM GateActsForRecentBrand ==
  ASSUME LongestRoute >= 5
  PROVE  Spec => ActsForRecentBrand
  <1>1. IInv /\ IInv' /\ RInv /\ [Next]_vars =>
          [\A c \in Callers : Resolving(c) /\ pc'[c] = "products" => MayActFor(c)]_vars
    BY PassesAsRecent
  <1> QED
    BY <1>1, GateInvariant, DocumentsTraced, PTL DEF Spec, ActsForRecentBrand

\* No claim is verified but by a grant that the publisher, or the location it
\* pointed to, published as recently (verify_product): two fetches.
THEOREM GateClaimsRecentlyGranted ==
  ASSUME LongestRoute >= 2
  PROVE  Spec => ClaimsRecentlyGranted
  <1>1. IInv /\ IInv' /\ RInv /\ [Next]_vars =>
          [\A c \in Callers :
             \A pair \in passed'[c] \ passed[c] : SellerGranted(c, pair[2])]_vars
    BY VerifiedAsRecent
  <1> QED
    BY <1>1, GateInvariant, DocumentsTraced, PTL DEF Spec, ClaimsRecentlyGranted

=============================================================================
