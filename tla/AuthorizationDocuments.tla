----------------------- MODULE AuthorizationDocuments -----------------------
(***************************************************************************)
(* What a brand.json and an adagents.json say: the verdicts of             *)
(* brand/resolver.py and authorization/adagents.py on documents they hold. *)
(*                                                                         *)
(* A domain stands for itself and for the id of the brand that lives       *)
(* there.  URLs are compared after canonicalization, so an agent is a      *)
(* model value.                                                            *)
(***************************************************************************)
EXTENDS Naturals, FiniteSets

CONSTANTS
  Operator,    \* settings.operator_domain
  Seller,      \* the agent that is asked to sell
  AnyBrand,    \* "*" in a list of brands
  NoBrand,     \* None for a brand_id
  NoDomain     \* no house_domain, no authoritative_location

\* Kinds of brand.json: the fetch failed or gave no object; an object of no
\* known variant; one that delegates to a brand agent; one that points
\* elsewhere; a Brand Canonical Document; a House Portfolio.
BrandKinds == {"down", "other", "agent", "moved", "canonical", "portfolio"}

\* What a fetch gives when fetch_json refuses the address, a redirect, the
\* status, the size or the JSON, or when the JSON is no object.
Down == [kind |-> "down"]

-----------------------------------------------------------------------------
(* brand.json *)

\* The entry covers this operator, brand and set of countries, in its window.
\* An entry without scopes is for all of them.
OperatorEntryAuthorizes(entry, brand, countries, open) ==
  /\ entry.operator = Operator
  /\ {AnyBrand, brand} \cap entry.brands # {}
  /\ entry.window \in open
  /\ {"all", "media_buying"} \cap entry.scopes # {}
  /\ entry.countries # {} => countries # {} /\ countries \subseteq entry.countries

\* What a query is after: the brand with its id, or the one at its domain.
Wanted(query) == IF query.id = NoBrand THEN query.domain ELSE query.id

\* Without an id, two entries for the domain leave open which one is meant.
Ambiguous(doc, query) ==
  query.id = NoBrand /\ query.domain \in doc.inline \cap doc.refs

MissingFromPortfolio(doc, query) ==
  query.id # NoBrand /\ query.id \notin doc.inline \cup doc.refs

\* The house itself is asked for, and has one brand only.
OnlyBrand(doc, query) ==
  /\ query.id = NoBrand
  /\ query.domain = doc.house
  /\ Cardinality(doc.inline) + Cardinality(doc.refs) = 1

\* The brand of a House Portfolio that a query resolves to.
PortfolioBrand(doc, query) ==
  IF Wanted(query) \in doc.inline \cup doc.refs THEN Wanted(query)
  ELSE IF OnlyBrand(doc, query) THEN CHOOSE b \in doc.inline \cup doc.refs : TRUE
  ELSE NoBrand

\* It is only referred to, so its own document has to name the house.
NeedsLeaf(doc, query) == PortfolioBrand(doc, query) \in doc.refs \ doc.inline

\* Verified without asking the leaf: an inline brand, or the house's own query.
HouseVouches(doc, query) ==
  IF PortfolioBrand(doc, query) = NoBrand THEN query.domain = doc.house
  ELSE PortfolioBrand(doc, query) \in doc.inline

LeafReciprocates_Unasked(leaf, house) == TRUE

\* The leaf's canonical document names the house.
LeafReciprocates(leaf, house) == leaf.kind = "canonical" /\ leaf.house = house.house

\* A canonical document's house refers back to it.
HouseReciprocates(house, leaf, query) ==
  query.domain = leaf.id /\ leaf.id \in house.refs

Resolution(brand, operators, verified) ==
  [brand |-> brand, operators |-> operators, verified |-> verified]

\* verify_operator, on a resolution.
OperatorAuthorized(resolution, countries, open) ==
  /\ resolution.verified
  /\ \E entry \in resolution.operators :
       OperatorEntryAuthorizes(entry, resolution.brand, countries, open)

-----------------------------------------------------------------------------
(* adagents.json *)

\* The property ids a selector of a product claims, or one of an entry grants.
SelectedIds(selector, doc) ==
  CASE selector.type = "all" -> doc.properties
    [] selector.type = "by_id" -> selector.ids
    [] selector.type = "by_tag" -> doc.tagged

\* A grant scoped to collections or placement tags (opaque) never applies.
EntryInScope(entry, buy, open) ==
  /\ entry.window \in open
  /\ ~entry.opaque
  /\ entry.countries # {} =>
       buy.countries # {} /\ buy.countries \subseteq entry.countries
  /\ entry.placements # {} =>
       buy.placements # {} /\ buy.placements \subseteq entry.placements

GrantedIds(doc, buy, open) ==
  UNION {SelectedIds(e.grants, doc) :
           e \in {x \in doc.agents : x.url = Seller /\ EntryInScope(x, buy, open)}}

\* _verify_selector, on a document.
SelectorAuthorized(claim, doc, buy, open) ==
  LET claimed == SelectedIds(claim.selector, doc) IN
  /\ ~doc.revoked
  /\ claimed # {}
  /\ claim.selector.type = "by_id" => claimed \subseteq doc.properties
  /\ claimed \subseteq GrantedIds(doc, buy, open)

=============================================================================
