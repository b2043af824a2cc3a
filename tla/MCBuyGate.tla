----------------------------- MODULE MCBuyGate ------------------------------
(***************************************************************************)
(* BuyGate with a brand whose own document defers to a house, and one      *)
(* publisher.                                                              *)
(***************************************************************************)
EXTENDS BuyGate, TLC

CONSTANTS Leaf, House, Publisher, Location, p1, p2, i1, i2, w1

Grant == [operator |-> Operator, brands |-> {AnyBrand}, window |-> w1,
          scopes |-> {"all"}, countries |-> {}]

Portfolio(members, granted) ==
  [kind |-> "portfolio", house |-> House, inline |-> {}, refs |-> members,
   operators |-> granted]
Canonical(of) == [kind |-> "canonical", house |-> of, id |-> Leaf]
Moved(d) == [kind |-> "moved", to |-> d]

Agents(granted) ==
  [kind |-> "agents", revoked |-> FALSE, properties |-> {i1, i2}, tagged |-> {i2},
   agents |-> {[window |-> w1, countries |-> {}, url |-> Seller, opaque |-> FALSE,
                placements |-> {}, grants |-> [type |-> "by_id", ids |-> granted]]}]

MCPublished ==
  (Leaf :> {Canonical(House), Moved(House)}) @@
  (House :> {Portfolio({Leaf}, {Grant}), Portfolio({Leaf}, {}), Moved(Leaf)}) @@
  (Publisher :> {Agents({i1, i2}), Moved(Location)}) @@
  (Location :> {Agents({i1})})

Claim(type, ids) == [domain |-> Publisher, selector |-> [type |-> type, ids |-> ids]]

MCResponses ==
  {{[id |-> p1, placements |-> {}, claims |-> {Claim("by_id", {i1})}],
   [id |-> p2, placements |-> {}, claims |-> {Claim("by_tag", {})}]}}

BrandRef(d) == [countries |-> {}, id |-> NoBrand, domain |-> d]

MCRequests ==
  {[countries |-> {}, brand |-> BrandRef(Leaf), packages |-> {p1, p2}, product |-> p1,
    proposal |-> FALSE, allocation |-> "none", goals |-> FALSE, budgeted |-> TRUE]}

=============================================================================
