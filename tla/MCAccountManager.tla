--------------------------- MODULE MCAccountManager --------------------------
(***************************************************************************)
(* AccountManager with a seller found under two spellings of its address,  *)
(* of one of four kinds: buyers declare accounts, the same but the first   *)
(* buy opens them, the same but keys need a timezone that is not           *)
(* configured, or operators are authorized for accounts.                   *)
(***************************************************************************)
EXTENDS AccountManager, TLC

CONSTANTS u, uSlash, c1, c2, a1, a2

MCBare == u :> u @@ uSlash :> u
MCSite == u :> u @@ uSlash :> u

Entry(url) ==
  [type |-> "sales", protocol |-> "mcp", tools |-> Tools, url |-> url, endpoint |-> NoUrl]

MCTasks == c1 :> {"buy", "search", "change", "list"} @@ c2 :> {"sync"}

MCListings == {<<Entry(uSlash), Entry(u)>>, <<Entry(u)>>}

Declares(auth, required, demands) ==
  [declared |-> TRUE, auth |-> auth, required |-> required, demands |-> demands,
   sandbox |-> FALSE, bills |-> TRUE]

MCBuyerDeclared == [tools |-> Tools, caps |-> Declares(FALSE, TRUE, {})]
MCLazy ==
  [tools |-> Tools \ {"sync_accounts"}, caps |-> Declares(FALSE, FALSE, {})]
MCPicky ==
  [tools |-> Tools \ {"list_accounts"}, caps |-> Declares(FALSE, FALSE, {"timezone"})]
MCOperatorAuthorized == [tools |-> Tools, caps |-> Declares(TRUE, FALSE, {})]

MCOffers == {MCBuyerDeclared, MCLazy, MCPicky, MCOperatorAuthorized}

=============================================================================
