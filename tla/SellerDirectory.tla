--------------------------- MODULE SellerDirectory ---------------------------
(***************************************************************************)
(* Which agent a call to a seller is made with: the agents that discovery  *)
(* lists (src/discovery/registry.py), what probing learns of each, the     *)
(* account mode and the credential that follow (src/accounts/mode.py), and *)
(* the session that every call goes through (get_seller_session).          *)
(*                                                                         *)
(* An agent is a value: discovery makes new ones, and nothing changes an   *)
(* agent once it is listed.                                                *)
(***************************************************************************)
EXTENDS Naturals, Sequences

CONSTANTS
  Urls,            \* addresses of agents, as configuration or registries spell them
  Bare,            \* url.rstrip("/"): what sessions and accounts are kept by
  Site,            \* _normalize_url: what discovery tells agents apart by
  NoUrl,
  Configured,      \* addresses of the enabled DEFAULT_SELLERS
  Registries,      \* registry_base_urls: how many registries there are
  ForcedMode,      \* NXFLO_ACCOUNT_MODE, for the seller or for all, or "auto"
  OperatorToken    \* NXFLO_OPERATOR_TOKEN_<SLUG> is set

Sellers == {Bare[u] : u \in Urls}
Tools == {"get_products", "get_adcp_capabilities", "list_accounts", "sync_accounts"}
Modes == {"buyer_declared", "operator_authorized"}

\* Fields of a natural key that only some sellers ask for.
Extras == {"currency", "timezone", "sandbox"}

\* What a seller declares of its accounts in get_adcp_capabilities.
Capabilities ==
  [declared : BOOLEAN,   \* there is an account block at all
   auth : BOOLEAN,       \* require_operator_auth
   required : BOOLEAN,   \* required_for_products
   demands : SUBSET {"currency", "timezone"},
   sandbox : BOOLEAN,    \* has sandbox accounts
   bills : BOOLEAN]      \* supports the billing we are set up for

Undeclared ==
  [declared |-> FALSE, auth |-> FALSE, required |-> FALSE, demands |-> {},
   sandbox |-> FALSE, bills |-> TRUE]

Agents ==
  [url : Urls, source : {"config", "registry"}, tools : SUBSET Tools,
   caps : Capabilities, mode : Modes]

\* One entry of a registry's listing.
Entries ==
  [type : {"sales", "other"}, protocol : {"mcp", "other"}, tools : SUBSET Tools,
   url : Urls \cup {NoUrl}, endpoint : Urls \cup {NoUrl}]

ASSUME DirectoryAssumption ==
  /\ NoUrl \notin Urls
  /\ DOMAIN Bare = Urls /\ DOMAIN Site = Urls
  /\ \A u, v \in Urls : Bare[u] = Bare[v] => Site[u] = Site[v]  \* computed from Bare
  /\ Configured \subseteq Urls
  /\ Registries \in Nat
  /\ ForcedMode \in Modes \cup {"auto"}
  /\ OperatorToken \in BOOLEAN

-----------------------------------------------------------------------------
(* Discovery *)

\* The agent as its constructor leaves it.
NewAgent(url, source, tools) ==
  [url |-> url, source |-> source, tools |-> tools, caps |-> Undeclared,
   mode |-> "buyer_declared"]

Address(e) == IF e.endpoint # NoUrl THEN e.endpoint ELSE e.url

\* parse_registry_entry gives an agent.
Buyable(e) ==
  /\ e.type = "sales"
  /\ e.endpoint # NoUrl \/ (e.protocol = "mcp" /\ e.url # NoUrl)

\* fetch_registry_agents: the listing of the first registry that answers, or
\* nothing.  answers[i] is what registry i says, <<FALSE, <<>>>> if nothing.
Fetched(answers, listing) ==
  \/ \E i \in 1 .. Registries :
       /\ answers[i] = <<TRUE, listing>>
       /\ \A j \in 1 .. i - 1 : ~answers[j][1]
  \/ (\A i \in 1 .. Registries : ~answers[i][1]) /\ listing = <<>>

Unprobed_KeepsDuplicates(listing) ==
  {NewAgent(u, "config", {}) : u \in Configured} \cup
  {NewAgent(Address(listing[i]), "registry", listing[i].tools) :
     i \in {j \in DOMAIN listing : Buyable(listing[j])}}

\* discover_all_sellers, before it probes: what is configured, and of each
\* other site the first agent listed.
Unprobed(listing) ==
  LET SiteOf(i) == Site[Address(listing[i])]
      buyable == {i \in DOMAIN listing : Buyable(listing[i])}
      new == {i \in buyable :
                /\ \A u \in Configured : Site[u] # SiteOf(i)
                /\ \A j \in buyable : j < i => SiteOf(j) # SiteOf(i)}
  IN {NewAgent(u, "config", {}) : u \in Configured} \cup
     {NewAgent(Address(listing[i]), "registry", listing[i].tools) : i \in new}

\* determine_account_mode
ModeFor(caps) ==
  IF ForcedMode # "auto" THEN ForcedMode
  ELSE IF caps.auth THEN "operator_authorized" ELSE "buyer_declared"

\* apply_account_config, which is what makes a mode operator_authorized: with
\* that mode, the agent's operator_token is what OperatorToken says.
Configure(agent) == [agent EXCEPT !.mode = ModeFor(agent.caps)]

\* probe_seller: the seller cannot be reached; it lists its tools, but not its
\* capabilities; or it answers both.
ProbeOutcomes == {"fails", "mute", "full"}

Probed(agent, outcome, offer) ==
  LET reached == [agent EXCEPT !.tools = offer.tools]
      learns == outcome = "full" /\ "get_adcp_capabilities" \in offer.tools
  IN IF outcome = "fails" THEN agent
     ELSE Configure(IF learns THEN [reached EXCEPT !.caps = offer.caps] ELSE reached)

-----------------------------------------------------------------------------
(* Agents *)

\* Unknown tool lists are treated as complete.
HasTool(agent, tool) == agent.tools = {} \/ tool \in agent.tools

\* get_products_from_all asks those known to have products, or else all.
Eligible(agents) ==
  LET known == {a \in agents : "get_products" \in a.tools}
  IN IF known # {} THEN known ELSE agents

\* _build_headers: whose credential goes with a call.
Credential(agent) ==
  IF agent.mode = "operator_authorized" /\ OperatorToken THEN "operator" ELSE "ours"

=============================================================================
