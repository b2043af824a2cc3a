--------------------------- MODULE AccountManager ----------------------------
(***************************************************************************)
(* The accounts we have on a seller (src/accounts/manager.py), and the     *)
(* reference to one that a buy, a change of a buy or a product search is   *)
(* made under.  With some sellers we declare an account per brand          *)
(* (sync_accounts) and name it by its natural key; with others the         *)
(* operator's credential opens accounts that list_accounts tells.          *)
(*                                                                         *)
(* A caller is one coroutine; a step runs from one await to the next.      *)
(* What the seller says is remembered at once and persisted after that, by *)
(* a read of the row and a commit, between which anything else may happen. *)
(* One seller is modelled, with the addresses it is found under.           *)
(***************************************************************************)
EXTENDS SellerDirectory, FiniteSets

CONSTANTS
  Callers, Brands,
  Tasks,           \* what each caller may be called for
  Ids,             \* account ids of the seller
  Offers,          \* tools and capabilities the seller may have
  Listings,        \* what a registry may list
  Echoed,          \* fields the seller shows of an account, beyond those asked for
  Configurable,    \* the currency and timezone settings that are set
  Sandbox,         \* settings.account_sandbox
  AutoProvision,   \* settings.account_auto_provision
  Pinned,          \* NXFLO_OPERATOR_ACCOUNT_ID_<SLUG>, or NoId
  MaxPages,        \* pages list_accounts reads
  MaxChanges,      \* bound: changes of accounts at the seller
  MaxDiscoveries,  \* bound: discoveries after the first one
  MaxCrashes,      \* bound: crashes of this process
  NoId, NoAccount, NoAgent, NoCall, NoRef

\* The brand_key and the operator of a natural key are one here.
Keys == [brand : Brands, with : SUBSET Extras]
StorageKeys == Keys \cup Ids

\* Statuses on which the code agrees are one: "pending" stands for
\* pending_approval, rejected, suspended and closed, too.
Statuses == {"active", "payment_required", "pending"}

\* An account as the seller shows it, "with" the fields beyond the brand.
Accounts == [id : Ids, brand : Brands, with : SUBSET Extras, status : Statuses]

Kinds == {"buy", "change", "search", "list", "sync"}
Calls == [kind : Kinds, agent : Agents, brand : Brands]

ASSUME AccountAssumption ==
  /\ Tasks \in [Callers -> SUBSET Kinds]
  /\ Offers \subseteq [tools : SUBSET Tools, caps : Capabilities]
  /\ Listings \subseteq Seq(Entries)
  /\ Echoed \subseteq Extras
  /\ Configurable \subseteq {"currency", "timezone"}
  /\ Sandbox \in BOOLEAN /\ AutoProvision \in BOOLEAN
  /\ Pinned \in Ids \cup {NoId}
  /\ MaxPages \in Nat \ {0}
  /\ MaxChanges \in Nat /\ MaxDiscoveries \in Nat /\ MaxCrashes \in Nat
  /\ NoId \notin Ids /\ NoAccount \notin Accounts /\ NoAgent \notin Agents
  /\ NoCall \notin Calls /\ NoRef \notin StorageKeys
  /\ Keys \cap Ids = {} /\ IsFiniteSet(Ids)

VARIABLES
  offer,       \* the seller's tools and capabilities
  owned,       \* its accounts
  had,         \* the statuses each brand's accounts have had (history)
  changes,
  listed,      \* BuyingOrchestrator._sellers
  sessions,    \* BuyingOrchestrator._seller_sessions: the agent of each
  discoveries,
  memory,      \* AccountManager._accounts
  table,       \* the committed rows of seller_accounts
  crashes,
  pc,          \* where a caller is
  call,        \* what it was called for
  left,        \* accounts the listing it awaits has not shown yet
  pages,       \* pages of it that were read, 0 in sync_accounts
  todo,        \* accounts of the last answer it has yet to store
  found,       \* accounts of all answers, with their keys
  row,         \* the account it is persisting, and whether it read a row
  ref,         \* the reference its request will carry
  steady       \* accounts active ever since its listing began (history)

sellerVars == <<offer, owned, had, changes>>
agentVars == <<listed, sessions, discoveries>>
storeVars == <<memory, table, crashes>>
listVars == <<left, pages, todo, found, row, steady>>
vars == <<sellerVars, agentVars, storeVars, pc, call, listVars, ref>>

\* An account to store, the key it goes under, and whether the row exists.
NoRow == [key |-> NoRef, account |-> NoAccount, exists |-> FALSE]

Shown == {i \in Ids : owned[i] # NoAccount}
Active == {i \in Shown : owned[i].status = "active"}

\* Accounts that buyers declare are yet to be declared; others may be open.
InitOwned ==
  LET opened == {a \in Accounts : /\ offer.caps.auth /\ a.status = "active"
                                  /\ a.with = offer.caps.demands \cup Echoed} IN
  {f \in [Ids -> opened \cup {NoAccount}] :
     \A i \in Ids : f[i] # NoAccount => f[i].id = i}

Init ==
  /\ offer \in Offers
  /\ owned \in InitOwned
  /\ had = [b \in Brands |-> {a.status : a \in {owned[i] : i \in
                                {j \in Shown : owned[j].brand = b}}}]
  /\ changes = 0
  /\ listed = {}
  /\ sessions = [s \in Sellers |-> NoAgent]
  /\ discoveries = 0
  /\ memory = [s \in Sellers |-> [k \in StorageKeys |-> NoAccount]]
  /\ table = [u \in Urls |-> [k \in StorageKeys |-> NoAccount]]
  /\ crashes = 0
  /\ pc = [c \in Callers |-> "idle"]
  /\ call = [c \in Callers |-> NoCall]
  /\ left = [c \in Callers |-> {}]
  /\ pages = [c \in Callers |-> 0]
  /\ todo = [c \in Callers |-> {}]
  /\ found = [c \in Callers |-> {}]
  /\ row = [c \in Callers |-> NoRow]
  /\ ref = [c \in Callers |-> NoRef]
  /\ steady = [c \in Callers |-> {}]

-----------------------------------------------------------------------------
(* Agents and keys *)

Agent(c) == call[c].agent
Home(c) == Bare[Agent(c).url]

\* get_seller_session: the first agent a session was made for stays its agent.
SessionAgent(c) ==
  IF sessions[Home(c)] # NoAgent THEN sessions[Home(c)] ELSE Agent(c)

OpenSession(c) == sessions' = [sessions EXCEPT ![Home(c)] = SessionAgent(c)]

\* natural_key raises: a field the seller asks for is not set, or it has no
\* sandbox.
KeyRefused(agent) ==
  \/ ~(agent.caps.demands \subseteq Configurable)
  \/ Sandbox /\ agent.caps.declared /\ ~agent.caps.sandbox

NaturalKey(agent, brand) ==
  [brand |-> brand,
   with |-> agent.caps.demands \cup (IF Sandbox THEN {"sandbox"} ELSE {})]

KeyOf(c) == NaturalKey(Agent(c), call[c].brand)

\* The storage_key of an account from list_accounts: what the seller shows of
\* it decides, a timezone counts only if the buyer selects it.
ListedKey(agent, account) ==
  IF agent.mode = "operator_authorized" THEN account.id
  ELSE [brand |-> account.brand,
        with |-> IF "timezone" \in agent.caps.demands THEN account.with
                 ELSE account.with \ {"timezone"}]

\* TASK_ALLOWED_STATUSES
Allowed(kind) ==
  IF kind = "buy" THEN {"active"} ELSE {"active", "payment_required"}

-----------------------------------------------------------------------------
(* Steps of a caller. *)

Set(f, c, value) == [f EXCEPT ![c] = value]

\* The coroutine is done with accounts, or dies of an exception.
Return(c) ==
  /\ pc' = Set(pc, c, "idle")
  /\ call' = Set(call, c, NoCall)
  /\ left' = Set(left, c, {})
  /\ pages' = Set(pages, c, 0)
  /\ todo' = Set(todo, c, {})
  /\ found' = Set(found, c, {})
  /\ row' = Set(row, c, NoRow)
  /\ steady' = Set(steady, c, {})
  /\ ref' = Set(ref, c, NoRef)

\* A request with this reference is about to be sent.
Grant(c, reference) ==
  /\ pc' = Set(pc, c, "granted")
  /\ ref' = Set(ref, c, reference)
  /\ UNCHANGED <<call, listVars>>

\* Somebody searches, buys, changes a buy, or asks for accounts by the API.
Begin(c, kind, agent, brand) ==
  /\ pc[c] = "idle"
  /\ agent \in listed /\ kind \in Tasks[c]
  /\ kind = "search" => agent \in Eligible(listed)
  /\ pc' = Set(pc, c, "begun")
  /\ call' = Set(call, c, [kind |-> kind, agent |-> agent, brand |-> brand])
  /\ UNCHANGED <<sellerVars, agentVars, storeVars, listVars, ref>>

\* Await the first page of list_accounts, of all accounts or one brand's.
List(c, ids) ==
  /\ OpenSession(c)
  /\ pc' = Set(pc, c, "listing")
  /\ left' = Set(left, c, ids)
  /\ pages' = Set(pages, c, 1)
  /\ steady' = Set(steady, c, Active)
  /\ UNCHANGED <<call, todo, found, row, ref>>

\* Await sync_accounts.
Sync(c) ==
  /\ OpenSession(c)
  /\ pc' = Set(pc, c, "syncing")
  /\ UNCHANGED <<call, listVars, ref>>

MayList(c) == HasTool(Agent(c), "list_accounts")

\* What sync_accounts checks before it calls.
MaySync(c) ==
  /\ Agent(c).mode = "buyer_declared" /\ ~KeyRefused(Agent(c))
  /\ HasTool(Agent(c), "sync_accounts")
  /\ Agent(c).caps.bills

MayProvision_BySearch(c) ==
  call[c].kind = "search" /\ AutoProvision /\ MaySync(c)

\* A change of a buy does not provision.
MayProvision(c) ==
  call[c].kind \in {"buy", "search"} /\ AutoProvision /\ MaySync(c)

\* A reference is needed: _prepare_create_media_buy, _account_for_existing_buy
\* when no account was stored, and get_products if the seller requires one.
Needs(c) ==
  \/ call[c].kind \in {"buy", "change"}
  \/ call[c].kind = "search" /\ Agent(c).caps.required

Usable_Known(c, account) == account # NoAccount

\* Known, and its status allows the task.
Usable(c, account) ==
  account # NoAccount /\ account.status \in Allowed(call[c].kind)

\* Accounts a listing of the call's brand may show.
OfBrand(c) ==
  {i \in Ids : owned[i] # NoAccount => owned[i].brand = call[c].brand}

Fails(c) == Return(c) /\ UNCHANGED sessions

Answers(c, reference) == Grant(c, reference) /\ UNCHANGED sessions

\* resolve_account_ref for a natural key, up to an answer or the first call.
\* A seller without sync_accounts takes any key.
ResolveKey(c) ==
  /\ pc[c] = "begun" /\ Needs(c) /\ Agent(c).mode = "buyer_declared"
  /\ LET known == memory[Home(c)][KeyOf(c)] IN
     IF KeyRefused(Agent(c)) THEN Fails(c)
     ELSE IF Usable(c, known) THEN Answers(c, KeyOf(c))
     ELSE IF known # NoAccount
     THEN IF MayList(c) THEN List(c, OfBrand(c)) ELSE Fails(c)
     ELSE IF ~HasTool(Agent(c), "sync_accounts") THEN Answers(c, KeyOf(c))
     ELSE IF MayProvision(c) THEN Sync(c) ELSE Fails(c)
  /\ UNCHANGED <<sellerVars, listed, discoveries, storeVars>>

ResolveId_AssumesPin(c) ==
  /\ pc[c] = "begun" /\ Needs(c) /\ Agent(c).mode = "operator_authorized"
  /\ IF ~OperatorToken THEN Fails(c) ELSE Answers(c, Pinned)
  /\ UNCHANGED <<sellerVars, listed, discoveries, storeVars>>

\* _resolve_account_id, up to an answer or the first call.
ResolveId(c) ==
  /\ pc[c] = "begun" /\ Needs(c) /\ Agent(c).mode = "operator_authorized"
  /\ IF ~OperatorToken THEN Fails(c)
     ELSE IF Pinned # NoId THEN Answers(c, Pinned)
     ELSE IF MayList(c) THEN List(c, Ids) ELSE Fails(c)
  /\ UNCHANGED <<sellerVars, listed, discoveries, storeVars>>

\* discovery_account_ref, when no reference is required: it may be left out.
ResolveForSearch(c) ==
  /\ pc[c] = "begun" /\ call[c].kind = "search" /\ ~Needs(c)
  /\ LET operates == Agent(c).mode = "operator_authorized"
         knows == ~KeyRefused(Agent(c)) /\ Usable(c, memory[Home(c)][KeyOf(c)])
     IN Grant(c, IF operates /\ Pinned # NoId /\ OperatorToken THEN Pinned
                 ELSE IF ~operates /\ knows THEN KeyOf(c)
                 ELSE NoRef)
  /\ UNCHANGED <<sellerVars, agentVars, storeVars>>

\* list_accounts_op and sync_accounts_op
AskAccounts(c) ==
  /\ pc[c] = "begun"
  /\ \/ call[c].kind = "list" /\ MayList(c) /\ List(c, Ids)
     \/ call[c].kind = "list" /\ ~MayList(c) /\ Fails(c)
     \/ call[c].kind = "sync" /\ MaySync(c) /\ Sync(c)
     \/ call[c].kind = "sync" /\ ~MaySync(c) /\ Fails(c)
  /\ UNCHANGED <<sellerVars, listed, discoveries, storeVars>>

\* _call_tool raises, or the answer holds errors and no accounts.
CallFails(c) ==
  /\ pc[c] \in {"listing", "syncing"}
  /\ Return(c)
  /\ UNCHANGED <<sellerVars, agentVars, storeVars>>

-----------------------------------------------------------------------------
(* Storing what the seller said *)

\* _remember, of one account of the answer.
Remember(c, item) ==
  /\ pc[c] = "storing" /\ item \in todo[c]
  /\ memory' = [memory EXCEPT ![Home(c)][item.key] = item.account]
  /\ todo' = Set(todo, c, todo[c] \ {item})
  /\ row' = Set(row, c, item)
  /\ pc' = Set(pc, c, "persisting")
  /\ UNCHANGED <<sellerVars, agentVars, table, crashes, call, left, pages, found,
                 steady, ref>>

\* _persist has read whether there is such a row ...
ReadRow(c) ==
  /\ pc[c] = "persisting"
  /\ row' = [row EXCEPT ![c].exists = table[Agent(c).url][row[c].key] # NoAccount]
  /\ pc' = Set(pc, c, "committing")
  /\ UNCHANGED <<sellerVars, agentVars, storeVars, call, left, pages, todo, found,
                 steady, ref>>

\* ... and updates it, or inserts one.
Commit_AnyFound(c) ==
  /\ pc[c] = "committing"
  /\ row[c].exists \/ table[Agent(c).url][row[c].key] = NoAccount
  /\ LET item == CHOOSE x \in found[c] : TRUE
     IN table' = [table EXCEPT ![Agent(c).url][row[c].key] = item.account]
  /\ row' = Set(row, c, NoRow)
  /\ pc' = Set(pc, c, "storing")
  /\ UNCHANGED <<sellerVars, agentVars, memory, crashes, call, left, pages, todo,
                 found, steady, ref>>

Commit(c) ==
  /\ pc[c] = "committing"
  /\ row[c].exists \/ table[Agent(c).url][row[c].key] = NoAccount
  /\ table' = [table EXCEPT ![Agent(c).url][row[c].key] = row[c].account]
  /\ row' = Set(row, c, NoRow)
  /\ pc' = Set(pc, c, "storing")
  /\ UNCHANGED <<sellerVars, agentVars, memory, crashes, call, left, pages, todo,
                 found, steady, ref>>

\* Another caller has inserted the row since it was read: IntegrityError, which
\* nothing catches.
Collides(c) ==
  /\ pc[c] = "committing"
  /\ ~row[c].exists /\ table[Agent(c).url][row[c].key] # NoAccount
  /\ Return(c)
  /\ UNCHANGED <<sellerVars, agentVars, storeVars>>

\* The database refuses.
PersistFails(c) ==
  /\ pc[c] \in {"persisting", "committing"}
  /\ Return(c)
  /\ UNCHANGED <<sellerVars, agentVars, storeVars>>

-----------------------------------------------------------------------------
(* When all is stored *)

Stored_Early(c) == pc[c] = "storing"

Stored(c) == pc[c] = "storing" /\ todo[c] = {}

More(c) == left[c] \cap Shown # {}

\* The cursor says that there is more, and it may be asked for.
NextPage(c) ==
  /\ Stored(c) /\ 0 < pages[c] /\ pages[c] < MaxPages /\ More(c)
  /\ pages' = [pages EXCEPT ![c] = @ + 1]
  /\ pc' = Set(pc, c, "listing")
  /\ UNCHANGED <<sellerVars, agentVars, storeVars, call, left, todo, found, row,
                 steady, ref>>

Ended_FirstPage(c) == Stored(c)

Ended(c) == Stored(c) /\ (pages[c] = 0 \/ pages[c] = MaxPages \/ ~More(c))

\* The accounts that may be used, if the caller looks for an account id.
Candidates(c) ==
  {a \in {x.account : x \in found[c]} :
     a.status = "active" /\ (Sandbox => "sandbox" \in a.with)}

\* The only account there is, whichever brand it is of, or the only one of the
\* brand.
Chosen(c) ==
  {a \in Candidates(c) :
     \/ Cardinality(found[c]) = 1
     \/ {b \in Candidates(c) : b.brand = call[c].brand} = {a}}

\* For a natural key: the account as list_accounts or sync_accounts stored it
\* under this key.
Refreshed(c) == {x.account : x \in {y \in found[c] : y.key = KeyOf(c)}}

Conclude(c) ==
  /\ Ended(c)
  /\ IF call[c].kind \in {"list", "sync"} THEN Return(c)
     ELSE IF Agent(c).mode = "operator_authorized"
     THEN IF Chosen(c) = {} THEN Return(c) ELSE \E a \in Chosen(c) : Grant(c, a.id)
     ELSE IF Refreshed(c) = {} THEN Return(c)
     ELSE \E a \in Refreshed(c) :
            IF Usable(c, a) THEN Grant(c, KeyOf(c)) ELSE Return(c)
  /\ UNCHANGED <<sellerVars, agentVars, storeVars>>

\* The request goes out through the seller's session.
Send(c) ==
  /\ pc[c] = "granted"
  /\ Return(c)
  /\ OpenSession(c)
  /\ UNCHANGED <<sellerVars, listed, discoveries, storeVars>>

-----------------------------------------------------------------------------
(* The seller *)

\* An account of a brand is opened, or its status changes.
Owns(account) ==
  /\ owned' = [owned EXCEPT ![account.id] = account]
  /\ had' = [had EXCEPT ![account.brand] = @ \cup {account.status}]
  /\ steady' = [c \in Callers |->
       IF account.status = "active" THEN steady[c] ELSE steady[c] \ {account.id}]

\* One of the ids it has not given away, whichever.
Unused == IF Shown = Ids THEN {} ELSE {CHOOSE i \in Ids : i \notin Shown}

\* It does so for reasons of its own, or for a call whose answer gets lost.  If
\* buyers declare the accounts there is one per key.
SellerChanges(account) ==
  /\ changes < MaxChanges
  /\ account.with = offer.caps.demands \cup Echoed
  /\ \/ /\ account.id \in Unused
        /\ offer.caps.auth \/ \A i \in Shown : owned[i].brand # account.brand
     \/ /\ owned[account.id] # account
        /\ owned[account.id] \in {[account EXCEPT !.status = s] : s \in Statuses}
  /\ Owns(account)
  /\ changes' = changes + 1
  /\ UNCHANGED <<offer, agentVars, storeVars, pc, call, left, pages, todo, found,
                 row, ref>>

\* It answers operators only, if it requires their credential.
Admits(c) == offer.caps.auth => Credential(SessionAgent(c)) = "operator"

\* It shows a page of the accounts that are left.
SellerLists(c) ==
  /\ pc[c] = "listing" /\ Admits(c)
  /\ \E page \in SUBSET (left[c] \cap Shown) :
       /\ page # {} \/ ~More(c)
       /\ LET items == {[key |-> ListedKey(Agent(c), owned[i]), account |-> owned[i],
                         exists |-> FALSE] : i \in page}
          IN todo' = Set(todo, c, items) /\ found' = Set(found, c, found[c] \cup items)
       /\ left' = Set(left, c, left[c] \ page)
  /\ pc' = Set(pc, c, "storing")
  /\ UNCHANGED <<sellerVars, agentVars, storeVars, call, pages, row, ref, steady>>

\* It has an account of this brand, or opens one.
Provided(c) ==
  LET old == {owned[i] : i \in {j \in Shown : owned[j].brand = call[c].brand}} IN
  IF old # {} THEN old
  ELSE [id : Unused, brand : {call[c].brand}, status : Statuses,
        with : {KeyOf(c).with \cup Echoed}]

SellerSyncs(c) ==
  /\ pc[c] = "syncing" /\ Admits(c)
  /\ \E account \in Provided(c) :
       LET item == [key |-> KeyOf(c), account |-> account, exists |-> FALSE] IN
       /\ Owns(account)
       /\ todo' = Set(todo, c, {item})
       /\ found' = Set(found, c, {item})
  /\ pc' = Set(pc, c, "storing")
  /\ UNCHANGED <<offer, changes, agentVars, storeVars, call, left, pages, row, ref>>

-----------------------------------------------------------------------------
(* The process *)

Answered == {<<TRUE, l>> : l \in Listings} \cup {<<FALSE, <<>>>>}

\* discover_sellers: every agent found is probed.
Discover ==
  /\ listed # {} => discoveries < MaxDiscoveries
  /\ discoveries' = IF listed # {} THEN discoveries + 1 ELSE discoveries
  /\ \E answers \in [1 .. Registries -> Answered], listing \in Listings \cup {<<>>} :
       /\ Fetched(answers, listing)
       /\ \E outcome \in [Unprobed(listing) -> ProbeOutcomes] :
            listed' = {Probed(a, outcome[a], offer) : a \in Unprobed(listing)}
  /\ UNCHANGED <<sellerVars, sessions, storeVars, pc, call, listVars, ref>>

\* The process dies and starts again.  init_db loads the rows; of those under
\* two spellings of one address, the ones of last[s] come last.
Restart ==
  /\ crashes < MaxCrashes
  /\ crashes' = crashes + 1
  /\ listed' = {}
  /\ sessions' = [s \in Sellers |-> NoAgent]
  /\ \E last \in [Sellers -> Urls] :
       /\ \A s \in Sellers : Bare[last[s]] = s
       /\ memory' = [s \in Sellers |-> [k \in StorageKeys |->
            LET rows == {u \in Urls : Bare[u] = s /\ table[u][k] # NoAccount} IN
            IF rows = {} THEN NoAccount
            ELSE IF last[s] \in rows THEN table[last[s]][k]
            ELSE table[CHOOSE u \in rows : TRUE][k]]]
  /\ pc' = [c \in Callers |-> "idle"]
  /\ call' = [c \in Callers |-> NoCall]
  /\ left' = [c \in Callers |-> {}]
  /\ pages' = [c \in Callers |-> 0]
  /\ todo' = [c \in Callers |-> {}]
  /\ found' = [c \in Callers |-> {}]
  /\ row' = [c \in Callers |-> NoRow]
  /\ ref' = [c \in Callers |-> NoRef]
  /\ steady' = [c \in Callers |-> {}]
  /\ UNCHANGED <<sellerVars, discoveries, table>>

Resolve(c) ==
  ResolveKey(c) \/ ResolveId(c) \/ ResolveForSearch(c) \/ AskAccounts(c)

Store(c) ==
  \/ \E item \in todo[c] : Remember(c, item)
  \/ ReadRow(c) \/ Commit(c) \/ Collides(c)

Step(c) == Resolve(c) \/ Store(c) \/ NextPage(c) \/ Conclude(c) \/ Send(c)

SellerAnswers(c) == SellerLists(c) \/ SellerSyncs(c)

Next ==
  \/ \E c \in Callers, kind \in Kinds, agent \in listed, brand \in Brands :
       Begin(c, kind, agent, brand)
  \/ \E c \in Callers : Step(c)
  \/ \E c \in Callers : SellerAnswers(c)
  \/ \E c \in Callers : CallFails(c) \/ PersistFails(c)
  \/ \E account \in Accounts : SellerChanges(account)
  \/ Discover
  \/ Restart

Spec == Init /\ [][Next]_vars

\* The event loop runs whoever can run, a call is answered or fails,
\* sellers are discovered when the process starts, and each brand is bought for
\* again and again.
Fairness ==
  /\ WF_vars(listed = {} /\ Discover)
  /\ \A c \in Callers : WF_vars(Step(c)) /\ WF_vars(SellerAnswers(c) \/ CallFails(c))
  /\ \A brand \in Brands :
       SF_vars(\E c \in Callers, agent \in listed : Begin(c, "buy", agent, brand))

FairSpec == Spec /\ Fairness

-----------------------------------------------------------------------------
(* Properties *)

Items == [key : StorageKeys, account : Accounts, exists : BOOLEAN]

TypeOK ==
  /\ offer \in Offers
  /\ owned \in [Ids -> Accounts \cup {NoAccount}]
  /\ had \in [Brands -> SUBSET Statuses]
  /\ changes \in 0 .. MaxChanges
  /\ listed \subseteq Agents
  /\ sessions \in [Sellers -> Agents \cup {NoAgent}]
  /\ discoveries \in 0 .. MaxDiscoveries
  /\ memory \in [Sellers -> [StorageKeys -> Accounts \cup {NoAccount}]]
  /\ table \in [Urls -> [StorageKeys -> Accounts \cup {NoAccount}]]
  /\ crashes \in 0 .. MaxCrashes
  /\ pc \in [Callers -> {"idle", "begun", "listing", "syncing", "storing",
                         "persisting", "committing", "granted"}]
  /\ call \in [Callers -> Calls \cup {NoCall}]
  /\ left \in [Callers -> SUBSET Ids]
  /\ pages \in [Callers -> 0 .. MaxPages]
  /\ todo \in [Callers -> SUBSET Items]
  /\ found \in [Callers -> SUBSET Items]
  /\ row \in [Callers -> Items \cup {NoRow}]
  /\ ref \in [Callers -> StorageKeys \cup {NoRef}]
  /\ steady \in [Callers -> SUBSET Ids]

\* Discovery lists one agent per seller, a configured one if there is one: no
\* two listed agents share a session, or an account's place in memory.
ListedOnce ==
  /\ \A a, b \in listed : Bare[a.url] = Bare[b.url] => a = b
  /\ \A a \in listed, u \in Configured : Site[a.url] = Site[u] => a.source = "config"

\* What is remembered or persisted under a key is what the seller has said of
\* an account with that key, and not another's, whichever answers were stored
\* at the same time and whatever was loaded after a crash.
SaidOf(key, account) ==
  IF key \in Keys
  THEN account.brand = key.brand /\ account.status \in had[key.brand]
  ELSE account.id = key

StoredAsSaid ==
  /\ \A s \in Sellers, k \in StorageKeys :
       memory[s][k] # NoAccount => SaidOf(k, memory[s][k])
  /\ \A u \in Urls, k \in StorageKeys :
       table[u][k] # NoAccount => SaidOf(k, table[u][k])

\* A reference rests on the seller's word: unless the seller takes any key,
\* an account of the brand has had a status that allows the task.
GrantRestsOnSeller ==
  \A c \in Callers : pc[c] = "granted" =>
    /\ ref[c] \in Keys /\ HasTool(Agent(c), "sync_accounts") =>
         /\ ref[c].brand = call[c].brand
         /\ had[ref[c].brand] \cap Allowed(call[c].kind) # {}
    /\ ref[c] \in Ids /\ Pinned = NoId =>
         /\ owned[ref[c]] # NoAccount
         /\ "active" \in had[owned[ref[c]].brand]

\* All that a call to the seller told is on disk before the caller uses it:
\* a crash does not undo an account that a request has been sent with.
PersistedBeforeUse ==
  \A c \in Callers : pc[c] = "granted" =>
    \A x \in found[c] : table[Agent(c).url][x.key] # NoAccount

\* An account id that is not pinned is the only one it could be: no other
\* account of the brand was active all the while, unless the listing was cut
\* short after MaxPages pages.
UniqueChoice ==
  \A c \in Callers :
    (/\ pc[c] = "granted" /\ ref[c] \in Ids /\ Pinned = NoId
     /\ pages[c] < MaxPages \/ ~More(c)) =>
      {i \in steady[c] : /\ owned[i].brand = call[c].brand
                         /\ Sandbox => "sandbox" \in owned[i].with} \subseteq {ref[c]}

\* The seller takes our credential; all agents listed provision, and see the
\* brand's accounts, all of them active, under the key they declare.
ReadyFor(brand) ==
  /\ ~offer.caps.auth /\ listed # {} /\ AutoProvision
  /\ \A agent \in listed :
       /\ agent.mode = "buyer_declared" /\ ~KeyRefused(agent) /\ agent.caps.bills
       /\ HasTool(agent, "list_accounts") /\ HasTool(agent, "sync_accounts")
       /\ \A i \in Shown : owned[i].brand = brand =>
            /\ owned[i].status = "active"
            /\ owned[i].with \ NaturalKey(agent, brand).with \subseteq {"timezone"}
  /\ \E i \in Shown : owned[i].brand = brand

\* A buy does not wait for ever for an account the seller has activated,
\* whatever was remembered of it, if calls and commits work again.
ActivatedGetsUsed ==
  \A brand \in Brands :
    /\ <>[]ReadyFor(brand)
    /\ <>[][\A c \in Callers : ~CallFails(c) /\ ~PersistFails(c)]_vars
    => []<>(\E c \in Callers : pc[c] = "granted" /\ call[c].kind = "buy"
                              /\ call[c].brand = brand)

\* manager.py:10 "calls use the operator's credential ... and we send
\* {"account_id": ...}": a request with an account id goes out with it.
AccountMatchesCredential ==
  [][\A c \in Callers : Send(c) /\ ref[c] \in Ids
       => Credential(sessions'[Home(c)]) = "operator"]_vars

=============================================================================
