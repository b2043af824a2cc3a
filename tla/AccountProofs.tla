---------------------------- MODULE AccountProofs ----------------------------
(***************************************************************************)
(* Type correctness of the account manager, and that what it stores and    *)
(* grants rests on what the seller said, for any seller, any callers and   *)
(* any interleaving of their calls, with crashes.                          *)
(***************************************************************************)
EXTENDS AccountManager, FiniteSetTheorems, TLAPS

-----------------------------------------------------------------------------
(* The inductive invariant *)

\* Whoever is not idle has been called, and persists an account.
Shaped ==
  \A c \in Callers :
    /\ pc[c] # "idle" => call[c] \in Calls
    /\ pc[c] \in {"persisting", "committing"} => row[c] \in Items
    /\ pc[c] \in {"idle", "begun"} => found[c] = {}
    /\ pc[c] \notin {"storing", "persisting", "committing"} => todo[c] = {}

\* The seller's own accounts are what it has said.
OwnedSaid ==
  \A i \in Ids : owned[i] # NoAccount =>
    owned[i].id = i /\ owned[i].status \in had[owned[i].brand]

\* An account with its key is what the seller has said, and the account is
\* still one of that brand.
ItemSaid(x) ==
  /\ SaidOf(x.key, x.account)
  /\ x.account.status \in had[x.account.brand]
  /\ owned[x.account.id] # NoAccount
  /\ owned[x.account.id].brand = x.account.brand

ItemsSaid ==
  \A c \in Callers :
    /\ \A x \in todo[c] : ItemSaid(x)
    /\ \A x \in found[c] : ItemSaid(x)
    /\ row[c] # NoRow => ItemSaid(row[c])

\* What was found is on disk, or is about to be.
OnDisk(c, x) == table[Agent(c).url][x.key] # NoAccount

FoundKept ==
  \A c \in Callers : \A x \in found[c] :
    \/ OnDisk(c, x)
    \/ x \in todo[c]
    \/ pc[c] \in {"persisting", "committing"} /\ row[c].key = x.key

\* What GrantRestsOnSeller says of one reference.
Rests(c, reference) ==
  /\ reference \in Keys /\ HasTool(Agent(c), "sync_accounts") =>
       /\ reference.brand = call[c].brand
       /\ had[reference.brand] \cap Allowed(call[c].kind) # {}
  /\ reference \in Ids /\ Pinned = NoId =>
       /\ owned[reference] # NoAccount
       /\ "active" \in had[owned[reference].brand]

GrantsRest == \A c \in Callers : pc[c] = "granted" => Rests(c, ref[c])

IInv ==
  TypeOK /\ Shaped /\ OwnedSaid /\ ItemsSaid /\ StoredAsSaid /\ FoundKept /\ GrantsRest

-----------------------------------------------------------------------------
(* Steps of the callers that tell nothing new *)

\* A caller that is done leaves everything else as it is.
LEMMA ReturnKeeps ==
  ASSUME IInv, NEW c \in Callers, Return(c),
         sessions' \in [Sellers -> Agents \cup {NoAgent}],
         UNCHANGED <<sellerVars, listed, discoveries, storeVars>>
  PROVE  IInv'
  <1> USE DEF IInv, Return, Set, sellerVars, storeVars
  <1>1. TypeOK'
    BY AccountAssumption DEF TypeOK
  <1>2. Shaped'
    BY DEF TypeOK, Shaped
  <1>3. OwnedSaid'
    BY DEF OwnedSaid
  <1>4. ItemsSaid'
    BY DEF TypeOK, ItemsSaid, ItemSaid, SaidOf
  <1>5. StoredAsSaid'
    BY DEF StoredAsSaid, SaidOf
  <1>6. FoundKept'
    BY DEF TypeOK, FoundKept, OnDisk, Agent
  <1>7. GrantsRest'
    BY DEF TypeOK, GrantsRest, Rests, Agent
  <1> QED
    BY <1>1, <1>2, <1>3, <1>4, <1>5, <1>6, <1>7

\* A reference is granted to a caller who has stored all that was found.
LEMMA GrantKeeps ==
  ASSUME IInv, NEW c \in Callers, NEW reference \in StorageKeys \cup {NoRef},
         pc[c] # "idle", todo[c] = {}, \A x \in found[c] : OnDisk(c, x),
         Rests(c, reference), Grant(c, reference),
         UNCHANGED <<sellerVars, agentVars, storeVars>>
  PROVE  IInv'
  <1> USE DEF IInv, Grant, Set, sellerVars, agentVars, storeVars, listVars
  <1>1. TypeOK'
    BY AccountAssumption DEF TypeOK
  <1>2. Shaped'
    BY DEF TypeOK, Shaped
  <1>3. OwnedSaid'
    BY DEF OwnedSaid
  <1>4. ItemsSaid'
    BY DEF ItemsSaid, ItemSaid, SaidOf
  <1>5. StoredAsSaid'
    BY DEF StoredAsSaid, SaidOf
  <1>6. FoundKept'
    BY DEF TypeOK, FoundKept, OnDisk, Agent
  <1>7. GrantsRest'
    BY DEF TypeOK, GrantsRest, Rests, Agent
  <1> QED
    BY <1>1, <1>2, <1>3, <1>4, <1>5, <1>6, <1>7

\* The session that a call opens has an agent.
LEMMA OpenSessionTypes ==
  ASSUME TypeOK, NEW c \in Callers, call[c] \in Calls, OpenSession(c)
  PROVE  sessions' \in [Sellers -> Agents \cup {NoAgent}]
  <1>1. Agent(c) \in Agents
    BY DEF Calls, Agent
  <1> QED
    BY <1>1 DEF TypeOK, OpenSession, SessionAgent

\* A caller that has begun awaits list_accounts.
LEMMA ListKeeps ==
  ASSUME IInv, NEW c \in Callers, pc[c] = "begun", NEW ids \in SUBSET Ids, List(c, ids),
         UNCHANGED <<sellerVars, listed, discoveries, storeVars>>
  PROVE  IInv'
  <1> USE DEF IInv, List, Set, sellerVars, storeVars
  <1>1. sessions' \in [Sellers -> Agents \cup {NoAgent}]
    BY OpenSessionTypes DEF Shaped
  <1>2. TypeOK'
    BY <1>1, AccountAssumption DEF TypeOK, Active, Shown
  <1>3. Shaped'
    BY DEF TypeOK, Shaped
  <1>4. OwnedSaid'
    BY DEF OwnedSaid
  <1>5. ItemsSaid'
    BY DEF ItemsSaid, ItemSaid, SaidOf
  <1>6. StoredAsSaid'
    BY DEF StoredAsSaid, SaidOf
  <1>7. FoundKept'
    BY DEF TypeOK, Shaped, FoundKept, OnDisk, Agent
  <1>8. GrantsRest'
    BY DEF TypeOK, GrantsRest, Rests, Agent
  <1> QED
    BY <1>2, <1>3, <1>4, <1>5, <1>6, <1>7, <1>8

\* The same for sync_accounts.
LEMMA SyncKeeps ==
  ASSUME IInv, NEW c \in Callers, pc[c] = "begun", Sync(c),
         UNCHANGED <<sellerVars, listed, discoveries, storeVars>>
  PROVE  IInv'
  <1> USE DEF IInv, Sync, Set, sellerVars, storeVars, listVars
  <1>1. sessions' \in [Sellers -> Agents \cup {NoAgent}]
    BY OpenSessionTypes DEF Shaped
  <1>2. TypeOK'
    BY <1>1, AccountAssumption DEF TypeOK
  <1>3. Shaped'
    BY DEF TypeOK, Shaped
  <1>4. OwnedSaid'
    BY DEF OwnedSaid
  <1>5. ItemsSaid'
    BY DEF ItemsSaid, ItemSaid, SaidOf
  <1>6. StoredAsSaid'
    BY DEF StoredAsSaid, SaidOf
  <1>7. FoundKept'
    BY DEF TypeOK, Shaped, FoundKept, OnDisk, Agent
  <1>8. GrantsRest'
    BY DEF TypeOK, GrantsRest, Rests, Agent
  <1> QED
    BY <1>2, <1>3, <1>4, <1>5, <1>6, <1>7, <1>8

LEMMA FailsKeeps ==
  ASSUME IInv, NEW c \in Callers, Fails(c),
         UNCHANGED <<sellerVars, listed, discoveries, storeVars>>
  PROVE  IInv'
  BY ReturnKeeps DEF Fails, IInv, TypeOK

LEMMA BeginKeeps ==
  ASSUME IInv, NEW c \in Callers, NEW kind \in Kinds, NEW agent \in listed,
         NEW brand \in Brands, Begin(c, kind, agent, brand)
  PROVE  IInv'
  <1> USE DEF IInv, Begin, Set, sellerVars, agentVars, storeVars, listVars
  <1>1. [kind |-> kind, agent |-> agent, brand |-> brand] \in Calls
    BY DEF TypeOK, Calls
  <1>2. TypeOK'
    BY <1>1, AccountAssumption DEF TypeOK
  <1>3. Shaped'
    BY <1>1 DEF TypeOK, Shaped
  <1>4. OwnedSaid'
    BY DEF OwnedSaid
  <1>5. ItemsSaid'
    BY DEF ItemsSaid, ItemSaid, SaidOf
  <1>6. StoredAsSaid'
    BY DEF StoredAsSaid, SaidOf
  <1>7. FoundKept'
    BY DEF TypeOK, Shaped, FoundKept, OnDisk, Agent
  <1>8. GrantsRest'
    BY DEF TypeOK, GrantsRest, Rests, Agent
  <1> QED
    BY <1>2, <1>3, <1>4, <1>5, <1>6, <1>7, <1>8

-----------------------------------------------------------------------------
(* Resolving a reference *)

LEMMA KeyOfIsKey ==
  ASSUME NEW c \in Callers, call[c] \in Calls
  PROVE  /\ KeyOf(c) \in Keys /\ KeyOf(c) \notin Ids /\ KeyOf(c) \in StorageKeys
         /\ KeyOf(c).brand = call[c].brand
  <1>1. Agent(c).caps.demands \subseteq Extras
    BY DEF Calls, Agent, Agents, Capabilities, Extras
  <1>2. "sandbox" \in Extras
    BY DEF Extras
  <1>3. call[c].brand \in Brands
    BY DEF Calls
  <1>4. KeyOf(c) \in Keys /\ KeyOf(c).brand = call[c].brand
    BY <1>1, <1>2, <1>3 DEF KeyOf, NaturalKey, Keys
  <1> QED
    BY <1>4, AccountAssumption DEF StorageKeys

LEMMA HomeIsSeller ==
  ASSUME NEW c \in Callers, call[c] \in Calls
  PROVE  Home(c) \in Sellers /\ Agent(c) \in Agents /\ Agent(c).url \in Urls
  BY DEF Home, Agent, Calls, Agents, Sellers

\* What is remembered under a natural key and allows the task supports it.
LEMMA KnownRests ==
  ASSUME IInv, NEW c \in Callers, pc[c] # "idle", NEW account,
         account \in Accounts, SaidOf(KeyOf(c), account), Usable(c, account)
  PROVE  Rests(c, KeyOf(c))
  BY KeyOfIsKey DEF IInv, Shaped, Rests, SaidOf, Usable

LEMMA MemoryRests ==
  ASSUME IInv, NEW c \in Callers, pc[c] # "idle",
         Usable(c, memory[Home(c)][KeyOf(c)])
  PROVE  Rests(c, KeyOf(c))
  <1>1. call[c] \in Calls
    BY DEF IInv, Shaped
  <1>2. Home(c) \in Sellers /\ KeyOf(c) \in StorageKeys
    BY <1>1, KeyOfIsKey, HomeIsSeller
  <1>3. memory[Home(c)][KeyOf(c)] \in Accounts
    BY <1>2 DEF IInv, TypeOK, Usable
  <1>4. SaidOf(KeyOf(c), memory[Home(c)][KeyOf(c)])
    BY <1>2 DEF IInv, StoredAsSaid, Usable
  <1> QED
    BY <1>3, <1>4, KnownRests

LEMMA ResolveKeyKeeps ==
  ASSUME IInv, NEW c \in Callers, ResolveKey(c)
  PROVE  IInv'
  <1> DEFINE known == memory[Home(c)][KeyOf(c)]
  <1>1. /\ pc[c] = "begun" /\ call[c] \in Calls
        /\ todo[c] = {} /\ found[c] = {}
        /\ UNCHANGED <<sellerVars, listed, discoveries, storeVars>>
    BY DEF IInv, Shaped, ResolveKey
  <1>2. CASE Fails(c)
    BY <1>1, <1>2, FailsKeeps
  <1>3. CASE Answers(c, KeyOf(c)) /\ Usable(c, known)
    <2>1. Rests(c, KeyOf(c))
      BY <1>1, <1>3, MemoryRests
    <2> QED
      BY <1>1, <1>3, <2>1, KeyOfIsKey, GrantKeeps DEF Answers, agentVars
  <1>4. CASE Answers(c, KeyOf(c)) /\ ~HasTool(Agent(c), "sync_accounts")
    <2>1. Rests(c, KeyOf(c))
      BY <1>1, <1>4, KeyOfIsKey DEF Rests
    <2> QED
      BY <1>1, <1>4, <2>1, KeyOfIsKey, GrantKeeps DEF Answers, agentVars
  <1>5. CASE List(c, OfBrand(c))
    BY <1>1, <1>5, ListKeeps DEF OfBrand
  <1>6. CASE Sync(c)
    BY <1>1, <1>6, SyncKeeps
  <1> QED
    BY <1>2, <1>3, <1>4, <1>5, <1>6 DEF ResolveKey

LEMMA ResolveIdKeeps ==
  ASSUME IInv, NEW c \in Callers, ResolveId(c)
  PROVE  IInv'
  <1>1. /\ pc[c] = "begun" /\ call[c] \in Calls
        /\ todo[c] = {} /\ found[c] = {}
        /\ UNCHANGED <<sellerVars, listed, discoveries, storeVars>>
    BY DEF IInv, Shaped, ResolveId
  <1>2. CASE Fails(c)
    BY <1>1, <1>2, FailsKeeps
  <1>3. CASE Answers(c, Pinned) /\ Pinned # NoId
    <2>1. Pinned \in Ids /\ Pinned \notin Keys
      BY <1>3, AccountAssumption
    <2>2. Rests(c, Pinned)
      BY <1>3, <2>1 DEF Rests
    <2> QED
      BY <1>1, <1>3, <2>1, <2>2, GrantKeeps DEF Answers, agentVars, StorageKeys
  <1>4. CASE List(c, Ids)
    BY <1>1, <1>4, ListKeeps
  <1> QED
    BY <1>2, <1>3, <1>4 DEF ResolveId

LEMMA ResolveForSearchKeeps ==
  ASSUME IInv, NEW c \in Callers, ResolveForSearch(c)
  PROVE  IInv'
  <1>1. /\ pc[c] = "begun" /\ call[c] \in Calls
        /\ todo[c] = {} /\ found[c] = {}
        /\ UNCHANGED <<sellerVars, agentVars, storeVars>>
    BY DEF IInv, Shaped, ResolveForSearch
  <1>2. CASE Grant(c, Pinned) /\ Pinned # NoId
    <2>1. Pinned \in Ids /\ Pinned \notin Keys
      BY <1>2, AccountAssumption
    <2>2. Rests(c, Pinned)
      BY <1>2, <2>1 DEF Rests
    <2> QED
      BY <1>1, <1>2, <2>1, <2>2, GrantKeeps DEF StorageKeys
  <1>3. CASE Grant(c, KeyOf(c)) /\ Usable(c, memory[Home(c)][KeyOf(c)])
    <2>1. Rests(c, KeyOf(c))
      BY <1>1, <1>3, MemoryRests
    <2> QED
      BY <1>1, <1>3, <2>1, KeyOfIsKey, GrantKeeps
  <1>4. CASE Grant(c, NoRef)
    <2>1. Rests(c, NoRef)
      BY AccountAssumption DEF Rests, StorageKeys
    <2> QED
      BY <1>1, <1>4, <2>1, GrantKeeps
  <1> QED
    BY <1>2, <1>3, <1>4 DEF ResolveForSearch

LEMMA AskAccountsKeeps ==
  ASSUME IInv, NEW c \in Callers, AskAccounts(c)
  PROVE  IInv'
  <1>1. pc[c] = "begun" /\ UNCHANGED <<sellerVars, listed, discoveries, storeVars>>
    BY DEF AskAccounts
  <1>2. CASE List(c, Ids)
    BY <1>1, <1>2, ListKeeps
  <1>3. CASE Sync(c)
    BY <1>1, <1>3, SyncKeeps
  <1>4. CASE Fails(c)
    BY <1>1, <1>4, FailsKeeps
  <1> QED
    BY <1>2, <1>3, <1>4 DEF AskAccounts

\* An exception ends the call.
LEMMA ExceptionKeeps ==
  ASSUME IInv, NEW c \in Callers, CallFails(c) \/ PersistFails(c) \/ Collides(c)
  PROVE  IInv'
  <1>1. Return(c) /\ UNCHANGED <<sellerVars, agentVars, storeVars>>
    BY DEF CallFails, PersistFails, Collides
  <1>2. sessions' \in [Sellers -> Agents \cup {NoAgent}]
    BY <1>1 DEF IInv, TypeOK, agentVars
  <1> QED
    BY <1>1, <1>2, ReturnKeeps DEF agentVars

LEMMA SendKeeps ==
  ASSUME IInv, NEW c \in Callers, Send(c)
  PROVE  IInv'
  <1>1. sessions' \in [Sellers -> Agents \cup {NoAgent}]
    BY OpenSessionTypes DEF IInv, Shaped, Send
  <1> QED
    BY <1>1, ReturnKeeps DEF Send

-----------------------------------------------------------------------------
(* Storing *)

\* _remember, with the row it goes on to persist.
LEMMA RememberKeeps ==
  ASSUME IInv, NEW c \in Callers, NEW item \in todo[c], Remember(c, item)
  PROVE  IInv'
  <1> USE DEF IInv, Remember, Set, sellerVars, agentVars
  <1>1. call[c] \in Calls /\ item \in Items /\ ItemSaid(item)
    BY DEF TypeOK, Shaped, ItemsSaid
  <1>2. item.key \in StorageKeys /\ item.account \in Accounts
    BY <1>1 DEF Items
  <1>3. Home(c) \in Sellers
    BY <1>1, HomeIsSeller
  <1>4. memory' \in [Sellers -> [StorageKeys -> Accounts \cup {NoAccount}]]
    BY <1>2, <1>3 DEF TypeOK
  <1>5. TypeOK'
    BY <1>1, <1>4, AccountAssumption DEF TypeOK
  <1>6. Shaped'
    BY <1>1 DEF TypeOK, Shaped
  <1>7. OwnedSaid'
    BY DEF OwnedSaid
  <1>8. ItemsSaid'
    BY <1>1 DEF TypeOK, ItemsSaid, ItemSaid, SaidOf
  <1>9. \A s \in Sellers, k \in StorageKeys :
          memory'[s][k] # NoAccount => SaidOf(k, memory'[s][k])
    <2> SUFFICES ASSUME NEW s \in Sellers, NEW k \in StorageKeys, memory'[s][k] # NoAccount
                 PROVE  SaidOf(k, memory'[s][k])
      OBVIOUS
    <2>1. CASE s = Home(c) /\ k = item.key
      <3>1. memory'[s][k] = item.account
        BY <1>2, <1>3, <2>1 DEF TypeOK
      <3> QED
        BY <1>1, <2>1, <3>1 DEF ItemSaid
    <2>2. CASE s # Home(c) \/ k # item.key
      <3>1. memory'[s][k] = memory[s][k]
        BY <1>2, <1>3, <2>2 DEF TypeOK
      <3> QED
        BY <3>1 DEF StoredAsSaid
    <2> QED
      BY <2>1, <2>2
  <1>10. StoredAsSaid'
    BY <1>9 DEF StoredAsSaid, SaidOf
  <1>11. FoundKept'
    BY DEF TypeOK, FoundKept, OnDisk, Agent
  <1>12. GrantsRest'
    BY DEF TypeOK, GrantsRest, Rests, Agent
  <1> QED
    BY <1>5, <1>6, <1>7, <1>8, <1>10, <1>11, <1>12

LEMMA ReadRowKeeps ==
  ASSUME IInv, NEW c \in Callers, ReadRow(c)
  PROVE  IInv'
  <1> USE DEF IInv, ReadRow, Set, sellerVars, agentVars, storeVars
  <1>1. row[c] \in Items
    BY DEF Shaped
  <1>2. /\ row'[c] \in Items
        /\ row'[c].key = row[c].key /\ row'[c].account = row[c].account
        /\ \A d \in Callers : d # c => row'[d] = row[d]
    BY <1>1 DEF TypeOK, Items
  <1>3. row' \in [Callers -> Items \cup {NoRow}]
    BY <1>2 DEF TypeOK
  <1>4. TypeOK'
    BY <1>3, AccountAssumption DEF TypeOK
  <1>5. Shaped'
    BY <1>2 DEF TypeOK, Shaped
  <1>6. OwnedSaid'
    BY DEF OwnedSaid
  <1>7. row[c] # NoRow
    BY <1>1, AccountAssumption DEF Items, NoRow
  <1>8. ItemsSaid'
    BY <1>2, <1>7 DEF ItemsSaid, ItemSaid, SaidOf
  <1>9. StoredAsSaid'
    BY DEF StoredAsSaid, SaidOf
  <1>10. FoundKept'
    BY <1>2 DEF TypeOK, FoundKept, OnDisk, Agent
  <1>11. GrantsRest'
    BY DEF TypeOK, GrantsRest, Rests, Agent
  <1> QED
    BY <1>4, <1>5, <1>6, <1>8, <1>9, <1>10, <1>11

LEMMA CommitKeeps ==
  ASSUME IInv, NEW c \in Callers, Commit(c)
  PROVE  IInv'
  <1> USE DEF IInv, Commit, Set, sellerVars, agentVars
  <1>1. row[c] \in Items /\ call[c] \in Calls
    BY DEF Shaped
  <1>2. row[c] # NoRow
    BY <1>1, AccountAssumption DEF Items, NoRow
  <1>3. /\ row[c].key \in StorageKeys
        /\ row[c].account \in Accounts /\ row[c].account # NoAccount
        /\ ItemSaid(row[c])
    BY <1>1, <1>2, AccountAssumption DEF Items, ItemsSaid
  <1>4. Agent(c).url \in Urls
    BY <1>1, HomeIsSeller
  <1>5. table' \in [Urls -> [StorageKeys -> Accounts \cup {NoAccount}]]
    BY <1>3, <1>4 DEF TypeOK
  <1>6. \A u \in Urls, k \in StorageKeys :
          table'[u][k] = IF u = Agent(c).url /\ k = row[c].key THEN row[c].account
                         ELSE table[u][k]
    BY <1>3, <1>4 DEF TypeOK
  <1>7. TypeOK'
    BY <1>5, AccountAssumption DEF TypeOK
  <1>8. Shaped'
    BY DEF TypeOK, Shaped
  <1>9. OwnedSaid'
    BY DEF OwnedSaid
  <1>10. ItemsSaid'
    BY DEF TypeOK, ItemsSaid, ItemSaid, SaidOf
  <1>11. StoredAsSaid'
    BY <1>3, <1>6 DEF StoredAsSaid, SaidOf, ItemSaid
  <1>12. FoundKept'
    <2> SUFFICES ASSUME NEW d \in Callers, NEW x \in found[d]
                 PROVE  \/ OnDisk(d, x)'
                        \/ x \in todo[d]
                        \/ pc'[d] \in {"persisting", "committing"} /\ row'[d].key = x.key
      BY DEF FoundKept
    <2>1. found[d] # {} /\ call[d] \in Calls /\ x.key \in StorageKeys
      BY DEF Shaped, TypeOK, Items
    <2>2. Agent(d).url \in Urls /\ Agent(d)' = Agent(d)
      BY <2>1, HomeIsSeller DEF Agent
    <2>3. OnDisk(d, x) => OnDisk(d, x)'
      BY <1>3, <1>6, <2>1, <2>2 DEF OnDisk
    <2>4. row[c].key = x.key /\ d = c => OnDisk(d, x)'
      BY <1>3, <1>6, <2>1, <2>2 DEF OnDisk
    <2>5. d # c => pc'[d] = pc[d] /\ row'[d] = row[d]
      BY DEF TypeOK
    <2> QED
      BY <2>3, <2>4, <2>5 DEF FoundKept
  <1>13. GrantsRest'
    BY DEF TypeOK, GrantsRest, Rests, Agent
  <1> QED
    BY <1>7, <1>8, <1>9, <1>10, <1>11, <1>12, <1>13

LEMMA NextPageKeeps ==
  ASSUME IInv, NEW c \in Callers, NextPage(c)
  PROVE  IInv'
  <1> USE DEF IInv, NextPage, Stored, Set, sellerVars, agentVars, storeVars
  <1>1. pages' \in [Callers -> 0 .. MaxPages]
    BY AccountAssumption DEF TypeOK
  <1>2. TypeOK'
    BY <1>1, AccountAssumption DEF TypeOK
  <1>3. Shaped'
    BY DEF TypeOK, Shaped
  <1>4. OwnedSaid'
    BY DEF OwnedSaid
  <1>5. ItemsSaid'
    BY DEF ItemsSaid, ItemSaid, SaidOf
  <1>6. StoredAsSaid'
    BY DEF StoredAsSaid, SaidOf
  <1>7. FoundKept'
    BY DEF TypeOK, FoundKept, OnDisk, Agent
  <1>8. GrantsRest'
    BY DEF TypeOK, GrantsRest, Rests, Agent
  <1> QED
    BY <1>2, <1>3, <1>4, <1>5, <1>6, <1>7, <1>8

\* A reference that is granted at the end rests on what was found.
LEMMA ConcludeKeeps ==
  ASSUME IInv, NEW c \in Callers, Conclude(c)
  PROVE  IInv'
  <1>1. /\ pc[c] = "storing" /\ todo[c] = {}
        /\ UNCHANGED <<sellerVars, agentVars, storeVars>>
    BY DEF Conclude, Ended, Stored
  <1>2. call[c] \in Calls
    BY <1>1 DEF IInv, Shaped
  <1>3. \A x \in found[c] : OnDisk(c, x)
    BY <1>1 DEF IInv, FoundKept
  <1>4. \A x \in found[c] : x \in Items /\ ItemSaid(x)
    BY DEF IInv, TypeOK, ItemsSaid
  <1>5. CASE Return(c)
    <2>1. sessions' \in [Sellers -> Agents \cup {NoAgent}]
      BY <1>1 DEF IInv, TypeOK, agentVars
    <2> QED
      BY <1>1, <1>5, <2>1, ReturnKeeps DEF agentVars
  <1>6. CASE \E a \in Chosen(c) : Grant(c, a.id)
    <2>1. PICK a \in Chosen(c) : Grant(c, a.id)
      BY <1>6
    <2>2. PICK x \in found[c] : x.account = a /\ a.status = "active"
      BY <2>1 DEF Chosen, Candidates
    <2>3. a \in Accounts /\ ItemSaid(x)
      BY <1>4, <2>2 DEF Items
    <2>4. a.id \in Ids /\ a.id \notin Keys
      BY <2>3, AccountAssumption DEF Accounts
    <2>5. Rests(c, a.id)
      BY <2>2, <2>3, <2>4 DEF Rests, ItemSaid
    <2> QED
      BY <1>1, <1>3, <2>1, <2>4, <2>5, GrantKeeps DEF StorageKeys
  <1>7. CASE \E a \in Refreshed(c) : Usable(c, a) /\ Grant(c, KeyOf(c))
    <2>1. PICK a \in Refreshed(c) : Usable(c, a) /\ Grant(c, KeyOf(c))
      BY <1>7
    <2>2. PICK x \in found[c] : x.account = a /\ x.key = KeyOf(c)
      BY <2>1 DEF Refreshed
    <2>3. a \in Accounts /\ SaidOf(KeyOf(c), a)
      BY <1>4, <2>2 DEF Items, ItemSaid
    <2>4. Rests(c, KeyOf(c))
      BY <1>1, <2>1, <2>3, KnownRests
    <2> QED
      BY <1>1, <1>2, <1>3, <2>1, <2>4, KeyOfIsKey, GrantKeeps
  <1> QED
    BY <1>5, <1>6, <1>7 DEF Conclude

-----------------------------------------------------------------------------
(* The seller *)

\* A change of an account leaves the brand it is of; statuses are added to what
\* the seller has said.
LEMMA OwnsKeepsWord ==
  ASSUME TypeOK, OwnedSaid, NEW account \in Accounts, Owns(account),
         owned[account.id] = NoAccount \/ owned[account.id].brand = account.brand
  PROVE  /\ owned' \in [Ids -> Accounts \cup {NoAccount}]
         /\ had' \in [Brands -> SUBSET Statuses]
         /\ steady' \in [Callers -> SUBSET Ids]
         /\ \A b \in Brands : had[b] \subseteq had'[b]
         /\ account.status \in had'[account.brand] /\ owned'[account.id] = account
         /\ \A i \in Ids : owned[i] # NoAccount =>
              owned'[i] # NoAccount /\ owned'[i].brand = owned[i].brand
         /\ OwnedSaid'
  <1>1. account.id \in Ids /\ account.brand \in Brands /\ account.status \in Statuses
    BY DEF Accounts
  <1>2. account # NoAccount
    BY AccountAssumption
  <1>3. /\ owned' \in [Ids -> Accounts \cup {NoAccount}]
        /\ \A i \in Ids : owned'[i] = IF i = account.id THEN account ELSE owned[i]
    BY <1>1 DEF TypeOK, Owns
  <1>4. /\ had' \in [Brands -> SUBSET Statuses]
        /\ \A b \in Brands : had'[b] = IF b = account.brand
                                       THEN had[b] \cup {account.status} ELSE had[b]
    BY <1>1 DEF TypeOK, Owns
  <1>5. steady' \in [Callers -> SUBSET Ids]
    BY DEF TypeOK, Owns
  <1>6. \A i \in Ids : owned[i] # NoAccount => owned[i].brand \in Brands
    BY DEF TypeOK, Accounts
  <1>7. OwnedSaid'
    BY <1>1, <1>3, <1>4, <1>6 DEF OwnedSaid
  <1> QED
    BY <1>1, <1>2, <1>3, <1>4, <1>5, <1>7

\* What it has said stays said.
LEMMA WordLasts ==
  ASSUME \A b \in Brands : had[b] \subseteq had'[b],
         \A i \in Ids : owned[i] # NoAccount =>
           owned'[i] # NoAccount /\ owned'[i].brand = owned[i].brand
  PROVE  /\ \A k \in StorageKeys, a \in Accounts : SaidOf(k, a) => SaidOf(k, a)'
         /\ \A x \in Items : ItemSaid(x) => ItemSaid(x)'
         /\ \A c \in Callers, r \in StorageKeys \cup {NoRef} :
              /\ r \in Ids /\ owned[r] # NoAccount => owned[r].brand \in Brands
              /\ UNCHANGED call
              => (Rests(c, r) => Rests(c, r)')
  <1>1. ASSUME NEW k \in StorageKeys, NEW a \in Accounts, SaidOf(k, a)
        PROVE  SaidOf(k, a)'
    BY <1>1 DEF SaidOf, Keys
  <1>2. ASSUME NEW x \in Items, ItemSaid(x)
        PROVE  ItemSaid(x)'
    <2>1. /\ x.key \in StorageKeys /\ x.account \in Accounts
          /\ x.account.id \in Ids /\ x.account.brand \in Brands
      BY DEF Items, Accounts
    <2>2. SaidOf(x.key, x.account)'
      BY <1>1, <1>2, <2>1 DEF ItemSaid
    <2> QED
      BY <1>2, <2>1, <2>2 DEF ItemSaid
  <1>3. ASSUME NEW c \in Callers, NEW r \in StorageKeys \cup {NoRef}, UNCHANGED call,
               r \in Ids /\ owned[r] # NoAccount => owned[r].brand \in Brands,
               Rests(c, r)
        PROVE  Rests(c, r)'
    <2>1. r \in Keys => r.brand \in Brands
      BY DEF Keys
    <2>2. Agent(c)' = Agent(c)
      BY <1>3 DEF Agent
    <2>3. r \in Keys /\ HasTool(Agent(c), "sync_accounts") =>
            /\ r.brand = call'[c].brand
            /\ had'[r.brand] \cap Allowed(call'[c].kind) # {}
      BY <1>3, <2>1 DEF Rests
    <2>4. r \in Ids /\ Pinned = NoId =>
            owned'[r] # NoAccount /\ "active" \in had'[owned'[r].brand]
      BY <1>3 DEF Rests
    <2> QED
      BY <2>2, <2>3, <2>4 DEF Rests
  <1> QED
    BY <1>1, <1>2, <1>3

LEMMA SellerChangesKeeps ==
  ASSUME IInv, NEW account \in Accounts, SellerChanges(account)
  PROVE  IInv'
  <1> USE DEF IInv, SellerChanges, agentVars, storeVars
  <1>1. \A i \in Ids : i \in Unused => owned[i] = NoAccount
    BY DEF Unused, Shown
  <1>2. \A s \in Statuses : [account EXCEPT !.status = s].brand = account.brand
    BY DEF Accounts
  <1>3. account.id \in Ids
    BY DEF Accounts
  <1>4. owned[account.id] = NoAccount \/ owned[account.id].brand = account.brand
    BY <1>1, <1>2, <1>3
  <1>5. /\ owned' \in [Ids -> Accounts \cup {NoAccount}]
        /\ had' \in [Brands -> SUBSET Statuses]
        /\ steady' \in [Callers -> SUBSET Ids]
        /\ \A b \in Brands : had[b] \subseteq had'[b]
        /\ \A i \in Ids : owned[i] # NoAccount =>
             owned'[i] # NoAccount /\ owned'[i].brand = owned[i].brand
        /\ OwnedSaid'
    BY <1>4, OwnsKeepsWord
  <1>6. changes' \in 0 .. MaxChanges
    BY AccountAssumption DEF TypeOK
  <1>7. TypeOK'
    BY <1>5, <1>6 DEF TypeOK
  <1>8. Shaped'
    BY DEF Shaped
  <1>9. /\ \A k \in StorageKeys, a \in Accounts : SaidOf(k, a) => SaidOf(k, a)'
        /\ \A x \in Items : ItemSaid(x) => ItemSaid(x)'
    BY <1>5, WordLasts
  <1>10. ItemsSaid'
    <2>1. \A c \in Callers : /\ todo[c] \subseteq Items /\ found[c] \subseteq Items
                             /\ row[c] # NoRow => row[c] \in Items
      BY DEF TypeOK
    <2> QED
      BY <1>9, <2>1 DEF ItemsSaid
  <1>11. StoredAsSaid'
    <2>1. \A s \in Sellers, k \in StorageKeys :
            memory[s][k] # NoAccount => memory[s][k] \in Accounts
      BY DEF TypeOK
    <2>2. \A u \in Urls, k \in StorageKeys :
            table[u][k] # NoAccount => table[u][k] \in Accounts
      BY DEF TypeOK
    <2> QED
      BY <1>9, <2>1, <2>2 DEF StoredAsSaid
  <1>12. FoundKept'
    BY DEF FoundKept, OnDisk, Agent
  <1>13. GrantsRest'
    <2>1. \A c \in Callers : ref[c] \in StorageKeys \cup {NoRef}
      BY DEF TypeOK
    <2>2. \A i \in Ids : owned[i] # NoAccount => owned[i].brand \in Brands
      BY DEF TypeOK, Accounts
    <2>3. \A c \in Callers : Rests(c, ref[c]) => Rests(c, ref[c])'
      BY <1>5, <2>1, <2>2, WordLasts
    <2> QED
      BY <2>3 DEF GrantsRest
  <1> QED
    BY <1>5, <1>7, <1>8, <1>10, <1>11, <1>12, <1>13

\* What a listing shows of an account is the seller's word.
LEMMA SellerListsKeeps ==
  ASSUME IInv, NEW c \in Callers, SellerLists(c)
  PROVE  IInv'
  <1> USE DEF IInv, Set, sellerVars, agentVars, storeVars
  <1> DEFINE item(i) == [key |-> ListedKey(Agent(c), owned[i]), account |-> owned[i],
                         exists |-> FALSE]
  <1>1. PICK page \in SUBSET (left[c] \cap Shown) :
          /\ todo' = [todo EXCEPT ![c] = {item(i) : i \in page}]
          /\ found' = [found EXCEPT ![c] = found[c] \cup {item(i) : i \in page}]
          /\ left' = [left EXCEPT ![c] = left[c] \ page]
    BY DEF SellerLists
  <1>2. /\ pc[c] = "listing" /\ pc' = [pc EXCEPT ![c] = "storing"]
        /\ UNCHANGED <<sellerVars, agentVars, storeVars, call, pages, row, ref, steady>>
    BY DEF SellerLists
  <1>3. call[c] \in Calls
    BY <1>2 DEF Shaped
  <1>4. ASSUME NEW i \in page
        PROVE  item(i) \in Items /\ ItemSaid(item(i))
    <2>1. i \in Ids /\ owned[i] \in Accounts /\ owned[i] # NoAccount
      BY DEF Shown, TypeOK
    <2>2. owned[i].id = i /\ owned[i].status \in had[owned[i].brand]
      BY <2>1 DEF OwnedSaid
    <2>3. /\ owned[i].brand \in Brands /\ owned[i].with \in SUBSET Extras
          /\ owned[i].with \ {"timezone"} \in SUBSET Extras
      BY <2>1 DEF Accounts
    <2>4. CASE Agent(c).mode = "operator_authorized"
      <3>1. ListedKey(Agent(c), owned[i]) = i
        BY <2>2, <2>4 DEF ListedKey
      <3>2. i \notin Keys /\ i \in StorageKeys
        BY <2>1, AccountAssumption DEF StorageKeys
      <3> QED
        BY <2>1, <2>2, <3>1, <3>2 DEF Items, ItemSaid, SaidOf
    <2>5. CASE Agent(c).mode # "operator_authorized"
      <3>1. /\ ListedKey(Agent(c), owned[i]) \in Keys
            /\ ListedKey(Agent(c), owned[i]).brand = owned[i].brand
        BY <2>3, <2>5 DEF ListedKey, Keys
      <3> QED
        BY <2>1, <2>2, <3>1 DEF Items, ItemSaid, SaidOf, StorageKeys
    <2> QED
      BY <2>4, <2>5
  <1>5. {item(i) : i \in page} \subseteq Items
    BY <1>4
  <1>6. \A x \in {item(i) : i \in page} : ItemSaid(x)
    BY <1>4
  <1> HIDE DEF item
  <1>7. TypeOK'
    <2>1. left' \in [Callers -> SUBSET Ids]
      BY <1>1 DEF TypeOK
    <2>2. todo' \in [Callers -> SUBSET Items] /\ found' \in [Callers -> SUBSET Items]
      BY <1>1, <1>5 DEF TypeOK
    <2> QED
      BY <1>2, <2>1, <2>2 DEF TypeOK
  <1>8. Shaped'
    BY <1>1, <1>2, <1>3 DEF TypeOK, Shaped
  <1>9. OwnedSaid'
    BY <1>2 DEF OwnedSaid
  <1>10. ItemsSaid'
    <2>1. \A x : ItemSaid(x)' <=> ItemSaid(x)
      BY <1>2 DEF ItemSaid, SaidOf
    <2>2. \A d \in Callers : \A x \in todo'[d] : ItemSaid(x)
      BY <1>1, <1>6 DEF TypeOK, ItemsSaid
    <2>3. \A d \in Callers : \A x \in found'[d] : ItemSaid(x)
      BY <1>1, <1>6 DEF TypeOK, ItemsSaid
    <2>4. \A d \in Callers : row'[d] # NoRow => ItemSaid(row'[d])
      BY <1>2 DEF ItemsSaid
    <2> QED
      BY <2>1, <2>2, <2>3, <2>4 DEF ItemsSaid
  <1>11. StoredAsSaid'
    BY <1>2 DEF StoredAsSaid, SaidOf
  <1>12. FoundKept'
    <2>1. todo[c] = {}
      BY <1>2 DEF Shaped
    <2>2. \A d \in Callers : \A x : OnDisk(d, x)' <=> OnDisk(d, x)
      BY <1>2 DEF OnDisk, Agent
    <2>3. \A d \in Callers : d # c =>
            todo'[d] = todo[d] /\ found'[d] = found[d] /\ pc'[d] = pc[d]
      BY <1>1, <1>2 DEF TypeOK
    <2>4. \A x \in found'[c] : x \in found[c] \/ x \in todo'[c]
      BY <1>1 DEF TypeOK
    <2> QED
      BY <1>2, <2>1, <2>2, <2>3, <2>4 DEF FoundKept
  <1>13. GrantsRest'
    BY <1>2 DEF TypeOK, GrantsRest, Rests, Agent
  <1> QED
    BY <1>7, <1>8, <1>9, <1>10, <1>11, <1>12, <1>13

\* sync_accounts has an account of the brand, whether new or not.
LEMMA ProvidedAccount ==
  ASSUME IInv, NEW c \in Callers, pc[c] = "syncing", NEW account \in Provided(c)
  PROVE  /\ account \in Accounts /\ account.brand = call[c].brand
         /\ owned[account.id] = NoAccount \/ owned[account.id].brand = account.brand
  <1> DEFINE old == {owned[i] : i \in {j \in Shown : owned[j].brand = call[c].brand}}
  <1>1. call[c] \in Calls
    BY DEF IInv, Shaped
  <1>2. CASE old # {}
    <2>1. PICK i \in Shown : owned[i].brand = call[c].brand /\ account = owned[i]
      BY <1>2 DEF Provided
    <2>2. i \in Ids /\ owned[i] \in Accounts /\ owned[i].id = i
      BY <2>1 DEF IInv, TypeOK, OwnedSaid, Shown
    <2> QED
      BY <2>1, <2>2
  <1>3. CASE old = {}
    <2>1. account \in [id : Unused, brand : {call[c].brand}, status : Statuses,
                       with : {KeyOf(c).with \cup Echoed}]
      BY <1>3 DEF Provided
    <2>2. KeyOf(c).with \cup Echoed \in SUBSET Extras
      BY <1>1, KeyOfIsKey, AccountAssumption DEF Keys
    <2>3. \A i \in Unused : i \in Ids /\ owned[i] = NoAccount
      BY DEF Unused, Shown
    <2>4. call[c].brand \in Brands
      BY <1>1 DEF Calls
    <2> QED
      BY <2>1, <2>2, <2>3, <2>4 DEF Accounts
  <1> QED
    BY <1>2, <1>3

LEMMA SellerSyncsKeeps ==
  ASSUME IInv, NEW c \in Callers, SellerSyncs(c)
  PROVE  IInv'
  <1> USE DEF IInv, Set, agentVars, storeVars
  <1>1. pc[c] = "syncing" /\ pc' = [pc EXCEPT ![c] = "storing"]
        /\ UNCHANGED <<offer, changes, agentVars, storeVars, call, left, pages, row, ref>>
    BY DEF SellerSyncs
  <1>2. PICK account \in Provided(c) :
          LET item == [key |-> KeyOf(c), account |-> account, exists |-> FALSE] IN
          /\ Owns(account)
          /\ todo' = [todo EXCEPT ![c] = {item}]
          /\ found' = [found EXCEPT ![c] = {item}]
    BY DEF SellerSyncs
  <1> DEFINE item == [key |-> KeyOf(c), account |-> account, exists |-> FALSE]
  <1>3. call[c] \in Calls
    BY <1>1 DEF Shaped
  <1>4. /\ account \in Accounts /\ account.brand = call[c].brand
        /\ owned[account.id] = NoAccount \/ owned[account.id].brand = account.brand
    BY <1>1, ProvidedAccount
  <1>5. /\ owned' \in [Ids -> Accounts \cup {NoAccount}]
        /\ had' \in [Brands -> SUBSET Statuses]
        /\ steady' \in [Callers -> SUBSET Ids]
        /\ \A b \in Brands : had[b] \subseteq had'[b]
        /\ account.status \in had'[account.brand] /\ owned'[account.id] = account
        /\ \A i \in Ids : owned[i] # NoAccount =>
             owned'[i] # NoAccount /\ owned'[i].brand = owned[i].brand
        /\ OwnedSaid'
    BY <1>2, <1>4, OwnsKeepsWord
  <1>6. /\ KeyOf(c) \in Keys /\ KeyOf(c) \in StorageKeys
        /\ KeyOf(c).brand = call[c].brand
    BY <1>3, KeyOfIsKey
  <1>7. item \in Items /\ item.key = KeyOf(c) /\ item.account = account
    BY <1>4, <1>6 DEF Items
  <1>8. ItemSaid(item)'
    <2>1. SaidOf(KeyOf(c), account)'
      <3>1. account.brand = KeyOf(c).brand /\ account.status \in had'[KeyOf(c).brand]
        BY <1>4, <1>5, <1>6
      <3>2. KeyOf(c)' = KeyOf(c)
        BY <1>1 DEF KeyOf, Agent
      <3> QED
        BY <1>6, <3>1, <3>2 DEF SaidOf
    <2>2. item' = item
      BY <1>1 DEF KeyOf, Agent
    <2>3. account # NoAccount
      BY <1>4, AccountAssumption
    <2> QED
      BY <1>5, <1>7, <2>1, <2>2, <2>3 DEF ItemSaid
  <1>9. item' = item
    BY <1>1 DEF KeyOf, Agent
  <1>10. todo' = [todo EXCEPT ![c] = {item}] /\ found' = [found EXCEPT ![c] = {item}]
    BY <1>2
  <1> HIDE DEF item
  <1>11. TypeOK'
    <2>1. todo' \in [Callers -> SUBSET Items] /\ found' \in [Callers -> SUBSET Items]
      BY <1>7, <1>10 DEF TypeOK
    <2> QED
      BY <1>1, <1>5, <2>1 DEF TypeOK
  <1>12. Shaped'
    BY <1>1, <1>3, <1>10 DEF TypeOK, Shaped
  <1>13. /\ \A k \in StorageKeys, a \in Accounts : SaidOf(k, a) => SaidOf(k, a)'
         /\ \A x \in Items : ItemSaid(x) => ItemSaid(x)'
    BY <1>5, WordLasts
  <1>14. ItemsSaid'
    <2>1. \A d \in Callers : /\ todo[d] \subseteq Items /\ found[d] \subseteq Items
                             /\ row[d] # NoRow => row[d] \in Items
      BY DEF TypeOK
    <2>2. \A d \in Callers : \A x \in todo'[d] : x = item \/ x \in todo[d]
      BY <1>10 DEF TypeOK
    <2>3. \A d \in Callers : \A x \in found'[d] : x = item \/ x \in found[d]
      BY <1>10 DEF TypeOK
    <2>4. \A x : x = item => ItemSaid(x)'
      BY <1>8, <1>9
    <2>5. \A d \in Callers : row'[d] = row[d]
      BY <1>1
    <2>6. \A d \in Callers : \A x \in todo[d] \cup found[d] : ItemSaid(x)'
      BY <1>13, <2>1 DEF ItemsSaid
    <2>7. \A d \in Callers : row[d] # NoRow => ItemSaid(row[d])'
      BY <1>13, <2>1, <2>5 DEF ItemsSaid
    <2>8. \A d \in Callers : \A x \in todo'[d] : ItemSaid(x)'
      BY <2>2, <2>4, <2>6
    <2>9. \A d \in Callers : \A x \in found'[d] : ItemSaid(x)'
      BY <2>3, <2>4, <2>6
    <2> QED
      BY <2>5, <2>7, <2>8, <2>9 DEF ItemsSaid
  <1>15. StoredAsSaid'
    <2>1. \A s \in Sellers, k \in StorageKeys :
            memory[s][k] # NoAccount => memory[s][k] \in Accounts
      BY DEF TypeOK
    <2>2. \A u \in Urls, k \in StorageKeys :
            table[u][k] # NoAccount => table[u][k] \in Accounts
      BY DEF TypeOK
    <2> QED
      BY <1>1, <1>13, <2>1, <2>2 DEF StoredAsSaid
  <1>16. FoundKept'
    <2>1. \A d \in Callers : \A x : OnDisk(d, x)' <=> OnDisk(d, x)
      BY <1>1 DEF OnDisk, Agent
    <2>2. \A d \in Callers : d # c =>
            todo'[d] = todo[d] /\ found'[d] = found[d] /\ pc'[d] = pc[d]
      BY <1>1, <1>10 DEF TypeOK
    <2>3. found'[c] = todo'[c]
      BY <1>10 DEF TypeOK
    <2> QED
      BY <1>1, <2>1, <2>2, <2>3 DEF FoundKept
  <1>17. GrantsRest'
    <2>1. \A d \in Callers : ref[d] \in StorageKeys \cup {NoRef}
      BY DEF TypeOK
    <2>2. \A i \in Ids : owned[i] # NoAccount => owned[i].brand \in Brands
      BY DEF TypeOK, Accounts
    <2>3. \A d \in Callers : Rests(d, ref[d]) => Rests(d, ref[d])'
      BY <1>1, <1>5, <2>1, <2>2, WordLasts
    <2>4. \A d \in Callers : pc'[d] = "granted" => pc[d] = "granted"
      BY <1>1 DEF TypeOK
    <2> QED
      BY <2>3, <2>4 DEF GrantsRest
  <1> QED
    BY <1>5, <1>11, <1>12, <1>14, <1>15, <1>16, <1>17

-----------------------------------------------------------------------------
(* Discovery *)

LEMMA UnprobedAreAgents ==
  ASSUME NEW listing \in Seq(Entries)
  PROVE  Unprobed(listing) \subseteq Agents
  <1>1. Undeclared \in Capabilities
    BY DEF Undeclared, Capabilities
  <1>2. ASSUME NEW url \in Urls, NEW source \in {"config", "registry"},
               NEW tools \in SUBSET Tools
        PROVE  NewAgent(url, source, tools) \in Agents
    BY <1>1 DEF NewAgent, Agents, Modes
  <1>3. ASSUME NEW i \in DOMAIN listing, Buyable(listing[i])
        PROVE  Address(listing[i]) \in Urls /\ listing[i].tools \in SUBSET Tools
    <2>1. listing[i] \in Entries
      OBVIOUS
    <2> QED
      BY <1>3, <2>1 DEF Buyable, Address, Entries
  <1>4. \A u \in Configured : NewAgent(u, "config", {}) \in Agents
    BY <1>2, DirectoryAssumption
  <1>5. \A i \in DOMAIN listing : Buyable(listing[i]) =>
          NewAgent(Address(listing[i]), "registry", listing[i].tools) \in Agents
    BY <1>2, <1>3
  <1> QED
    BY <1>4, <1>5 DEF Unprobed

LEMMA ProbedIsAgent ==
  ASSUME NEW agent \in Agents, NEW outcome,
         NEW o \in [tools : SUBSET Tools, caps : Capabilities]
  PROVE  /\ Probed(agent, outcome, o) \in Agents
         /\ Probed(agent, outcome, o).url = agent.url
         /\ Probed(agent, outcome, o).source = agent.source
  <1>1. \A a \in Agents : /\ Configure(a) \in Agents
                          /\ Configure(a).url = a.url /\ Configure(a).source = a.source
    BY DirectoryAssumption DEF Configure, ModeFor, Agents, Modes
  <1>2. [agent EXCEPT !.tools = o.tools] \in Agents
        /\ [[agent EXCEPT !.tools = o.tools] EXCEPT !.caps = o.caps] \in Agents
    BY DEF Agents
  <1> QED
    BY <1>1, <1>2 DEF Probed, Agents

LEMMA DiscoverKeeps ==
  ASSUME IInv, Discover
  PROVE  IInv'
  <1> USE DEF IInv, Discover, sellerVars, storeVars, listVars
  <1>1. listed' \subseteq Agents
    <2>1. PICK listing \in Listings \cup {<<>>} :
            \E outcome \in [Unprobed(listing) -> ProbeOutcomes] :
              listed' = {Probed(a, outcome[a], offer) : a \in Unprobed(listing)}
      OBVIOUS
    <2>2. PICK outcome \in [Unprobed(listing) -> ProbeOutcomes] :
            listed' = {Probed(a, outcome[a], offer) : a \in Unprobed(listing)}
      BY <2>1
    <2>3. listing \in Seq(Entries)
      <3>1. Listings \subseteq Seq(Entries)
        BY AccountAssumption
      <3>2. <<>> \in Seq(Entries)
        OBVIOUS
      <3> QED
        BY <3>1, <3>2
    <2>4. offer \in [tools : SUBSET Tools, caps : Capabilities]
      BY AccountAssumption DEF TypeOK
    <2>5. \A a \in Unprobed(listing) : Probed(a, outcome[a], offer) \in Agents
      BY <2>3, <2>4, UnprobedAreAgents, ProbedIsAgent
    <2> QED
      BY <2>2, <2>5
  <1>2. discoveries' \in 0 .. MaxDiscoveries
    BY AccountAssumption DEF TypeOK
  <1>3. TypeOK'
    BY <1>1, <1>2 DEF TypeOK
  <1>4. Shaped'
    BY DEF Shaped
  <1>5. OwnedSaid' /\ ItemsSaid' /\ StoredAsSaid'
    BY DEF OwnedSaid, ItemsSaid, ItemSaid, StoredAsSaid, SaidOf
  <1>6. FoundKept' /\ GrantsRest'
    BY DEF FoundKept, OnDisk, GrantsRest, Rests, Agent
  <1> QED
    BY <1>3, <1>4, <1>5, <1>6

-----------------------------------------------------------------------------
(* Crashes *)

\* What is loaded after a crash was persisted.
LEMMA RestartKeeps ==
  ASSUME IInv, Restart
  PROVE  IInv'
  <1> USE DEF IInv, sellerVars
  <1>1. /\ crashes < MaxCrashes /\ crashes' = crashes + 1
        /\ listed' = {} /\ sessions' = [s \in Sellers |-> NoAgent]
        /\ pc' = [c \in Callers |-> "idle"] /\ call' = [c \in Callers |-> NoCall]
        /\ left' = [c \in Callers |-> {}] /\ pages' = [c \in Callers |-> 0]
        /\ todo' = [c \in Callers |-> {}] /\ found' = [c \in Callers |-> {}]
        /\ row' = [c \in Callers |-> NoRow] /\ ref' = [c \in Callers |-> NoRef]
        /\ steady' = [c \in Callers |-> {}]
        /\ UNCHANGED <<sellerVars, discoveries, table>>
    BY DEF Restart
  <1> DEFINE rows(s, k) == {u \in Urls : Bare[u] = s /\ table[u][k] # NoAccount}
             loaded(last, s, k) == IF rows(s, k) = {} THEN NoAccount
                                   ELSE IF last[s] \in rows(s, k) THEN table[last[s]][k]
                                   ELSE table[CHOOSE u \in rows(s, k) : TRUE][k]
  <1>2. PICK last \in [Sellers -> Urls] :
          memory' = [s \in Sellers |-> [k \in StorageKeys |-> loaded(last, s, k)]]
    BY DEF Restart
  <1>3. ASSUME NEW s \in Sellers, NEW k \in StorageKeys
        PROVE  loaded(last, s, k) = NoAccount \/ \E u \in Urls : loaded(last, s, k) = table[u][k]
    <2>1. rows(s, k) # {} => (CHOOSE u \in rows(s, k) : TRUE) \in rows(s, k)
      OBVIOUS
    <2> QED
      BY <2>1
  <1>4. \A s \in Sellers, k \in StorageKeys : memory'[s][k] = loaded(last, s, k)
    BY <1>2
  <1> HIDE DEF loaded
  <1>5. \A s \in Sellers, k \in StorageKeys :
          memory'[s][k] = NoAccount \/ \E u \in Urls : memory'[s][k] = table[u][k]
    BY <1>3, <1>4
  <1>6. memory' \in [Sellers -> [StorageKeys -> Accounts \cup {NoAccount}]]
    <2>1. \A s \in Sellers, k \in StorageKeys : loaded(last, s, k) \in Accounts \cup {NoAccount}
      BY <1>3 DEF TypeOK
    <2> QED
      BY <1>2, <2>1
  <1>7. TypeOK'
    BY <1>1, <1>6, AccountAssumption DEF TypeOK
  <1>8. Shaped'
    BY <1>1 DEF Shaped
  <1>9. OwnedSaid'
    BY <1>1 DEF OwnedSaid
  <1>10. ItemsSaid'
    BY <1>1 DEF ItemsSaid
  <1>11. StoredAsSaid'
    <2>1. \A k, a : SaidOf(k, a)' <=> SaidOf(k, a)
      BY <1>1 DEF SaidOf
    <2>2. \A u \in Urls, k \in StorageKeys :
            table'[u][k] # NoAccount => SaidOf(k, table'[u][k])
      BY <1>1 DEF StoredAsSaid
    <2>3. \A s \in Sellers, k \in StorageKeys :
            memory'[s][k] # NoAccount => SaidOf(k, memory'[s][k])
      BY <1>5 DEF StoredAsSaid
    <2> QED
      BY <2>1, <2>2, <2>3 DEF StoredAsSaid
  <1>12. FoundKept'
    BY <1>1 DEF FoundKept
  <1>13. GrantsRest'
    BY <1>1 DEF GrantsRest
  <1> QED
    BY <1>7, <1>8, <1>9, <1>10, <1>11, <1>12, <1>13

-----------------------------------------------------------------------------
(* Every state *)

LEMMA InitIInv == Init => IInv
  <1> SUFFICES ASSUME Init PROVE IInv
    OBVIOUS
  <1> USE DEF Init
  <1>1. owned \in [Ids -> Accounts \cup {NoAccount}]
        /\ \A i \in Ids : owned[i] # NoAccount => owned[i].id = i
    BY DEF InitOwned
  <1>2. \A a \in Accounts : a.brand \in Brands /\ a.status \in Statuses
    BY DEF Accounts
  <1> DEFINE of(b) == {owned[i] : i \in {j \in Shown : owned[j].brand = b}}
  <1>3. \A b \in Brands : of(b) \subseteq Accounts
    BY <1>1 DEF Shown
  <1>4. \A b \in Brands : had[b] = {a.status : a \in of(b)}
    OBVIOUS
  <1>5. had \in [Brands -> SUBSET Statuses]
    <2>1. \A b \in Brands : {a.status : a \in of(b)} \subseteq Statuses
      BY <1>2, <1>3
    <2> QED
      BY <2>1
  <1>6. OwnedSaid
    <2> SUFFICES ASSUME NEW i \in Ids, owned[i] # NoAccount
                 PROVE  owned[i].id = i /\ owned[i].status \in had[owned[i].brand]
      BY DEF OwnedSaid
    <2>1. owned[i].brand \in Brands /\ owned[i] \in of(owned[i].brand)
      BY <1>1, <1>2 DEF Shown
    <2> QED
      BY <1>1, <1>4, <2>1
  <1>7. TypeOK
    BY <1>1, <1>5, AccountAssumption DEF TypeOK
  <1>8. Shaped /\ ItemsSaid /\ FoundKept /\ GrantsRest
    BY DEF Shaped, ItemsSaid, FoundKept, GrantsRest
  <1>9. StoredAsSaid
    BY DEF StoredAsSaid
  <1> QED
    BY <1>6, <1>7, <1>8, <1>9 DEF IInv

LEMMA StutterKeeps ==
  ASSUME IInv, UNCHANGED vars
  PROVE  IInv'
  <1> USE DEF IInv, vars, sellerVars, agentVars, storeVars, listVars
  <1>1. TypeOK' /\ Shaped'
    BY DEF TypeOK, Shaped
  <1>2. OwnedSaid' /\ ItemsSaid' /\ StoredAsSaid'
    BY DEF OwnedSaid, ItemsSaid, ItemSaid, StoredAsSaid, SaidOf
  <1>3. FoundKept' /\ GrantsRest'
    BY DEF FoundKept, OnDisk, GrantsRest, Rests, Agent
  <1> QED
    BY <1>1, <1>2, <1>3

LEMMA NextKeeps ==
  ASSUME IInv, [Next]_vars
  PROVE  IInv'
  <1>1. CASE \E c \in Callers, kind \in Kinds, agent \in listed, brand \in Brands :
               Begin(c, kind, agent, brand)
    BY <1>1, BeginKeeps
  <1>2. ASSUME NEW c \in Callers, Step(c)
        PROVE  IInv'
    <2>1. CASE Resolve(c)
      BY <2>1, ResolveKeyKeeps, ResolveIdKeeps, ResolveForSearchKeeps, AskAccountsKeeps
         DEF Resolve
    <2>2. CASE Store(c)
      BY <2>2, RememberKeeps, ReadRowKeeps, CommitKeeps, ExceptionKeeps DEF Store
    <2> QED
      BY <1>2, <2>1, <2>2, NextPageKeeps, ConcludeKeeps, SendKeeps DEF Step
  <1>3. ASSUME NEW c \in Callers, SellerAnswers(c)
        PROVE  IInv'
    BY <1>3, SellerListsKeeps, SellerSyncsKeeps DEF SellerAnswers
  <1>4. ASSUME NEW c \in Callers, CallFails(c) \/ PersistFails(c)
        PROVE  IInv'
    BY <1>4, ExceptionKeeps
  <1>5. ASSUME NEW account \in Accounts, SellerChanges(account)
        PROVE  IInv'
    BY <1>5, SellerChangesKeeps
  <1> QED
    BY <1>1, <1>2, <1>3, <1>4, <1>5, DiscoverKeeps, RestartKeeps, StutterKeeps DEF Next

\* The inductive invariant holds in every state the account manager reaches.
THEOREM AccountInvariant == Spec => []IInv
  BY InitIInv, NextKeeps, PTL DEF Spec

\* Every variable keeps its type.
THEOREM AccountTypes == Spec => []TypeOK
  <1>1. IInv => TypeOK
    BY DEF IInv
  <1> QED
    BY <1>1, AccountInvariant, PTL

\* What is remembered or persisted under a key is what the seller has said of
\* an account with that key (_remember, _persist, load).
THEOREM AccountsStoredAsSaid == Spec => []StoredAsSaid
  <1>1. IInv => StoredAsSaid
    BY DEF IInv
  <1> QED
    BY <1>1, AccountInvariant, PTL

\* A reference that a request carries rests on the seller's word
\* (resolve_account_ref, discovery_account_ref).
THEOREM GrantsRestOnSeller == Spec => []GrantRestsOnSeller
  <1>1. IInv => GrantRestsOnSeller
    BY DEF IInv, GrantsRest, Rests, GrantRestsOnSeller
  <1> QED
    BY <1>1, AccountInvariant, PTL

\* All accounts that a call told are on disk when the reference goes into a
\* request (_remember awaits _persist).
THEOREM AccountsPersistedBeforeUse == Spec => []PersistedBeforeUse
  <1>1. IInv => PersistedBeforeUse
    BY DEF IInv, Shaped, FoundKept, OnDisk, PersistedBeforeUse
  <1> QED
    BY <1>1, AccountInvariant, PTL

-----------------------------------------------------------------------------
(* Agents are told apart *)

\* Of each site one agent is to be probed, if the configuration lists none twice.
LEMMA UnprobedOnce ==
  ASSUME \A u, v \in Configured : Site[u] = Site[v] => u = v,
         NEW listing \in Seq(Entries)
  PROVE  /\ \A x, y \in Unprobed(listing) : Site[x.url] = Site[y.url] => x = y
         /\ \A x \in Unprobed(listing), u \in Configured :
              Site[x.url] = Site[u] => x.source = "config"
  <1> DEFINE buyable == {i \in DOMAIN listing : Buyable(listing[i])}
             siteOf(i) == Site[Address(listing[i])]
             new == {i \in buyable :
                       /\ \A u \in Configured : Site[u] # siteOf(i)
                       /\ \A j \in buyable : j < i => siteOf(j) # siteOf(i)}
             ours(u) == NewAgent(u, "config", {})
             other(i) == NewAgent(Address(listing[i]), "registry", listing[i].tools)
  <1>1. \A x \in Unprobed(listing) :
          (\E u \in Configured : x = ours(u)) \/ (\E i \in new : x = other(i))
    BY DEF Unprobed
  <1>2. \A u \in Configured : ours(u).url = u /\ ours(u).source = "config"
    BY DEF NewAgent
  <1>3. \A i \in new : Site[other(i).url] = siteOf(i) /\ other(i).source = "registry"
    BY DEF NewAgent
  <1>4. \A i, j \in new : siteOf(i) = siteOf(j) => i = j
    <2>1. \A i \in new : i \in Nat /\ i \in buyable
      OBVIOUS
    <2>2. \A i, j \in new : j < i => siteOf(j) # siteOf(i)
      BY <2>1
    <2> QED
      BY <2>1, <2>2
  <1>5. \A i \in new, u \in Configured : Site[u] # siteOf(i)
    OBVIOUS
  <1> HIDE DEF new, siteOf, ours, other
  <1> QED
    BY <1>1, <1>2, <1>3, <1>4, <1>5

\* Discovery lists one agent per seller, a configured one if there is one
\* (discover_all_sellers), if no two configured addresses are of one site.
THEOREM AgentsListedOnce ==
  ASSUME \A u, v \in Configured : Site[u] = Site[v] => u = v
  PROVE  Spec => []ListedOnce
  <1>1. Init => ListedOnce
    BY DEF Init, ListedOnce
  <1>2. ASSUME IInv, ListedOnce, [Next]_vars
        PROVE  ListedOnce'
    <2>1. CASE Discover
      <3>1. PICK listing \in Listings \cup {<<>>} :
              \E outcome \in [Unprobed(listing) -> ProbeOutcomes] :
                listed' = {Probed(a, outcome[a], offer) : a \in Unprobed(listing)}
        BY <2>1 DEF Discover
      <3>2. PICK outcome \in [Unprobed(listing) -> ProbeOutcomes] :
              listed' = {Probed(a, outcome[a], offer) : a \in Unprobed(listing)}
        BY <3>1
      <3>3. listing \in Seq(Entries)
        <4>1. Listings \subseteq Seq(Entries)
          BY AccountAssumption
        <4>2. <<>> \in Seq(Entries)
          OBVIOUS
        <4> QED
          BY <4>1, <4>2
      <3>4. offer \in [tools : SUBSET Tools, caps : Capabilities]
        BY <1>2, AccountAssumption DEF IInv, TypeOK
      <3>5. \A a \in Unprobed(listing) :
              /\ a.url \in Urls
              /\ Probed(a, outcome[a], offer).url = a.url
              /\ Probed(a, outcome[a], offer).source = a.source
        BY <3>3, <3>4, UnprobedAreAgents, ProbedIsAgent DEF Agents
      <3>6. /\ \A x, y \in Unprobed(listing) : Site[x.url] = Site[y.url] => x = y
            /\ \A x \in Unprobed(listing), u \in Configured :
                 Site[x.url] = Site[u] => x.source = "config"
        BY <3>3, UnprobedOnce
      <3>7. \A u, v \in Urls : Bare[u] = Bare[v] => Site[u] = Site[v]
        BY DirectoryAssumption
      <3>8. \A a, b \in listed' : Bare[a.url] = Bare[b.url] => a = b
        BY <3>2, <3>5, <3>6, <3>7
      <3>9. \A a \in listed', u \in Configured : Site[a.url] = Site[u] => a.source = "config"
        BY <3>2, <3>5, <3>6
      <3> QED
        BY <3>8, <3>9 DEF ListedOnce
    <2>2. CASE Restart
      BY <2>2 DEF Restart, ListedOnce
    <2>3. CASE UNCHANGED listed
      BY <1>2, <2>3 DEF ListedOnce
    <2>4. Discover \/ Restart \/ UNCHANGED listed
      <3>1. ASSUME NEW c \in Callers, Step(c)
            PROVE  UNCHANGED listed
        BY <3>1 DEF Step, Resolve, ResolveKey, ResolveId, ResolveForSearch, AskAccounts,
           Store, Remember, ReadRow, Commit, Collides, NextPage, Conclude, Send, agentVars
      <3>2. ASSUME NEW c \in Callers, SellerAnswers(c)
            PROVE  UNCHANGED listed
        BY <3>2 DEF SellerAnswers, SellerLists, SellerSyncs, agentVars
      <3>3. ASSUME NEW c \in Callers, CallFails(c) \/ PersistFails(c)
            PROVE  UNCHANGED listed
        BY <3>3 DEF CallFails, PersistFails, agentVars
      <3>4. ASSUME NEW account \in Accounts, SellerChanges(account)
            PROVE  UNCHANGED listed
        BY <3>4 DEF SellerChanges, agentVars
      <3>5. ASSUME NEW c \in Callers, NEW kind \in Kinds, NEW agent \in listed,
                   NEW brand \in Brands, Begin(c, kind, agent, brand)
            PROVE  UNCHANGED listed
        BY <3>5 DEF Begin, agentVars
      <3>6. UNCHANGED vars => UNCHANGED listed
        BY DEF vars, agentVars
      <3> QED
        BY <1>2, <3>1, <3>2, <3>3, <3>4, <3>5, <3>6 DEF Next
    <2> QED
      BY <2>1, <2>2, <2>3, <2>4
  <1> QED
    BY <1>1, <1>2, AccountInvariant, PTL DEF Spec

-----------------------------------------------------------------------------
(* An account id that is looked up is the only one it could be *)

\* The caller reads, or stores, pages of accounts to choose an id from.
Lists(c) ==
  /\ pc[c] \in {"listing", "storing", "persisting", "committing"}
  /\ Agent(c).mode = "operator_authorized"

\* What UniqueChoice says of one caller.
Unique(c) ==
  (/\ pc[c] = "granted" /\ ref[c] \in Ids /\ Pinned = NoId
   /\ pages[c] < MaxPages \/ ~More(c)) =>
    {i \in steady[c] : /\ owned[i].brand = call[c].brand
                       /\ Sandbox => "sandbox" \in owned[i].with} \subseteq {ref[c]}

\* Accounts that are steady are active and as they were: whoever looks for an
\* account id has yet to be shown each of them, or has found it.
Choice(c) ==
  /\ IsFiniteSet(found[c])
  /\ \A i \in steady[c] : i \in Active
  /\ pc[c] = "syncing" => Agent(c).mode # "operator_authorized"
  /\ Lists(c) =>
       /\ pages[c] # 0
       /\ \A i \in steady[c] : i \in left[c] \/ \E x \in found[c] : x.account = owned[i]
  /\ Unique(c)

Choices == \A c \in Callers : Choice(c)

\* A step of this caller, which leaves the others and the seller alone.
Own(c) ==
  /\ UNCHANGED sellerVars
  /\ \A d \in Callers : d # c =>
       /\ pc'[d] = pc[d] /\ call'[d] = call[d] /\ left'[d] = left[d] /\ ref'[d] = ref[d]
       /\ pages'[d] = pages[d] /\ found'[d] = found[d] /\ steady'[d] = steady[d]

LEMMA OwnKeeps ==
  ASSUME Choices, NEW c \in Callers, Own(c), Choice(c)'
  PROVE  Choices'
  <1> SUFFICES ASSUME NEW d \in Callers, d # c
               PROVE  Choice(d)'
    BY DEF Choices
  <1>1. Choice(d) /\ owned' = owned
    BY DEF Choices, Own, sellerVars
  <1>2. /\ pc'[d] = pc[d] /\ call'[d] = call[d] /\ left'[d] = left[d] /\ ref'[d] = ref[d]
        /\ pages'[d] = pages[d] /\ found'[d] = found[d] /\ steady'[d] = steady[d]
    BY DEF Own
  <1>3. Active' = Active /\ Shown' = Shown
    BY <1>1 DEF Active, Shown
  <1>4. Unique(d)'
    BY <1>1, <1>2, <1>3 DEF Choice, Unique, More
  <1> QED
    BY <1>1, <1>2, <1>3, <1>4 DEF Choice, Lists, Agent

LEMMA ReturnChooses ==
  ASSUME IInv, Choices, NEW c \in Callers, Return(c), UNCHANGED sellerVars
  PROVE  Choices'
  <1>1. Own(c) /\ pc'[c] = "idle" /\ found'[c] = {} /\ steady'[c] = {}
    BY DEF Return, Set, IInv, TypeOK, Own
  <1>2. Choice(c)'
    BY <1>1, FS_EmptySet DEF Choice, Lists, Unique
  <1> QED
    BY <1>1, <1>2, OwnKeeps

LEMMA GrantChooses ==
  ASSUME IInv, Choices, NEW c \in Callers, NEW reference, Grant(c, reference),
         UNCHANGED sellerVars,
         (/\ reference \in Ids /\ Pinned = NoId
          /\ pages[c] < MaxPages \/ ~More(c)) =>
           {i \in steady[c] : /\ owned[i].brand = call[c].brand
                              /\ Sandbox => "sandbox" \in owned[i].with}
             \subseteq {reference}
  PROVE  Choices'
  <1>1. /\ Own(c) /\ pc'[c] = "granted" /\ ref'[c] = reference
        /\ UNCHANGED <<call, listVars, owned>>
    BY DEF Grant, Set, IInv, TypeOK, Own, listVars, sellerVars
  <1>2. Active' = Active /\ Shown' = Shown
    BY <1>1 DEF Active, Shown
  <1>3. Unique(c)'
    BY <1>1, <1>2 DEF Unique, More, listVars
  <1>4. Choice(c)'
    BY <1>1, <1>2, <1>3 DEF Choices, Choice, Lists, listVars
  <1> QED
    BY <1>1, <1>4, OwnKeeps

LEMMA ListChooses ==
  ASSUME IInv, Choices, NEW c \in Callers, NEW ids, List(c, ids), UNCHANGED sellerVars,
         pc[c] = "begun", Agent(c).mode = "operator_authorized" => ids = Ids
  PROVE  Choices'
  <1>1. /\ Own(c) /\ pc'[c] = "listing" /\ left'[c] = ids /\ pages'[c] = 1
        /\ steady'[c] = Active /\ UNCHANGED <<call, found, ref, owned>>
    BY DEF List, Set, IInv, TypeOK, Own, sellerVars
  <1>2. Active' = Active /\ Active \subseteq Ids
    BY <1>1 DEF Active, Shown
  <1>3. Choice(c)'
    BY <1>1, <1>2 DEF Choices, Choice, Lists, Unique, Agent
  <1> QED
    BY <1>1, <1>3, OwnKeeps

LEMMA SyncChooses ==
  ASSUME IInv, Choices, NEW c \in Callers, Sync(c), UNCHANGED sellerVars,
         Agent(c).mode = "buyer_declared"
  PROVE  Choices'
  <1>1. Own(c) /\ pc'[c] = "syncing" /\ UNCHANGED <<call, listVars, owned>>
    BY DEF Sync, Set, IInv, TypeOK, Own, sellerVars, listVars
  <1>2. Active' = Active
    BY <1>1 DEF Active, Shown
  <1>3. Choice(c)'
    BY <1>1, <1>2 DEF Choices, Choice, Lists, Unique, Agent, listVars
  <1> QED
    BY <1>1, <1>3, OwnKeeps

\* Keys are no ids.
LEMMA KeyGrantChooses ==
  ASSUME IInv, Choices, NEW c \in Callers, pc[c] # "idle", Grant(c, KeyOf(c)),
         ~KeyRefused(Agent(c)), UNCHANGED sellerVars
  PROVE  Choices'
  <1>1. KeyOf(c) \in Keys
    BY KeyOfIsKey DEF IInv, Shaped
  <1>2. KeyOf(c) \notin Ids
    BY <1>1, AccountAssumption
  <1> QED
    BY <1>2, GrantChooses

-----------------------------------------------------------------------------
(* Each step of a caller *)

LEMMA BeginChooses ==
  ASSUME IInv, Choices, NEW c \in Callers, NEW kind, NEW agent, NEW brand,
         Begin(c, kind, agent, brand)
  PROVE  Choices'
  <1>1. /\ Own(c) /\ pc'[c] = "begun" /\ UNCHANGED <<listVars, owned>>
    BY DEF Begin, Set, IInv, TypeOK, Own, sellerVars, listVars
  <1>2. Active' = Active
    BY <1>1 DEF Active, Shown
  <1>3. Choice(c)'
    BY <1>1, <1>2 DEF Choices, Choice, Lists, Unique, listVars
  <1> QED
    BY <1>1, <1>3, OwnKeeps

LEMMA ResolveChooses ==
  ASSUME IInv, Choices, NEW c \in Callers, Resolve(c)
  PROVE  Choices'
  <1>1. pc[c] = "begun" /\ UNCHANGED sellerVars
    BY DEF Resolve, ResolveKey, ResolveId, ResolveForSearch, AskAccounts
  <1>2. CASE Return(c)
    BY <1>1, <1>2, ReturnChooses
  <1>3. CASE Grant(c, KeyOf(c)) /\ ~KeyRefused(Agent(c))
    BY <1>1, <1>3, KeyGrantChooses
  <1>4. CASE Grant(c, Pinned) /\ Pinned # NoId
    BY <1>1, <1>4, GrantChooses
  <1>5. CASE Grant(c, NoRef)
    <2>1. NoRef \notin Ids
      BY AccountAssumption DEF StorageKeys
    <2> QED
      BY <1>1, <1>5, <2>1, GrantChooses
  <1>6. CASE Sync(c) /\ MaySync(c)
    BY <1>1, <1>6, SyncChooses DEF MaySync
  <1>7. CASE List(c, OfBrand(c)) /\ Agent(c).mode = "buyer_declared"
    BY <1>1, <1>7, ListChooses
  <1>8. CASE List(c, Ids)
    BY <1>1, <1>8, ListChooses
  <1>9. ResolveKey(c) => \/ Return(c)
                         \/ Grant(c, KeyOf(c)) /\ ~KeyRefused(Agent(c))
                         \/ Sync(c) /\ MaySync(c)
                         \/ List(c, OfBrand(c)) /\ Agent(c).mode = "buyer_declared"
    BY DEF ResolveKey, Fails, Answers, MayProvision
  <1>10. ResolveId(c) => \/ Return(c) \/ List(c, Ids)
                         \/ Grant(c, Pinned) /\ Pinned # NoId
    BY DEF ResolveId, Fails, Answers
  <1>11. ResolveForSearch(c) => \/ Grant(c, NoRef)
                                \/ Grant(c, Pinned) /\ Pinned # NoId
                                \/ Grant(c, KeyOf(c)) /\ ~KeyRefused(Agent(c))
    BY DEF ResolveForSearch
  <1>12. AskAccounts(c) => \/ Return(c) \/ List(c, Ids)
                           \/ Sync(c) /\ MaySync(c)
    BY DEF AskAccounts, Fails
  <1> QED
    BY <1>2, <1>3, <1>4, <1>5, <1>6, <1>7, <1>8, <1>9, <1>10, <1>11, <1>12 DEF Resolve

\* A caller that goes on storing has found what it had, and awaits no less.
LEMMA StoringChooses ==
  ASSUME IInv, Choices, NEW c \in Callers,
         Remember(c, row'[c]) \/ ReadRow(c) \/ Commit(c) \/ NextPage(c)
  PROVE  Choices'
  <1>1. pc[c] \in {"storing", "persisting", "committing"}
    BY DEF Remember, ReadRow, Commit, NextPage, Stored
  <1>2. /\ Own(c) /\ pc'[c] \in {"listing", "storing", "persisting", "committing"}
        /\ UNCHANGED <<call, left, found, steady, owned, ref>>
    BY DEF Remember, ReadRow, Commit, NextPage, Set, IInv, TypeOK, Own, sellerVars
  <1>3. pages[c] # 0 => pages'[c] # 0
    BY DEF Remember, ReadRow, Commit, NextPage, IInv, TypeOK
  <1>4. Active' = Active
    BY <1>2 DEF Active, Shown
  <1>5. Choice(c)'
    BY <1>1, <1>2, <1>3, <1>4 DEF Choices, Choice, Lists, Unique, Agent
  <1> QED
    BY <1>2, <1>5, OwnKeeps

LEMMA RememberChooses ==
  ASSUME IInv, Choices, NEW c \in Callers, NEW item, Remember(c, item)
  PROVE  Choices'
  <1>1. row'[c] = item
    BY DEF Remember, Set, IInv, TypeOK
  <1> QED
    BY <1>1, StoringChooses

\* The only account found, or the only one of the brand, is any that was
\* active all the while.
LEMMA ChosenIsOnly ==
  ASSUME IInv, NEW c \in Callers, Choice(c), Ended(c),
         Agent(c).mode = "operator_authorized", NEW a \in Chosen(c),
         pages[c] < MaxPages \/ ~More(c)
  PROVE  {i \in steady[c] : /\ owned[i].brand = call[c].brand
                            /\ Sandbox => "sandbox" \in owned[i].with} \subseteq {a.id}
  <1> SUFFICES ASSUME NEW i \in steady[c], owned[i].brand = call[c].brand,
                      Sandbox => "sandbox" \in owned[i].with
               PROVE  i = a.id
    OBVIOUS
  <1>1. Lists(c)
    BY DEF Ended, Stored, Lists
  <1>2. i \in Active /\ i \in Ids /\ owned[i].status = "active"
    BY DEF Choice, Active, Shown
  <1>3. ~More(c)
    BY <1>1, AccountAssumption DEF Ended, Choice, Lists, IInv, TypeOK
  <1>4. i \notin left[c]
    BY <1>2, <1>3 DEF More, Active
  <1>5. PICK x \in found[c] : x.account = owned[i]
    BY <1>1, <1>4 DEF Choice
  <1>6. owned[i] \in Candidates(c)
    BY <1>2, <1>5 DEF Candidates
  <1>7. a = owned[i]
    <2>1. CASE Cardinality(found[c]) = 1
      <3>1. PICK y : found[c] = {y}
        BY <2>1, FS_Singleton DEF Choice
      <3> QED
        BY <1>5, <3>1 DEF Chosen, Candidates
    <2>2. CASE {b \in Candidates(c) : b.brand = call[c].brand} = {a}
      BY <1>6, <2>2
    <2> QED
      BY <2>1, <2>2 DEF Chosen
  <1> QED
    BY <1>2, <1>7 DEF IInv, OwnedSaid, Active, Shown

LEMMA ConcludeChooses ==
  ASSUME IInv, Choices, NEW c \in Callers, Conclude(c)
  PROVE  Choices'
  <1>1. /\ pc[c] # "idle" /\ Ended(c) /\ UNCHANGED sellerVars /\ Choice(c)
    BY DEF Conclude, Ended, Stored, Choices
  <1>2. CASE Return(c)
    BY <1>1, <1>2, ReturnChooses
  <1>3. ASSUME NEW a \in Chosen(c), Grant(c, a.id), Agent(c).mode = "operator_authorized"
        PROVE  Choices'
    BY <1>1, <1>3, ChosenIsOnly, GrantChooses
  <1>4. CASE Grant(c, KeyOf(c))
    <2>1. KeyOf(c) \notin Ids
      BY <1>1, KeyOfIsKey DEF IInv, Shaped
    <2> QED
      BY <1>1, <1>4, <2>1, GrantChooses
  <1> QED
    BY <1>2, <1>3, <1>4 DEF Conclude

-----------------------------------------------------------------------------
(* The seller, discoveries and crashes *)

LEMMA SellerListsChooses ==
  ASSUME IInv, Choices, NEW c \in Callers, SellerLists(c)
  PROVE  Choices'
  <1> DEFINE item(i) == [key |-> ListedKey(Agent(c), owned[i]), account |-> owned[i],
                         exists |-> FALSE]
             items(page) == {item(i) : i \in page}
  <1>1. PICK page \in SUBSET (left[c] \cap Shown) :
          found' = Set(found, c, found[c] \cup items(page))
          /\ left' = Set(left, c, left[c] \ page)
    BY DEF SellerLists
  <1>2. /\ Own(c) /\ pc[c] = "listing" /\ pc'[c] = "storing"
        /\ UNCHANGED <<call, pages, steady, owned, ref>>
    BY DEF SellerLists, Set, IInv, TypeOK, Own, sellerVars
  <1>3. found'[c] = found[c] \cup items(page) /\ left'[c] = left[c] \ page
    BY <1>1 DEF Set, IInv, TypeOK
  <1>4. IsFiniteSet(items(page))
    <2>1. IsFiniteSet(page)
      BY AccountAssumption, FS_Subset DEF IInv, TypeOK
    <2> DEFINE shows == [i \in page |-> item(i)]
    <2>2. shows \in Surjection(page, items(page))
      BY DEF Surjection
    <2> QED
      BY <2>1, <2>2, FS_Surjection
  <1>5. IsFiniteSet(found'[c])
    <2> HIDE DEF items
    <2>1. IsFiniteSet(found[c])
      BY DEF Choices, Choice
    <2>2. IsFiniteSet(found[c] \cup items(page))
      BY <1>4, <2>1, FS_Union
    <2> QED
      BY <1>3, <2>2
  <1>6. \A i \in page : \E x \in found'[c] : x.account = owned[i]
    <2> TAKE i \in page
    <2>1. item(i) \in found'[c]
      BY <1>3
    <2> QED
      BY <2>1
  <1>7. Active' = Active
    BY <1>2 DEF Active, Shown
  <1>8. Choice(c)'
    BY <1>2, <1>3, <1>5, <1>6, <1>7 DEF Choices, Choice, Lists, Unique, Agent
  <1> QED
    BY <1>2, <1>8, OwnKeeps

\* The seller opens or changes an account that was not active: those that stay
\* steady stay as they are, and no id is taken back.
LEMMA OwnsChooses ==
  ASSUME IInv, Choices, NEW account \in Accounts, Owns(account),
         \/ owned[account.id] = account
         \/ account.id \notin Active
         \/ account.status # "active",
         UNCHANGED <<call, left, pages, ref>>,
         NEW D \in SUBSET Callers,
         \A d \in D : pc'[d] = pc[d] /\ found'[d] = found[d]
  PROVE  \A d \in D : Choice(d)'
  <1>1. /\ account.id \in Ids
        /\ \A i \in Ids : owned'[i] = IF i = account.id THEN account ELSE owned[i]
        /\ \A d \in Callers : steady'[d] = IF account.status = "active" THEN steady[d]
                                           ELSE steady[d] \ {account.id}
    BY DEF Owns, Accounts, IInv, TypeOK
  <1>2. account # NoAccount
    BY AccountAssumption
  <1>3. \A i \in Shown : i \in Shown'
    BY <1>1, <1>2 DEF Shown
  <1> SUFFICES ASSUME NEW d \in D PROVE Choice(d)'
    OBVIOUS
  <1>4. Choice(d) /\ d \in Callers
    BY DEF Choices
  <1>5. \A i \in steady'[d] : i \in steady[d] /\ i \in Ids /\ owned'[i] = owned[i]
    <2> SUFFICES ASSUME NEW i \in steady'[d]
                 PROVE  i \in steady[d] /\ i \in Ids /\ owned'[i] = owned[i]
      OBVIOUS
    <2>1. i \in steady[d] /\ i \in Active /\ i \in Ids
      BY <1>1, <1>4 DEF Choice, Active, Shown
    <2>2. CASE i = account.id
      BY <1>1, <1>4, <2>1, <2>2
    <2> QED
      BY <1>1, <2>1, <2>2
  <1>6. \A i \in steady'[d] : i \in Active'
    BY <1>3, <1>4, <1>5 DEF Choice, Active
  <1>7. ~More(d)' => ~More(d)
    BY <1>3 DEF More
  <1>8. Unique(d)'
    BY <1>4, <1>5, <1>7 DEF Choice, Unique
  <1>9. Lists(d)' => Lists(d)
    BY DEF Lists, Agent
  <1> QED
    BY <1>4, <1>5, <1>6, <1>8, <1>9 DEF Choice, Lists, Agent

LEMMA SellerChangesChooses ==
  ASSUME IInv, Choices, NEW account \in Accounts, SellerChanges(account)
  PROVE  Choices'
  <1>1. /\ Owns(account) /\ UNCHANGED <<pc, found, call, left, pages, ref>>
    BY DEF SellerChanges
  <1>2. \/ owned[account.id] = account
        \/ account.id \notin Active
        \/ account.status # "active"
    <2>1. CASE account.id \in Unused
      <3>1. \E i \in Ids : i \notin Shown
        BY <2>1 DEF Unused, Shown
      <3>2. account.id \notin Shown
        BY <2>1, <3>1 DEF Unused
      <3> QED
        BY <3>2 DEF Active
    <2>2. CASE /\ owned[account.id] # account
               /\ owned[account.id] \in {[account EXCEPT !.status = s] : s \in Statuses}
      <3>1. PICK s \in Statuses : owned[account.id] = [account EXCEPT !.status = s]
        BY <2>2
      <3>2. account.status = s => owned[account.id] = account
        BY <3>1 DEF Accounts
      <3>3. owned[account.id].status = s
        BY <3>1 DEF Accounts
      <3> QED
        BY <2>2, <3>2, <3>3 DEF Active
    <2> QED
      BY <2>1, <2>2 DEF SellerChanges
  <1> QED
    BY <1>1, <1>2, OwnsChooses DEF Choices

LEMMA SellerSyncsChooses ==
  ASSUME IInv, Choices, NEW c \in Callers, SellerSyncs(c)
  PROVE  Choices'
  <1>1. PICK account \in Provided(c) :
          /\ Owns(account)
          /\ found' = Set(found, c, {[key |-> KeyOf(c), account |-> account,
                                      exists |-> FALSE]})
    BY DEF SellerSyncs
  <1>2. /\ pc[c] = "syncing" /\ pc' = Set(pc, c, "storing")
        /\ UNCHANGED <<call, left, pages, ref>>
    BY DEF SellerSyncs
  <1>3. call[c] \in Calls
    BY <1>2 DEF IInv, Shaped
  <1>4. account \in Accounts /\ (owned[account.id] = account \/ account.id \notin Active)
    <2> DEFINE old == {owned[i] : i \in {j \in Shown : owned[j].brand = call[c].brand}}
    <2>1. CASE old # {}
      <3>1. account \in old
        BY <1>1, <2>1 DEF Provided
      <3>2. PICK i \in Shown : account = owned[i]
        BY <3>1
      <3> QED
        BY <3>2 DEF Shown, IInv, TypeOK, OwnedSaid
    <2>2. CASE old = {}
      <3>1. account \in [id : Unused, brand : {call[c].brand}, status : Statuses,
                         with : {KeyOf(c).with \cup Echoed}]
        BY <1>1, <2>2 DEF Provided
      <3>2. \E i \in Ids : i \notin Shown
        BY <3>1 DEF Unused, Shown
      <3>3. account.id \in Ids /\ account.id \notin Shown
        BY <3>1, <3>2 DEF Unused
      <3>4. KeyOf(c).with \cup Echoed \subseteq Extras
        BY <1>3, KeyOfIsKey, AccountAssumption DEF Keys
      <3>5. call[c].brand \in Brands
        BY <1>3 DEF Calls
      <3> QED
        BY <3>1, <3>3, <3>4, <3>5 DEF Accounts, Active
    <2> QED
      BY <2>1, <2>2
  <1> DEFINE others == Callers \ {c}
  <1>5. \A d \in others : pc'[d] = pc[d] /\ found'[d] = found[d]
    BY <1>1, <1>2 DEF Set, IInv, TypeOK
  <1>6. \A d \in others : Choice(d)'
    BY <1>1, <1>2, <1>4, <1>5, OwnsChooses
  <1>7. pc'[c] = "storing" /\ Agent(c)'.mode # "operator_authorized"
    BY <1>2 DEF Set, IInv, TypeOK, Choices, Choice, Agent
  <1>8. IsFiniteSet(found'[c])
    <2>1. found'[c] = {[key |-> KeyOf(c), account |-> account, exists |-> FALSE]}
      BY <1>1 DEF Set, IInv, TypeOK
    <2> QED
      BY <2>1, FS_Singleton
  <1>9. \A i \in steady'[c] : i \in Active'
    <2>1. /\ account.id \in Ids
          /\ \A i \in Ids : owned'[i] = IF i = account.id THEN account ELSE owned[i]
          /\ steady'[c] = IF account.status = "active" THEN steady[c]
                          ELSE steady[c] \ {account.id}
      BY <1>1, <1>4 DEF Owns, Accounts, IInv, TypeOK
    <2>2. \A i \in steady[c] : i \in Active
      BY DEF Choices, Choice
    <2>3. account # NoAccount
      BY <1>4, AccountAssumption
    <2> QED
      BY <1>4, <2>1, <2>2, <2>3 DEF Active, Shown
  <1>10. Choice(c)'
    BY <1>7, <1>8, <1>9 DEF Choice, Lists, Unique
  <1> QED
    BY <1>6, <1>10 DEF Choices

\* Before anybody is called there is nothing to choose.
LEMMA IdleChooses ==
  ASSUME \A c \in Callers : pc[c] = "idle" /\ found[c] = {} /\ steady[c] = {}
  PROVE  Choices
  BY FS_EmptySet DEF Choices, Choice, Lists, Unique

LEMMA RestartChooses ==
  ASSUME Restart
  PROVE  Choices'
  <1>1. \A c \in Callers : pc'[c] = "idle" /\ found'[c] = {} /\ steady'[c] = {}
    BY DEF Restart
  <1> QED
    BY <1>1, FS_EmptySet DEF Choices, Choice, Lists, Unique

LEMMA IdleStepChooses ==
  ASSUME Choices, UNCHANGED <<sellerVars, pc, call, listVars, ref>>
  PROVE  Choices'
  <1>1. Active' = Active /\ Shown' = Shown
    BY DEF Active, Shown, sellerVars
  <1> QED
    BY <1>1 DEF Choices, Choice, Lists, Unique, More, Agent, sellerVars, listVars

LEMMA NextChooses ==
  ASSUME IInv, Choices, [Next]_vars
  PROVE  Choices'
  <1>1. CASE \E c \in Callers, kind \in Kinds, agent \in listed, brand \in Brands :
               Begin(c, kind, agent, brand)
    BY <1>1, BeginChooses
  <1>2. ASSUME NEW c \in Callers, Step(c)
        PROVE  Choices'
    <2>1. CASE Collides(c) \/ Send(c)
      BY <2>1, ReturnChooses DEF Collides, Send
    <2> QED
      BY <1>2, <2>1, ResolveChooses, RememberChooses, StoringChooses, ConcludeChooses
         DEF Step, Store
  <1>3. ASSUME NEW c \in Callers, SellerAnswers(c)
        PROVE  Choices'
    BY <1>3, SellerListsChooses, SellerSyncsChooses DEF SellerAnswers
  <1>4. ASSUME NEW c \in Callers, CallFails(c) \/ PersistFails(c)
        PROVE  Choices'
    BY <1>4, ReturnChooses DEF CallFails, PersistFails
  <1>5. ASSUME NEW account \in Accounts, SellerChanges(account)
        PROVE  Choices'
    BY <1>5, SellerChangesChooses
  <1>6. CASE Discover
    BY <1>6, IdleStepChooses DEF Discover
  <1>7. CASE UNCHANGED vars
    BY <1>7, IdleStepChooses DEF vars
  <1> QED
    BY <1>1, <1>2, <1>3, <1>4, <1>5, <1>6, <1>7, RestartChooses DEF Next

\* An account id that is not pinned is the only one it could be
\* (_resolve_account_id).
THEOREM AccountChoiceUnique == Spec => []UniqueChoice
  <1>1. Init => Choices
    <2>1. Init => \A c \in Callers : pc[c] = "idle" /\ found[c] = {} /\ steady[c] = {}
      BY DEF Init
    <2> QED
      BY <2>1, IdleChooses
  <1>2. Choices => UniqueChoice
    BY DEF Choices, Choice, Unique, UniqueChoice
  <1> QED
    BY <1>1, <1>2, NextChooses, AccountInvariant, PTL DEF Spec

=============================================================================
