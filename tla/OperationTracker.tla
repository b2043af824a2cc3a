-------------------------- MODULE OperationTracker --------------------------
(***************************************************************************)
(* OperationTracker (src/buying/tracker.py): the operations in memory, the *)
(* rows they are persisted to, and the operations on both.                 *)
(*                                                                         *)
(* Memory changes in one step, between two awaits of a coroutine.  A       *)
(* persist is three: it awaits the row, copies the live operation into it, *)
(* and awaits the commit; other coroutines run in between.  The module     *)
(* BuyingSystem says which coroutine does what when.                       *)
(***************************************************************************)
EXTENDS Naturals

CONSTANTS
  Ops,       \* operation ids
  Workers,   \* coroutines that may be persisting an operation
  NoRecord   \* no such operation, no such row

VARIABLES
  mem,   \* tracker._operations
  db,    \* the committed rows of table operations
  row,   \* per worker: the attributes its session is about to flush
  base,  \* per worker: the row as its session loaded it
  events \* the committed rows of table webhook_events

trackerVars == <<mem, db, row, base, events>>

\* The statuses a seller reports, and those only this agent gives.  "rejected"
\* stands for canceled too, "unknown" for auth-required: no code tells them
\* apart.
SellerStatus ==
  {"submitted", "working", "input-required", "completed", "rejected"}
TaskStatus == SellerStatus \cup {"pending", "failed", "unknown"}

\* What is tracked of an operation: whether the seller's task id is known,
\* and whether request_data holds the account the buy was made under.
Records == [status : TaskStatus, task : BOOLEAN, account : BOOLEAN]

-----------------------------------------------------------------------------
(* Memory.  Here and in BuyingSystem, X_Something is X with a plausible    *)
(* bug, which a check must notice.                                         *)

NewRecord == [status |-> "pending", task |-> FALSE, account |-> FALSE]

Tracked(o) == mem[o] # NoRecord

\* What update_from_response makes of the status text of a response.
\* "garbled" is any response without a status it recognises, "errors" one
\* that has an error or errors key instead.
Replies == SellerStatus \cup {"garbled", "errors"}

StatusOf_Verbatim(s) == IF s = "errors" THEN "failed" ELSE s

StatusOf_Optimistic(s) ==
  IF s = "errors" THEN "failed" ELSE IF s = "garbled" THEN "completed" ELSE s

StatusOf(s) ==
  IF s = "errors" THEN "failed" ELSE IF s = "garbled" THEN "unknown" ELSE s

\* No look at the current status: whatever arrives last wins.
UpdateFromResponse(o, s, hasTask) ==
  mem' = [mem EXCEPT ![o].status = StatusOf(s), ![o].task = @ \/ hasTask]

MarkFailed(o) == mem' = [mem EXCEPT ![o].status = "failed"]

NeedsPolling(o) == Tracked(o) /\ mem[o].status \in {"submitted", "working"}

Pending_Submitted == {o \in Ops : Tracked(o) /\ mem[o].status = "submitted"}

\* get_pending
Pending == {o \in Ops : NeedsPolling(o)}

-----------------------------------------------------------------------------
(* Persistence. *)

\* session.get has returned: the live operation is copied into the row.
CopyToRow(w, o) ==
  /\ row' = [row EXCEPT ![w] = mem[o]]
  /\ base' = [base EXCEPT ![w] = db[o]]

\* The flush inserts a new row, or updates the columns that were changed.
Flushed(w, o) ==
  IF base[w] = NoRecord
  THEN row[w]
  ELSE [k \in DOMAIN db[o] |->
          IF row[w][k] # base[w][k] THEN row[w][k] ELSE db[o][k]]

\* session.commit
CommitRow(w, o) == db' = [db EXCEPT ![o] = Flushed(w, o)]

ReleaseRow(w) ==
  /\ row' = [row EXCEPT ![w] = NoRecord]
  /\ base' = [base EXCEPT ![w] = NoRecord]

\* init_db
LoadAll == mem' = db

InitTracker ==
  /\ mem = [o \in Ops |-> NoRecord]
  /\ db = [o \in Ops |-> NoRecord]
  /\ row = [w \in Workers |-> NoRecord]
  /\ base = [w \in Workers |-> NoRecord]
  /\ events = {}

TrackerTypeOK ==
  /\ mem \in [Ops -> Records \cup {NoRecord}]
  /\ db \in [Ops -> Records \cup {NoRecord}]
  /\ row \in [Workers -> Records \cup {NoRecord}]
  /\ base \in [Workers -> Records \cup {NoRecord}]

=============================================================================
