---------------------------- MODULE BuyingSystem ----------------------------
(***************************************************************************)
(* Everything that moves an operation, around the tracker: the buys        *)
(* (BuyingOrchestrator.buy, and update_media_buy_op and sync_creatives_op, *)
(* which change a buy), the pollers (BackgroundPoller and                  *)
(* poll_pending_operations), the webhook receiver, the humans answering an *)
(* input-required operation (provide_input), the seller, and crashes.      *)
(*                                                                         *)
(* A worker is one coroutine.  Each of its steps runs from one await to    *)
(* the next; between them any other worker, the seller or a crash may run. *)
(***************************************************************************)
EXTENDS OperationTracker, FiniteSets

CONSTANTS
  Buyers,         \* coroutines in buy, update_media_buy_op, sync_creatives_op
  Background,     \* the BackgroundPoller's task
  ApiPollers,     \* coroutines in poll_pending_operations
  Handlers,       \* coroutines in receive_webhook
  Humans,         \* coroutines in provide_input
  Webhooks,       \* settings.webhook_base_url is set: buys ask for webhooks
  NoOp,           \* a worker that has no operation
  MaxSeq,         \* bound: status changes of one task at the seller
  MaxCrashes      \* bound: crashes of this process

ASSUME WorkersAssumption ==
  /\ Workers = Buyers \cup Background \cup ApiPollers \cup Handlers \cup Humans
  /\ Buyers \cap (Background \cup ApiPollers \cup Handlers \cup Humans) = {}
  /\ Background \cap (ApiPollers \cup Handlers \cup Humans) = {}
  /\ ApiPollers \cap (Handlers \cup Humans) = {}
  /\ Handlers \cap Humans = {}
  /\ Webhooks \in BOOLEAN
  /\ NoOp \notin Ops
  /\ NoRecord \notin Records
  /\ MaxSeq \in Nat \ {0}
  /\ MaxCrashes \in Nat

VARIABLES
  phase,    \* "serving", "down", or "starting": in lifespan, before its yield
  crashes,
  pc,       \* where a worker is
  then,     \* where it goes on after the persist it is in
  target,   \* its operation
  reply,    \* the response or event it holds
  batch,    \* a poller's snapshot of get_pending, what is left of it
  sent,     \* operations whose request has gone out to the seller
  task,     \* the seller's task of each operation
  hooks,    \* webhooks the seller wants delivered
  acked,    \* of these, the ones that were answered with 2xx
  applied   \* of these, the ones update_from_response was called for (history)

sellerVars == <<task, hooks>>
workerVars == <<pc, then, target, reply, row, base>>
vars == <<mem, db, events, workerVars, phase, crashes, batch, sent, sellerVars,
          acked, applied>>

Pollers == Background \cup ApiPollers

NoTask == [status |-> "none", seq |-> 0]
NoReply == [status |-> "none", task |-> FALSE, seq |-> 0]
Tasks == [status : SellerStatus, seq : 1 .. MaxSeq]
Messages == [status : Replies, task : BOOLEAN, seq : 0 .. MaxSeq]
Events == [op : Ops, status : Replies, seq : 1 .. MaxSeq]

TypeOK ==
  /\ TrackerTypeOK
  /\ events \subseteq Ops \X (0 .. MaxSeq)
  /\ phase \in {"serving", "down", "starting"}
  /\ crashes \in 0 .. MaxCrashes
  /\ pc \in [Workers -> {"idle", "prepare", "send", "out", "asked", "answered",
                         "dedup", "record", "apply", "save", "commit"}]
  /\ then \in [Workers -> {"idle", "prepare", "send"}]
  /\ target \in [Workers -> Ops \cup {NoOp}]
  /\ reply \in [Workers -> Messages \cup {NoReply}]
  /\ batch \in [Pollers -> SUBSET Ops]
  /\ sent \subseteq Ops
  /\ task \in [Ops -> Tasks \cup {NoTask}]
  /\ acked \subseteq hooks /\ applied \subseteq hooks /\ hooks \subseteq Events

Init ==
  /\ InitTracker
  /\ phase = "serving"
  /\ crashes = 0
  /\ pc = [w \in Workers |-> "idle"]
  /\ then = [w \in Workers |-> "idle"]
  /\ target = [w \in Workers |-> NoOp]
  /\ reply = [w \in Workers |-> NoReply]
  /\ batch = [w \in Pollers |-> {}]
  /\ sent = {}
  /\ task = [o \in Ops |-> NoTask]
  /\ hooks = {} /\ acked = {} /\ applied = {}

-----------------------------------------------------------------------------
(* Workers. *)

GoTo(w, label) == pc' = [pc EXCEPT ![w] = label]

\* The coroutine returns, or dies of an exception nobody catches.
Leave(w) ==
  /\ GoTo(w, "idle")
  /\ then' = [then EXCEPT ![w] = "idle"]
  /\ target' = [target EXCEPT ![w] = NoOp]
  /\ reply' = [reply EXCEPT ![w] = NoReply]
  /\ ReleaseRow(w)

\* Await tracker._persist, then go on at the label cont.  Buyers and pollers
\* have no more use for the answer they got.
Persist(w, cont) ==
  /\ GoTo(w, "save")
  /\ then' = [then EXCEPT ![w] = cont]
  /\ reply' = IF w \in Buyers \cup Pollers
              THEN [reply EXCEPT ![w] = NoReply] ELSE reply
  /\ UNCHANGED <<target, row, base>>

Copy(w) ==
  /\ pc[w] = "save"
  /\ CopyToRow(w, target[w])
  /\ GoTo(w, "commit")
  /\ UNCHANGED <<mem, db, events, then, target, reply, phase, crashes, batch,
                 sent, sellerVars, acked, applied>>

\* The webhook's sender gets its 2xx once the handler returns.
Ack(w) ==
  acked' = IF w \in Handlers
           THEN acked \cup {e \in hooks : e.op = target[w] /\ e.seq = reply[w].seq}
           ELSE acked

Commit(w) ==
  /\ pc[w] = "commit"
  /\ CommitRow(w, target[w])
  /\ IF then[w] = "idle"
     THEN Leave(w) /\ Ack(w)
     ELSE /\ GoTo(w, then[w])
          /\ ReleaseRow(w)
          /\ UNCHANGED <<then, target, reply, acked>>
  /\ UNCHANGED <<mem, events, phase, crashes, batch, sent, sellerVars, applied>>

\* The database refuses.  provide_input catches that, and marks the operation
\* failed; the other workers die (a poller: goes on with its next operation).
PersistFails(w) ==
  /\ pc[w] \in {"save", "commit"}
  /\ \/ /\ w \in Humans /\ reply[w] # NoReply
        /\ MarkFailed(target[w])
        /\ GoTo(w, "save")
        /\ reply' = [reply EXCEPT ![w] = NoReply]
        /\ ReleaseRow(w)
        /\ UNCHANGED <<then, target>>
     \/ /\ ~(w \in Humans /\ reply[w] # NoReply)
        /\ Leave(w)
        /\ UNCHANGED mem
  /\ UNCHANGED <<db, events, phase, crashes, batch, sent, sellerVars, acked,
                 applied>>

-----------------------------------------------------------------------------
(* BuyingOrchestrator.buy, update_media_buy_op and sync_creatives_op *)

\* tracker.create: in memory at once, then persisted.
Create(w, o, record, cont) ==
  /\ phase = "serving"
  /\ pc[w] = "idle"
  /\ ~Tracked(o) /\ db[o] = NoRecord
  /\ mem' = [mem EXCEPT ![o] = record]
  /\ GoTo(w, "save")
  /\ then' = [then EXCEPT ![w] = cont]
  /\ target' = [target EXCEPT ![w] = o]
  /\ UNCHANGED <<db, events, row, base, reply, phase, crashes, batch, sent,
                 sellerVars, acked, applied>>

BeginBuy(w, o) == Create(w, o, NewRecord, "prepare")

\* A change of an existing buy knows its account from the start.
BeginUpdate(w, o) ==
  Create(w, o, [NewRecord EXCEPT !.account = TRUE], "send")

Prepare_NoPersist(w) ==
  /\ pc[w] = "prepare"
  /\ mem' = [mem EXCEPT ![target[w]].account = TRUE]
  /\ GoTo(w, "send")
  /\ UNCHANGED <<db, events, then, target, reply, row, base, phase, crashes,
                 batch, sent, sellerVars, acked, applied>>

\* _prepare_create_media_buy got through every authorization check.
Prepare(w) ==
  /\ pc[w] = "prepare"
  /\ mem' = [mem EXCEPT ![target[w]].account = TRUE]
  /\ Persist(w, "send")
  /\ UNCHANGED <<db, events, phase, crashes, batch, sent, sellerVars, acked,
                 applied>>

Send(w) ==
  /\ pc[w] = "send"
  /\ sent' = sent \cup {target[w]}
  /\ GoTo(w, "out")
  /\ UNCHANGED <<mem, db, events, then, target, reply, row, base, phase,
                 crashes, batch, sellerVars, acked, applied>>

\* One of BUY_FAILURES: a refused authorization, an open circuit, an error
\* from the seller, or no answer although the request may have arrived.
BuyFails(w) ==
  /\ pc[w] \in {"prepare", "send", "out"}
  /\ MarkFailed(target[w])
  /\ Persist(w, "idle")
  /\ UNCHANGED <<db, events, phase, crashes, batch, sent, sellerVars, acked,
                 applied>>

BuyAnswered(w) ==
  /\ pc[w] = "out"
  /\ reply[w] # NoReply
  /\ UpdateFromResponse(target[w], reply[w].status, reply[w].task)
  /\ Persist(w, "idle")
  /\ UNCHANGED <<db, events, phase, crashes, batch, sent, sellerVars, acked,
                 applied>>

-----------------------------------------------------------------------------
(* The pollers. *)

\* _poll_loop takes get_pending anew on each tick; /operations/poll once.
BeginPoll(w) ==
  /\ phase = "serving"
  /\ pc[w] = "idle" /\ batch[w] = {}
  /\ Pending # {}
  /\ batch' = [batch EXCEPT ![w] = Pending]
  /\ UNCHANGED <<mem, db, events, workerVars, phase, crashes, sent, sellerVars,
                 acked, applied>>

\* The background poller looks at the live status again (its poll interval);
\* poll_pending_operations does not.
Asks(w, o) ==
  /\ mem[o].task
  /\ w \in Background => NeedsPolling(o)

PollNext(w, o) ==
  /\ pc[w] = "idle" /\ o \in batch[w]
  /\ batch' = [batch EXCEPT ![w] = @ \ {o}]
  /\ \/ /\ Asks(w, o)
        /\ GoTo(w, "asked")
        /\ target' = [target EXCEPT ![w] = o]
     \/ /\ ~Asks(w, o)
        /\ UNCHANGED <<pc, target>>
  /\ UNCHANGED <<mem, db, events, then, reply, row, base, phase, crashes, sent,
                 sellerVars, acked, applied>>

\* The seller answers tasks/get with what the task is now, or with nonsense.
TaskRead(w) ==
  /\ w \in Pollers /\ pc[w] = "asked"
  /\ task[target[w]] # NoTask
  /\ \E s \in {task[target[w]].status, "garbled", "errors"} :
       reply' = [reply EXCEPT
                   ![w] = [status |-> s, task |-> TRUE, seq |-> 0]]
  /\ GoTo(w, "answered")
  /\ UNCHANGED <<mem, db, events, then, target, row, base, phase, crashes,
                 batch, sent, sellerVars, acked, applied>>

\* A failed poll is logged; the next one is its retry.
PollFails(w) ==
  /\ w \in Pollers /\ pc[w] = "asked"
  /\ Leave(w)
  /\ UNCHANGED <<mem, db, events, phase, crashes, batch, sent, sellerVars,
                 acked, applied>>

\* A poller and provide_input both apply the answer they get, whatever
\* happened to the operation while they waited for it.
ApplyAnswer(w) ==
  /\ pc[w] = "answered"
  /\ UpdateFromResponse(target[w], reply[w].status, reply[w].task)
  /\ Persist(w, "idle")
  /\ UNCHANGED <<db, events, phase, crashes, batch, sent, sellerVars, acked,
                 applied>>

-----------------------------------------------------------------------------
(* receive_webhook *)

Deliver(w, e) ==
  /\ phase = "serving"
  /\ pc[w] = "idle"
  /\ e \in hooks \ acked
  /\ GoTo(w, "dedup")
  /\ target' = [target EXCEPT ![w] = e.op]
  /\ reply' = [reply EXCEPT ![w] = [status |-> e.status, task |-> TRUE,
                                    seq |-> e.seq]]
  /\ UNCHANGED <<mem, db, events, then, row, base, phase, crashes, batch, sent,
                 sellerVars, acked, applied>>

EventId(w) == <<target[w], reply[w].seq>>

\* _check_idempotency reads the event's row: "already_processed", or go on.
CheckEvent(w) ==
  /\ pc[w] = "dedup"
  /\ \/ EventId(w) \in events /\ Leave(w) /\ Ack(w)
     \/ /\ EventId(w) \notin events
        /\ GoTo(w, "record")
        /\ UNCHANGED <<then, target, reply, row, base, acked>>
  /\ UNCHANGED <<mem, db, events, phase, crashes, batch, sent, sellerVars,
                 applied>>

RecordEvent_Upsert(w) ==
  /\ pc[w] = "record"
  /\ events' = events \cup {EventId(w)}
  /\ GoTo(w, "apply")
  /\ UNCHANGED <<mem, db, then, target, reply, row, base, phase, crashes,
                 batch, sent, sellerVars, acked, applied>>

\* It commits the new row.  If another delivery got there first the insert
\* fails, and so does the request.
RecordEvent(w) ==
  /\ pc[w] = "record"
  /\ \/ /\ EventId(w) \notin events
        /\ events' = events \cup {EventId(w)}
        /\ GoTo(w, "apply")
        /\ UNCHANGED <<then, target, reply, row, base>>
     \/ /\ EventId(w) \in events
        /\ Leave(w)
        /\ UNCHANGED events
  /\ UNCHANGED <<mem, db, phase, crashes, batch, sent, sellerVars, acked,
                 applied>>

\* The payload's result may bring a status of its own, which wins.
ApplyEvent(w) ==
  /\ pc[w] = "apply"
  /\ \/ /\ Tracked(target[w])
        /\ \E s \in {reply[w].status, "garbled", "errors"} :
             UpdateFromResponse(target[w], s, TRUE)
        /\ applied' = applied \cup
             {e \in hooks : e.op = target[w] /\ e.seq = reply[w].seq}
        /\ Persist(w, "idle")
        /\ UNCHANGED acked
     \/ /\ ~Tracked(target[w])
        /\ Leave(w) /\ Ack(w)
        /\ UNCHANGED <<mem, applied>>
  /\ UNCHANGED <<db, events, phase, crashes, batch, sent, sellerVars>>

-----------------------------------------------------------------------------
(* provide_input *)

BeginInput(w, o) ==
  /\ phase = "serving"
  /\ pc[w] = "idle"
  /\ Tracked(o) /\ mem[o].status = "input-required"
  /\ GoTo(w, "asked")
  /\ target' = [target EXCEPT ![w] = o]
  /\ UNCHANGED <<mem, db, events, then, reply, row, base, phase, crashes, batch,
                 sent, sellerVars, acked, applied>>

\* Any exception: the seller refused, the circuit is open, the answer is lost.
InputFails(w) ==
  /\ w \in Humans /\ pc[w] \in {"asked", "answered"}
  /\ MarkFailed(target[w])
  /\ GoTo(w, "save")
  /\ reply' = [reply EXCEPT ![w] = NoReply]
  /\ UNCHANGED <<db, events, then, target, row, base, phase, crashes, batch,
                 sent, sellerVars, acked, applied>>

-----------------------------------------------------------------------------
(* Exceptions nobody expects. *)

\* A "garbled" status may not even be text: update_from_response raises then.
Garbled(w) ==
  \/ w \in Buyers /\ pc[w] = "out" /\ reply[w].status = "garbled"
  \/ w \in Pollers /\ pc[w] = "answered" /\ reply[w].status = "garbled"
  \/ w \in Handlers /\ pc[w] = "apply" /\ Tracked(target[w])

\* So does the database under resolve_account_ref.  A buy or a webhook dies of
\* it, with the operation as it is; a poller goes on.  (provide_input catches
\* it: InputFails.)
Raises(w) ==
  /\ Garbled(w) \/ pc[w] = "prepare"
  /\ Leave(w)
  /\ UNCHANGED <<mem, db, events, phase, crashes, batch, sent, sellerVars,
                 acked, applied>>

-----------------------------------------------------------------------------
(* The seller. *)

\* Its task gets a new status, of which it may send a webhook.  With its last
\* one, the MaxSeq-th, the task no longer waits for the seller.
NewStatus(o, s) ==
  /\ task[o].seq < MaxSeq
  /\ task[o].seq + 1 = MaxSeq => s \notin {"submitted", "working"}
  /\ task' = [task EXCEPT ![o] = [status |-> s, seq |-> @.seq + 1]]
  /\ \/ UNCHANGED hooks
     \/ /\ Webhooks
        /\ hooks' = hooks \cup
             {[op |-> o, status |-> s, seq |-> task[o].seq + 1]}

\* Its answer reaches the buyer only if that still waits for it.
AnswerBuy(o, s, hasTask) ==
  reply' = [w \in Workers |->
              IF w \in Buyers /\ pc[w] = "out" /\ target[w] = o
              THEN [status |-> s, task |-> hasTask, seq |-> 0]
              ELSE reply[w]]

\* It receives a create_media_buy, sooner or later, and makes a task of it.
SellerBuys(o) ==
  /\ o \in sent /\ task[o] = NoTask
  /\ \E s \in SellerStatus, hasTask \in BOOLEAN :
       /\ NewStatus(o, s)
       /\ \E r \in {s, "garbled"} : AnswerBuy(o, r, hasTask)
  /\ UNCHANGED <<mem, db, events, pc, then, target, row, base, phase, crashes,
                 batch, sent, acked, applied>>

\* It refuses one with an errors response: its task is over at once.
SellerRefuses(o) ==
  /\ o \in sent /\ task[o] = NoTask
  /\ task' = [task EXCEPT ![o] = [status |-> "rejected", seq |-> 1]]
  /\ AnswerBuy(o, "errors", FALSE)
  /\ UNCHANGED <<mem, db, events, pc, then, target, row, base, phase, crashes,
                 batch, sent, hooks, acked, applied>>

SellerWorks(o) ==
  /\ task[o].status \in {"submitted", "working"}
  /\ \E s \in SellerStatus \ {"submitted", task[o].status} : NewStatus(o, s)
  /\ UNCHANGED <<mem, db, events, workerVars, phase, crashes, batch, sent,
                 acked, applied>>

\* It takes the input, and its task goes on; or it answers with errors.
SellerAnswersInput(w) ==
  /\ w \in Humans /\ pc[w] = "asked"
  /\ \/ /\ task[target[w]].status = "input-required"
        /\ \E s \in {"working", "completed", "rejected"} :
             /\ NewStatus(target[w], s)
             /\ \E r \in {s, "garbled"} :
                  reply' = [reply EXCEPT
                              ![w] = [status |-> r, task |-> FALSE, seq |-> 0]]
     \/ /\ reply' = [reply EXCEPT
                      ![w] = [status |-> "errors", task |-> FALSE, seq |-> 0]]
        /\ UNCHANGED <<task, hooks>>
  /\ GoTo(w, "answered")
  /\ UNCHANGED <<mem, db, events, then, target, row, base, phase, crashes,
                 batch, sent, acked, applied>>

-----------------------------------------------------------------------------
(* The process. *)

Crash ==
  /\ phase # "down"
  /\ crashes < MaxCrashes
  /\ crashes' = crashes + 1
  /\ phase' = "down"
  /\ mem' = [o \in Ops |-> NoRecord]
  /\ pc' = [w \in Workers |-> "idle"]
  /\ then' = [w \in Workers |-> "idle"]
  /\ target' = [w \in Workers |-> NoOp]
  /\ reply' = [w \in Workers |-> NoReply]
  /\ row' = [w \in Workers |-> NoRecord]
  /\ base' = [w \in Workers |-> NoRecord]
  /\ batch' = [w \in Pollers |-> {}]
  /\ UNCHANGED <<db, events, sent, sellerVars, acked, applied>>

\* lifespan: load the rows, then poll_pending_operations before serving.
\* Any poller may stand for its coroutine here.
Restart ==
  /\ phase = "down"
  /\ LoadAll
  /\ phase' = "starting"
  /\ \E w \in Pollers :
       batch' = [batch EXCEPT
                   ![w] = {o \in Ops : NeedsPolling(o)'}]
  /\ UNCHANGED <<db, events, workerVars, crashes, sent, sellerVars, acked,
                 applied>>

Serve ==
  /\ phase = "starting"
  /\ \A w \in Workers : pc[w] = "idle"
  /\ \A w \in Pollers : batch[w] = {}
  /\ phase' = "serving"
  /\ UNCHANGED <<mem, db, events, workerVars, crashes, batch, sent, sellerVars,
                 acked, applied>>

BuyStep(w) ==
  Prepare(w) \/ Send(w) \/ BuyFails(w) \/ BuyAnswered(w)

PollStep(w) ==
  \/ \E o \in Ops : PollNext(w, o)
  \/ TaskRead(w)
  \/ PollFails(w)

HookStep(w) == CheckEvent(w) \/ RecordEvent(w) \/ ApplyEvent(w)

InputStep(w) == SellerAnswersInput(w) \/ InputFails(w)

SaveStep(w) == Copy(w) \/ Commit(w) \/ PersistFails(w)

Next ==
  \/ \E w \in Buyers :
       BuyStep(w) \/ \E o \in Ops : BeginBuy(w, o) \/ BeginUpdate(w, o)
  \/ \E w \in Pollers : PollStep(w) \/ BeginPoll(w)
  \/ \E w \in Handlers : HookStep(w) \/ \E e \in hooks : Deliver(w, e)
  \/ \E w \in Humans : InputStep(w) \/ \E o \in Ops : BeginInput(w, o)
  \/ \E w \in Pollers \cup Humans : ApplyAnswer(w)
  \/ \E w \in Workers : SaveStep(w) \/ Raises(w)
  \/ \E o \in Ops : SellerBuys(o) \/ SellerRefuses(o) \/ SellerWorks(o)
  \/ Crash
  \/ Restart
  \/ Serve

Spec == Init /\ [][Next]_vars

(***************************************************************************)
(* The event loop runs whatever can run; a crashed process is restarted;   *)
(* the seller finishes its tasks and properly answers some of the polls    *)
(* for each of them.  Nobody has to buy, to answer for a human or to       *)
(* deliver webhooks.                                                       *)
(***************************************************************************)
Fairness ==
  /\ \A w \in Buyers : WF_vars(BuyStep(w))
  /\ \A w \in Pollers : WF_vars(PollStep(w))
  /\ \A w \in Pollers, o \in Ops :
       SF_vars(TaskRead(w) /\ target[w] = o /\ reply'[w].status = task[o].status)
  /\ \A w \in Background : WF_vars(BeginPoll(w))
  /\ \A w \in Handlers : WF_vars(HookStep(w))
  /\ \A w \in Humans : WF_vars(InputStep(w))
  /\ \A w \in Pollers \cup Humans : WF_vars(ApplyAnswer(w))
  /\ \A w \in Workers : WF_vars(SaveStep(w))
  /\ \A o \in Ops : WF_vars(SellerWorks(o))
  /\ WF_vars(Restart)
  /\ WF_vars(Serve)

FairSpec == Spec /\ Fairness

-----------------------------------------------------------------------------
(* Properties. *)

(***************************************************************************)
(* Store before sending: once a request that buys or changes a buy may     *)
(* have reached a seller, the operation's row is committed, with the       *)
(* account it is made under, and stays so through crashes and failed or    *)
(* late commits.                                                           *)
(***************************************************************************)
StoredBeforeSent ==
  \A o \in sent : db[o] # NoRecord /\ db[o].account

(***************************************************************************)
(* A webhook is applied to its operation at most once, though the seller   *)
(* delivers it again and two deliveries may run side by side.              *)
(***************************************************************************)
EventAppliedOnce ==
  \A w \in Handlers : pc[w] = "apply" =>
    /\ \A e \in applied : <<e.op, e.seq>> # EventId(w)
    /\ \A v \in Handlers \ {w} : pc[v] = "apply" => EventId(v) # EventId(w)

(***************************************************************************)
(* No operation stays submitted or working for ever: once the seller's     *)
(* task is through, the pollers learn of it, in spite of answers that      *)
(* arrive late and overwrite newer ones, of failed commits and of a crash. *)
(***************************************************************************)
PollingSettles ==
  <>[](\A o \in Ops : NeedsPolling(o) => ~mem[o].task)

(***************************************************************************)
(* What a purchase promises, whatever happens between: see BuyJournal.     *)
(***************************************************************************)
Says(o, s) == Tracked(o) /\ mem[o].status = s

Journal == INSTANCE BuyJournal WITH
  stored <- {o \in Ops : db[o] # NoRecord},
  asked <- sent,
  bought <- {o \in Ops : task[o].status = "completed"},
  reported <- {o \in Ops : Says(o, "completed")}

KeepsJournal == Journal!Spec

(***************************************************************************)
(* README.md:166 "startup reconciles operations left pending by the        *)
(* previous run": when the process starts to serve, none is pending.       *)
(***************************************************************************)
PendingReconciled ==
  [][phase = "starting" /\ phase' = "serving"
       => \A o \in Ops : ~Says(o, "pending")]_vars

(***************************************************************************)
(* receiver.py:115 "Check if this webhook event was already processed.":   *)
(* an event answered with 2xx was used to update its operation.            *)
(***************************************************************************)
AckedIsProcessed == acked \subseteq applied

=============================================================================
