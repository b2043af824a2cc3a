------------------------ MODULE BuyingJournalProofs ------------------------
(***************************************************************************)
(* BuyingSystem implements BuyJournal, for any operations, coroutines,     *)
(* crashes and status changes.                                             *)
(***************************************************************************)
EXTENDS BuyingProofs

Completed(o) == task[o].status = "completed"

\* Nothing says completed of an operation the seller did not complete.
MemHonest == \A o \in Ops : Says(o, "completed") => Completed(o)
TableHonest == \A o \in Ops : Stored(o) /\ db[o].status = "completed" => Completed(o)
RowHonest ==
  \A w \in Workers : pc[w] = "commit" /\ row[w].status = "completed" => Completed(target[w])
ReplyHonest ==
  \A w \in Workers : reply[w].status = "completed" => Busy(w) /\ Completed(target[w])
HooksHonest == \A e \in hooks : e.status = "completed" => Completed(e.op)

Honest == MemHonest /\ TableHonest /\ RowHonest /\ ReplyHonest /\ HooksHonest

\* Nothing says completed in the beginning.
LEMMA InitHonest == Init => Honest
  BY DEF Init, InitTracker, Honest, MemHonest, TableHonest, RowHonest,
     ReplyHonest, HooksHonest,
     Says, Tracked, Stored, NoReply

-----------------------------------------------------------------------------
(* Who changes what. *)

SellerStep ==
  \/ \E o \in Ops : SellerBuys(o) \/ SellerRefuses(o) \/ SellerWorks(o)
  \/ \E w \in Humans : SellerAnswersInput(w)

\* Only the seller changes its tasks and sends webhooks.
LEMMA TaskChanges ==
  ASSUME IInv, [Next]_vars
  PROVE  UNCHANGED <<task, hooks>> \/ SellerStep
  BY DEF SellerStep, Next, BuyStep, PollStep, HookStep, InputStep, SaveStep,
     Prepare, Send, BuyFails, BuyAnswered, BeginBuy, BeginUpdate, Create, PollNext, TaskRead,
     PollFails, BeginPoll, CheckEvent, RecordEvent, ApplyEvent, Deliver, InputFails, BeginInput,
     ApplyAnswer, Copy, Commit, PersistFails, Raises, Crash, Restart, Serve, vars, sellerVars

\* Only a commit changes the table.
LEMMA TableChanges ==
  ASSUME IInv, [Next]_vars
  PROVE  UNCHANGED db \/ \E w \in Workers : Commit(w)
  BY DEF Next, BuyStep, PollStep, HookStep, InputStep, SaveStep,
     Prepare, Send, BuyFails, BuyAnswered, BeginBuy, BeginUpdate, Create, PollNext, TaskRead,
     PollFails, BeginPoll, CheckEvent, RecordEvent, ApplyEvent, Deliver, InputFails, BeginInput,
     ApplyAnswer, Copy, PersistFails, Raises, Crash, Restart, Serve, vars, sellerVars,
     SellerBuys, SellerRefuses, SellerWorks, SellerAnswersInput

\* Only a buyer sends.
LEMMA SentChanges ==
  ASSUME IInv, [Next]_vars
  PROVE  UNCHANGED sent \/ \E w \in Buyers : Send(w)
  BY DEF Next, BuyStep, PollStep, HookStep, InputStep, SaveStep,
     Prepare, BuyFails, BuyAnswered, BeginBuy, BeginUpdate, Create, PollNext, TaskRead,
     PollFails, BeginPoll, CheckEvent, RecordEvent, ApplyEvent, Deliver, InputFails, BeginInput,
     ApplyAnswer, Copy, Commit, PersistFails, Raises, Crash, Restart, Serve, vars, sellerVars,
     SellerBuys, SellerRefuses, SellerWorks, SellerAnswersInput

\* A completed task stays completed.
LEMMA CompletedIsFinal ==
  ASSUME IInv, [Next]_vars
  PROVE  \A o \in Ops : Completed(o) => Completed(o)'
  <1>1. CASE UNCHANGED task
    BY <1>1 DEF Completed
  <1>2. ASSUME NEW o \in Ops, SellerBuys(o) \/ SellerRefuses(o) \/ SellerWorks(o)
        PROVE  \A p \in Ops : Completed(p) => Completed(p)'
    <2>1. task[o] = NoTask \/ task[o].status \in {"submitted", "working"}
      BY <1>2, Zenon DEF SellerBuys, SellerRefuses, SellerWorks
    <2>2. \A p \in Ops : p # o => task'[p] = task[p]
      BY <1>2
      DEF IInv, TypeOK, SellerBuys, SellerRefuses, SellerWorks, NewStatus
    <2> QED
      BY <2>1, <2>2 DEF Completed, NoTask
  <1>3. ASSUME NEW w \in Humans, SellerAnswersInput(w)
        PROVE  \A p \in Ops : Completed(p) => Completed(p)'
    BY <1>3 DEF IInv, TypeOK, SellerAnswersInput, NewStatus, Completed
  <1> QED
    BY <1>1, <1>2, <1>3, TaskChanges DEF SellerStep

\* What memory comes to say completed of, it, the table or an answer said so.
LEMMA MemOrigins ==
  ASSUME IInv, [Next]_vars, NEW o \in Ops, Says(o, "completed")'
  PROVE  \/ Says(o, "completed")
         \/ Stored(o) /\ db[o].status = "completed"
         \/ \E w \in Workers : target[w] = o /\ reply[w].status = "completed"
  <1> DEFINE Goal == \/ Says(o, "completed")
                     \/ Stored(o) /\ db[o].status = "completed"
                     \/ \E w \in Workers : target[w] = o /\ reply[w].status = "completed"
  <1>1. CASE UNCHANGED mem
    BY <1>1 DEF Says, Tracked
  <1>2. ASSUME NEW w \in Buyers, \E p \in Ops : BeginBuy(w, p) \/ BeginUpdate(w, p)
        PROVE  Goal
    <2>1. PICK p \in Ops, r \in {NewRecord, [NewRecord EXCEPT !.account = TRUE]} :
            mem' = [mem EXCEPT ![p] = r]
      BY <1>2 DEF BeginBuy, BeginUpdate, Create
    <2>2. r.status # "completed"
      BY <2>1 DEF NewRecord
    <2> QED
      BY <2>1, <2>2 DEF Says, Tracked, IInv, TypeOK, TrackerTypeOK
  <1>3. ASSUME NEW w \in Buyers, Prepare(w)
        PROVE  Goal
    <2>1. /\ w \in Workers /\ target[w] \in Ops /\ Tracked(target[w])
          /\ mem' = [mem EXCEPT ![target[w]].account = TRUE]
      BY <1>3, WorkersAssumption DEF Prepare, IInv, TargetTracked, Busy
    <2>2. mem[target[w]] \in Records
      BY <2>1 DEF IInv, TypeOK, TrackerTypeOK, Tracked
    <2> QED
      BY <2>1, <2>2 DEF Says, Tracked, IInv, TypeOK, TrackerTypeOK, Records
  <1>4. ASSUME NEW w \in Workers, MarkFailed(target[w]), target[w] \in Ops, Tracked(target[w])
        PROVE  Goal
    BY <1>4 DEF MarkFailed, Says, Tracked, IInv, TypeOK, TrackerTypeOK, Records
  <1>5. ASSUME NEW w \in Workers, NEW s \in {reply[w].status, "garbled", "errors"}, NEW t,
               UpdateFromResponse(target[w], s, t), target[w] \in Ops, Tracked(target[w])
        PROVE  Goal
    BY <1>5
    DEF UpdateFromResponse, StatusOf, Says, Tracked, IInv, TypeOK,
        TrackerTypeOK, Records
  <1>6. CASE Crash \/ Restart
    BY <1>6 DEF Crash, Restart, LoadAll, Says, Tracked, Stored
  <1>7. ASSUME NEW w \in Workers,
               (pc[w] # "idle" /\ w \notin Handlers) \/ pc[w] \in {"save", "commit"}
        PROVE  target[w] \in Ops /\ Tracked(target[w])
    BY <1>7 DEF IInv, TargetTracked, Busy
  <1>8. ASSUME NEW w \in Buyers, BuyStep(w)
        PROVE  Goal
    <2>1. w \in Workers \ Handlers
      BY WorkersAssumption
    <2>2. CASE Send(w)
      BY <1>1, <2>2 DEF Send
    <2>3. CASE BuyFails(w) \/ BuyAnswered(w)
      BY <1>4, <1>5, <1>7, <2>1, <2>3 DEF BuyFails, BuyAnswered
    <2> QED
      BY <1>3, <1>8, <2>2, <2>3 DEF BuyStep
  <1>9. ASSUME NEW w \in Pollers \cup Humans, ApplyAnswer(w)
        PROVE  Goal
    <2>1. w \in Workers \ Handlers
      BY WorkersAssumption DEF Pollers
    <2> QED
      BY <1>5, <1>7, <1>9, <2>1 DEF ApplyAnswer
  <1>10. ASSUME NEW w \in Handlers, HookStep(w)
         PROVE  Goal
    <2>1. w \in Workers
      BY WorkersAssumption
    <2>2. CASE UNCHANGED mem
      BY <1>1, <2>2
    <2>3. CASE ~UNCHANGED mem
      <3>1. /\ pc[w] = "apply" /\ Tracked(target[w])
            /\ \E s \in {reply[w].status, "garbled", "errors"} :
                 UpdateFromResponse(target[w], s, TRUE)
        BY <1>10, <2>3 DEF HookStep, CheckEvent, RecordEvent, ApplyEvent
      <3>2. target[w] \in Ops
        BY <2>1, <3>1 DEF IInv, TargetTracked, Busy
      <3> QED
        BY <1>5, <2>1, <3>1, <3>2
    <2> QED
      BY <2>2, <2>3
  <1>11. ASSUME NEW w \in Workers, PersistFails(w)
         PROVE  Goal
    BY <1>1, <1>4, <1>7, <1>11 DEF PersistFails
  <1>12. ASSUME NEW w \in Humans, InputFails(w)
         PROVE  Goal
    <2>1. w \in Workers \ Handlers
      BY WorkersAssumption
    <2> QED
      BY <1>4, <1>7, <1>12, <2>1 DEF InputFails
  <1> QED
    BY <1>1, <1>2, <1>6, <1>8, <1>9, <1>10, <1>11, <1>12
    DEF Next, PollStep, InputStep, SaveStep, PollNext, TaskRead, PollFails, BeginPoll, Deliver,
        BeginInput, Copy, Commit, Raises, Serve, SellerBuys, SellerRefuses, SellerWorks,
        SellerAnswersInput, vars

\* Memory says completed only of what is.
LEMMA MemStaysHonest ==
  ASSUME IInv, Honest, [Next]_vars
  PROVE  MemHonest'
  <1> SUFFICES ASSUME NEW o \in Ops, Says(o, "completed")' PROVE Completed(o)'
    BY DEF MemHonest
  <1>1. Completed(o)
    BY MemOrigins DEF Honest, MemHonest, TableHonest, ReplyHonest
  <1> QED
    BY <1>1, CompletedIsFinal

\* So does the table: a flush writes what a row or the table said.
LEMMA TableStaysHonest ==
  ASSUME IInv, Honest, [Next]_vars
  PROVE  TableHonest'
  <1> SUFFICES ASSUME NEW o \in Ops, Stored(o)', db'[o].status = "completed" PROVE Completed(o)
    BY CompletedIsFinal DEF TableHonest
  <1>1. CASE UNCHANGED db
    BY <1>1 DEF Honest, TableHonest, Stored
  <1>2. ASSUME NEW w \in Workers, Commit(w)
        PROVE  Completed(o)
    <2>1. /\ pc[w] = "commit" /\ row[w] # NoRecord
          /\ base[w] # NoRecord => Stored(target[w]) /\ db[target[w]] \in Records
          /\ db' = [db EXCEPT ![target[w]] = Flushed(w, target[w])]
      BY <1>2
      DEF Commit, CommitRow, IInv, TypeOK, TrackerTypeOK, TargetTracked, Busy,
          RowKeepsAccount, Stored
    <2>2. CASE o # target[w]
      BY <2>1, <2>2
      DEF Honest, TableHonest, Stored, IInv, TypeOK, TrackerTypeOK
    <2>3. CASE o = target[w]
      <3>1. \/ row[w].status = "completed"
            \/ Stored(o) /\ db[o].status = "completed"
        <4>1. CASE base[w] = NoRecord
          BY <2>1, <2>3, <4>1 DEF Flushed, IInv, TypeOK, TrackerTypeOK
        <4>2. CASE base[w] # NoRecord
          <5>1. db'[o].status = IF row[w].status # base[w].status THEN row[w].status
                                ELSE db[o].status
            BY <2>1, <2>3, <4>2
            DEF Flushed, Records, IInv, TypeOK, TrackerTypeOK
          <5> QED
            BY <2>1, <2>3, <4>2, <5>1
        <4> QED
          BY <4>1, <4>2
      <3> QED
        BY <2>1, <2>3, <3>1 DEF Honest, TableHonest, RowHonest
    <2> QED
      BY <2>2, <2>3
  <1> QED
    BY <1>1, <1>2, TableChanges

\* A worker gets to its commit by Copy, and holds what it copied until then.
LEMMA CommitEntries ==
  ASSUME IInv, [Next]_vars, NEW w \in Workers, pc'[w] = "commit", ~Copy(w)
  PROVE  pc[w] = "commit" /\ row'[w] = row[w] /\ target'[w] = target[w]
  <1> DEFINE Goal == pc[w] = "commit" /\ row'[w] = row[w] /\ target'[w] = target[w]
  <1>1. CASE UNCHANGED <<pc, row, target>>
    BY <1>1
  <1>2. ASSUME NEW v \in Workers, NEW l \in {"idle", "prepare", "send", "save", "out", "asked",
                                            "answered", "dedup", "record", "apply"},
               GoTo(v, l), row' = row \/ ReleaseRow(v),
               \A u \in Workers \ {v} : target'[u] = target[u]
        PROVE  Goal
    BY <1>2 DEF GoTo, ReleaseRow, IInv, TypeOK, TrackerTypeOK
  <1>3. ASSUME NEW v \in Buyers,
               BuyStep(v) \/ \E o \in Ops : BeginBuy(v, o) \/ BeginUpdate(v, o)
        PROVE  Goal
    <2>1. v \in Workers
      BY WorkersAssumption
    <2> QED
      BY <1>2, <1>3, <2>1
      DEF BuyStep, Prepare, Send, BuyFails, BuyAnswered, BeginBuy,
         BeginUpdate, Create, Persist, IInv, TypeOK
  <1>4. ASSUME NEW v \in Pollers, PollStep(v) \/ BeginPoll(v)
        PROVE  Goal
    <2>1. v \in Workers
      BY WorkersAssumption DEF Pollers
    <2> QED
      BY <1>1, <1>2, <1>4, <2>1
      DEF PollStep, PollNext, TaskRead, PollFails, BeginPoll,
         workerVars, Leave, IInv, TypeOK
  <1>5. ASSUME NEW v \in Handlers, HookStep(v) \/ \E e \in hooks : Deliver(v, e)
        PROVE  Goal
    <2>1. v \in Workers
      BY WorkersAssumption
    <2> QED
      BY <1>2, <1>5, <2>1
      DEF HookStep, CheckEvent, RecordEvent, ApplyEvent, Deliver, Persist,
         Leave, IInv, TypeOK
  <1>6. ASSUME NEW v \in Humans, InputStep(v) \/ \E o \in Ops : BeginInput(v, o)
        PROVE  Goal
    <2>1. v \in Workers
      BY WorkersAssumption
    <2> QED
      BY <1>2, <1>6, <2>1
      DEF InputStep, SellerAnswersInput, InputFails, BeginInput, IInv, TypeOK
  <1>7. ASSUME NEW v \in Workers, SaveStep(v) \/ Raises(v)
        PROVE  Goal
    <2>1. CASE Copy(v)
      BY <2>1 DEF Copy, CopyToRow, GoTo, IInv, TypeOK, TrackerTypeOK
    <2>2. CASE Commit(v)
      <3>1. GoTo(v, then[v]) /\ ReleaseRow(v) /\ \A u \in Workers \ {v} : target'[u] = target[u]
        BY <2>2 DEF Commit, Leave, IInv, TypeOK
      <3>2. then[v] \in {"idle", "prepare", "send"}
        BY DEF IInv, TypeOK
      <3> QED
        BY <1>2, <3>1, <3>2
    <2>3. CASE PersistFails(v) \/ Raises(v)
      BY <1>2, <2>3 DEF PersistFails, Raises, Leave, IInv, TypeOK
    <2> QED
      BY <1>7, <2>1, <2>2, <2>3 DEF SaveStep
  <1>8. ASSUME NEW v \in Pollers \cup Humans, ApplyAnswer(v)
        PROVE  Goal
    <2>1. v \in Workers
      BY WorkersAssumption DEF Pollers
    <2> QED
      BY <1>2, <1>8, <2>1 DEF ApplyAnswer, Persist
  <1>9. CASE Crash
    BY <1>9 DEF Crash
  <1> QED
    BY <1>1, <1>3, <1>4, <1>5, <1>6, <1>7, <1>8, <1>9
    DEF Next, SellerBuys, SellerRefuses, SellerWorks, Restart, Serve, vars, workerVars

\* So does a row on its way to the table: it was copied from memory.
LEMMA RowStaysHonest ==
  ASSUME IInv, Honest, [Next]_vars
  PROVE  RowHonest'
  <1> SUFFICES ASSUME NEW w \in Workers, pc'[w] = "commit", row'[w].status = "completed"
               PROVE  task'[target'[w]].status = "completed"
    BY DEF RowHonest, Completed
  <1>1. CASE Copy(w)
    <2>1. target'[w] = target[w] /\ target[w] \in Ops /\ Says(target[w], "completed")
      BY <1>1
      DEF Copy, CopyToRow, IInv, TypeOK, TrackerTypeOK, TargetTracked, Busy,
          Says
    <2> QED
      BY <2>1, CompletedIsFinal DEF Honest, MemHonest, Completed
  <1>2. CASE ~Copy(w)
    <2>1. pc[w] = "commit" /\ row'[w] = row[w] /\ target'[w] = target[w]
      BY <1>2, CommitEntries
    <2> QED
      BY <2>1, CompletedIsFinal
      DEF Honest, RowHonest, IInv, TargetTracked, Busy, Completed
  <1> QED
    BY <1>1, <1>2

\* So does a webhook: it is sent with the status the task just got.
LEMMA HooksStayHonest ==
  ASSUME IInv, Honest, [Next]_vars
  PROVE  HooksHonest'
  <1> SUFFICES ASSUME NEW e \in hooks', e.status = "completed" PROVE Completed(e.op)'
    BY DEF HooksHonest
  <1>1. CASE e \in hooks
    BY <1>1, CompletedIsFinal DEF Honest, HooksHonest, IInv, TypeOK, Events
  <1>2. CASE e \notin hooks
    <2>1. PICK o \in Ops, s \in SellerStatus : NewStatus(o, s)
      <3>1. SellerStep /\ hooks' # hooks
        BY <1>2, TaskChanges
      <3>2. CASE \E o \in Ops : SellerBuys(o) \/ SellerRefuses(o) \/ SellerWorks(o)
        BY <3>1, <3>2 DEF SellerBuys, SellerRefuses, SellerWorks
      <3>3. ASSUME NEW w \in Humans, SellerAnswersInput(w)
            PROVE  \E o \in Ops, s \in SellerStatus : NewStatus(o, s)
        <4>1. target[w] \in Ops
          BY <3>3, WorkersAssumption
          DEF SellerAnswersInput, IInv, TargetTracked, Busy
        <4> QED
          BY <3>1, <3>3, <4>1 DEF SellerAnswersInput, SellerStatus
      <3> QED
        BY <3>1, <3>2, <3>3 DEF SellerStep
    <2>2. e.op = o /\ task'[o].status = e.status
      BY <1>2, <2>1 DEF NewStatus, IInv, TypeOK
    <2> QED
      BY <2>2 DEF Completed
  <1> QED
    BY <1>1, <1>2

\* An answer says completed only when it is the seller's, and the task is.
LEMMA ReplyStaysHonest ==
  ASSUME IInv, Honest, [Next]_vars
  PROVE  ReplyHonest'
  <1> SUFFICES ASSUME NEW w \in Workers, reply'[w].status = "completed"
               PROVE  Busy(w)' /\ task'[target'[w]].status = "completed"
    BY DEF ReplyHonest, Completed
  <1> DEFINE Goal == Busy(w)' /\ task'[target'[w]].status = "completed"
  <1>1. ASSUME reply'[w] = reply[w], Busy(w) => target'[w] = target[w] /\ Busy(w)'
        PROVE  Goal
    <2>1. Busy(w) /\ target[w] \in Ops /\ Completed(target[w])
      BY <1>1 DEF Honest, ReplyHonest, IInv, TargetTracked
    <2> QED
      BY <1>1, <2>1, CompletedIsFinal DEF Completed
  <1>2. CASE UNCHANGED <<pc, target, reply>>
    BY <1>1, <1>2 DEF Busy
  <1>3. ASSUME NEW v \in Workers, NEW l, GoTo(v, l),
               \/ /\ reply' = reply /\ l # "idle"
                  /\ target' = target \/ ~Busy(v)
               \/ reply' = [reply EXCEPT ![v] = NoReply],
               \A u \in Workers \ {v} : target'[u] = target[u]
        PROVE  Goal
    <2>1. CASE w = v
      BY <1>1, <1>3, <2>1 DEF GoTo, Busy, NoReply, IInv, TypeOK
    <2>2. CASE w # v
      BY <1>1, <1>3, <2>2 DEF GoTo, Busy, IInv, TypeOK
    <2> QED
      BY <2>1, <2>2
  <1>4. ASSUME NEW v \in Buyers,
               BuyStep(v) \/ \E o \in Ops : BeginBuy(v, o) \/ BeginUpdate(v, o)
        PROVE  Goal
    <2>1. v \in Workers
      BY WorkersAssumption
    <2> QED
      BY <1>3, <1>4, <2>1
      DEF BuyStep, Prepare, Send, BuyFails, BuyAnswered, BeginBuy,
         BeginUpdate, Create, Persist, Busy, IInv, TypeOK
  <1>5. ASSUME NEW v \in Pollers, PollStep(v) \/ BeginPoll(v)
        PROVE  Goal
    <2>1. v \in Workers
      BY WorkersAssumption DEF Pollers
    <2>2. CASE TaskRead(v)
      <3>1. \A u \in Workers \ {v} : reply'[u] = reply[u] /\ pc'[u] = pc[u]
        BY <2>1, <2>2 DEF TaskRead, GoTo, IInv, TypeOK
      <3>2. CASE w # v
        BY <1>1, <2>2, <3>1, <3>2 DEF TaskRead, Busy
      <3>3. CASE w = v
        BY <2>1, <2>2, <3>3 DEF TaskRead, GoTo, Busy, IInv, TypeOK, sellerVars
      <3> QED
        BY <3>2, <3>3
    <2>3. CASE PollFails(v) \/ BeginPoll(v) \/ \E o \in Ops : PollNext(v, o)
      BY <1>2, <1>3, <2>1, <2>3
      DEF PollNext, PollFails, BeginPoll, workerVars, Leave, Busy,
         IInv, TypeOK
    <2> QED
      BY <1>5, <2>2, <2>3 DEF PollStep
  <1>6. ASSUME NEW v \in Handlers, HookStep(v) \/ \E e \in hooks : Deliver(v, e)
        PROVE  Goal
    <2>1. v \in Workers
      BY WorkersAssumption
    <2>2. CASE HookStep(v)
      BY <1>3, <2>1, <2>2
      DEF HookStep, CheckEvent, RecordEvent, ApplyEvent, Persist, Leave,
         IInv, TypeOK
    <2>3. ASSUME NEW e \in hooks, Deliver(v, e)
          PROVE  Goal
      <3>1. \A u \in Workers \ {v} :
              reply'[u] = reply[u] /\ pc'[u] = pc[u] /\ target'[u] = target[u]
        BY <2>1, <2>3 DEF Deliver, GoTo, IInv, TypeOK
      <3>2. CASE w # v
        BY <1>1, <3>1, <3>2 DEF Busy
      <3>3. CASE w = v
        BY <2>1, <2>3, <3>3
        DEF Deliver, GoTo, Busy, Honest, HooksHonest, Completed, IInv,
           TypeOK, sellerVars
      <3> QED
        BY <3>2, <3>3
    <2> QED
      BY <1>6, <2>2, <2>3
  <1>7. ASSUME NEW v \in Humans, InputStep(v) \/ \E o \in Ops : BeginInput(v, o)
        PROVE  Goal
    <2>1. v \in Workers
      BY WorkersAssumption
    <2>2. CASE SellerAnswersInput(v)
      <3>1. \A u \in Workers \ {v} : reply'[u] = reply[u] /\ pc'[u] = pc[u]
        BY <2>1, <2>2 DEF SellerAnswersInput, GoTo, IInv, TypeOK
      <3>2. CASE w # v
        BY <1>1, <2>2, <3>1, <3>2 DEF SellerAnswersInput, Busy
      <3>3. CASE w = v
        <4>1. target[v] \in Ops /\ target' = target /\ pc'[v] = "answered"
          BY <2>1, <2>2
          DEF SellerAnswersInput, GoTo, IInv, TypeOK, TargetTracked, Busy
        <4> QED
          BY <2>1, <2>2, <3>3, <4>1
          DEF SellerAnswersInput, NewStatus, Busy, IInv, TypeOK
      <3> QED
        BY <3>2, <3>3
    <2>3. CASE InputFails(v) \/ \E o \in Ops : BeginInput(v, o)
      BY <1>3, <2>1, <2>3 DEF InputFails, BeginInput, Busy, IInv, TypeOK
    <2> QED
      BY <1>7, <2>2, <2>3 DEF InputStep
  <1>8. ASSUME NEW v \in Workers, SaveStep(v) \/ Raises(v)
        PROVE  Goal
    <2>1. CASE Copy(v)
      BY <1>3, <2>1 DEF Copy
    <2>2. CASE Commit(v)
      <3>1. CASE then[v] = "idle"
        BY <1>3, <2>2, <3>1 DEF Commit, Leave, IInv, TypeOK
      <3>2. CASE then[v] # "idle"
        BY <1>3, <2>2, <3>2 DEF Commit
      <3> QED
        BY <3>1, <3>2
    <2>3. CASE PersistFails(v) \/ Raises(v)
      BY <1>3, <2>3 DEF PersistFails, Raises, Leave, IInv, TypeOK
    <2> QED
      BY <1>8, <2>1, <2>2, <2>3 DEF SaveStep
  <1>9. ASSUME NEW v \in Pollers \cup Humans, ApplyAnswer(v)
        PROVE  Goal
    <2>1. v \in Workers
      BY WorkersAssumption DEF Pollers
    <2> QED
      BY <1>3, <1>9, <2>1 DEF ApplyAnswer, Persist
  <1>10. ASSUME NEW o \in Ops, SellerBuys(o) \/ SellerRefuses(o) \/ SellerWorks(o)
         PROVE  Goal
    <2>1. UNCHANGED <<pc, target>>
      BY <1>10 DEF SellerBuys, SellerRefuses, SellerWorks, workerVars
    <2>2. CASE reply'[w] = reply[w]
      BY <1>1, <2>1, <2>2 DEF Busy
    <2>3. CASE reply'[w] # reply[w]
      <3>1. SellerBuys(o)
        <4>1. ~SellerWorks(o)
          BY <2>3 DEF SellerWorks, workerVars
        <4>2. ~SellerRefuses(o)
          BY <2>3 DEF SellerRefuses, AnswerBuy
        <4> QED
          BY <1>10, <4>1, <4>2
      <3>2. PICK s \in SellerStatus, t \in BOOLEAN :
              NewStatus(o, s) /\ \E r \in {s, "garbled"} : AnswerBuy(o, r, t)
        BY <3>1, Zenon DEF SellerBuys
      <3>3. pc[w] = "out" /\ target[w] = o /\ s = "completed"
        BY <2>3, <3>2 DEF AnswerBuy
      <3> QED
        BY <2>1, <3>2, <3>3 DEF NewStatus, Busy, IInv, TypeOK
    <2> QED
      BY <2>2, <2>3
  <1>11. CASE Crash
    BY <1>11 DEF Crash, NoReply
  <1> QED
    BY <1>2, <1>4, <1>5, <1>6, <1>7, <1>8, <1>9, <1>10, <1>11
    DEF Next, Restart, Serve, vars, workerVars

\* Every step keeps all of them honest.
LEMMA NextHonest == IInv /\ Honest /\ [Next]_vars => Honest'
  BY MemStaysHonest, TableStaysHonest, RowStaysHonest, ReplyStaysHonest,
     HooksStayHonest
  DEF Honest

-----------------------------------------------------------------------------
(* The refinement. *)

\* An empty tracker is an empty journal.
LEMMA JournalInit == Init => Journal!Init
  BY DEF Init, InitTracker, Journal!Init, Says, Tracked, NoTask

\* A commit is a Store, Send an Ask, a step of the seller a Complete, and all
\* else a Report.
LEMMA JournalNext ==
  ASSUME IInv, Honest, IInv', Honest', [Next]_vars
  PROVE  [Journal!Next]_Journal!journalVars
  <1> DEFINE stored == {o \in Ops : db[o] # NoRecord}
             bought == {o \in Ops : task[o].status = "completed"}
             reported == {o \in Ops : Says(o, "completed")}
  <1>1. reported' \subseteq bought'
    BY DEF Honest, MemHonest, Completed
  <1>2. CASE UNCHANGED <<db, sent, task>>
    <2>1. UNCHANGED <<stored, sent, bought>> /\ reported' \in SUBSET bought
      BY <1>1, <1>2
    <2> QED
      BY <2>1 DEF Journal!Next, Journal!Report
  <1>3. ASSUME NEW w \in Workers, Commit(w)
        PROVE  \E o \in Ops : Journal!Store(o)
    <2>1. target[w] \in Ops /\ stored' = stored \cup {target[w]}
      BY <1>3, CommitKeepsTable DEF IInv, TargetTracked, Busy, Commit, Stored
    <2>2. UNCHANGED <<mem, sent, task>>
      BY <1>3 DEF Commit, sellerVars
    <2> QED
      BY <2>1, <2>2 DEF Journal!Store, Says, Tracked
  <1>4. ASSUME NEW w \in Buyers, Send(w)
        PROVE  \E o \in Ops : Journal!Ask(o)
    <2>1. target[w] \in stored /\ sent' = sent \cup {target[w]} /\ UNCHANGED <<mem, db, task>>
      BY <1>4, WorkersAssumption
      DEF Send, IInv, TargetTracked, ReadyToSend, Busy, Stored, sellerVars
    <2> QED
      BY <2>1 DEF Journal!Ask, Says, Tracked
  <1>5. CASE SellerStep /\ task' # task
    <2>1. UNCHANGED <<mem, db, sent>>
      BY <1>5
      DEF SellerStep, SellerBuys, SellerRefuses, SellerWorks,
          SellerAnswersInput
    <2>2. PICK o \in sent : \A p \in Ops \ {o} : task'[p] = task[p]
      <3>1. ASSUME NEW o \in Ops, SellerBuys(o) \/ SellerRefuses(o) \/ SellerWorks(o)
            PROVE  o \in sent /\ \A p \in Ops \ {o} : task'[p] = task[p]
        <4>1. o \in sent
          BY <3>1
          DEF SellerBuys, SellerRefuses, SellerWorks, IInv, SellerWasAsked
        <4> QED
          BY <3>1, <4>1
          DEF SellerBuys, SellerRefuses, SellerWorks, NewStatus, IInv, TypeOK
      <3>2. ASSUME NEW w \in Humans, SellerAnswersInput(w)
            PROVE  \E o \in sent : \A p \in Ops \ {o} : task'[p] = task[p]
        <4>1. target[w] \in Ops
          BY <3>2, WorkersAssumption
          DEF SellerAnswersInput, IInv, TargetTracked, Busy
        <4>2. NewStatus(target[w], "working") \/ NewStatus(target[w], "completed")
              \/ NewStatus(target[w], "rejected")
          BY <1>5, <3>2 DEF SellerAnswersInput
        <4>3. target[w] \in sent
          BY <1>5, <3>2, <4>1 DEF SellerAnswersInput, IInv, SellerWasAsked
        <4> QED
          BY <4>1, <4>2, <4>3 DEF NewStatus, IInv, TypeOK
      <3> QED
        BY <1>5, <3>1, <3>2 DEF SellerStep
    <2>3. bought' = bought \/ bought' = bought \cup {o}
      BY <2>2, CompletedIsFinal DEF Completed
    <2> QED
      BY <2>1, <2>2, <2>3
      DEF Journal!Next, Journal!Complete, Journal!journalVars, Says, Tracked,
         IInv, TypeOK
  <1>6. SellerStep => UNCHANGED <<db, sent>>
    BY DEF SellerStep, SellerBuys, SellerRefuses, SellerWorks,
       SellerAnswersInput
  <1> QED
    BY <1>2, <1>3, <1>4, <1>5, <1>6, TaskChanges, TableChanges, SentChanges
    DEF Journal!Next

\* The tracker, the pollers, the webhooks and the restarts together keep what
\* BuyJournal promises of every purchase.
THEOREM BuyingKeepsJournal == Spec => KeepsJournal
  <1>1. Spec => [](IInv /\ Honest)
    BY InitIInv, InitHonest, NextIInv, NextHonest, PTL DEF Spec
  <1>2. IInv /\ Honest /\ (IInv /\ Honest)' /\ [Next]_vars => [Journal!Next]_Journal!journalVars
    BY JournalNext
  <1> QED
    BY <1>1, <1>2, JournalInit, PTL DEF Spec, KeepsJournal, Journal!Spec

=============================================================================
