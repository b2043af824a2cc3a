---------------------------- MODULE BuyingProofs ----------------------------
(***************************************************************************)
(* What holds of BuyingSystem for any operations, coroutines, crashes and  *)
(* status changes: its types, StoredBeforeSent and EventAppliedOnce.       *)
(***************************************************************************)
EXTENDS BuyingSystem, TLAPS

Stored(o) == db[o] # NoRecord

Busy(w) == pc[w] # "idle"

-----------------------------------------------------------------------------
(* The inductive invariant. *)

\* The seller knows of nothing it was not asked.
SellerWasAsked ==
  /\ \A o \in Ops : task[o].status # "none" => o \in sent
  /\ \A e \in hooks : e.op \in sent

\* A worker has an operation, in memory unless it is a webhook's.
TargetTracked ==
  \A w \in Workers : Busy(w) =>
    /\ target[w] \in Ops
    /\ w \notin Handlers \/ pc[w] \in {"save", "commit"} => Tracked(target[w])

\* A crash ends every coroutine.
DownIsIdle ==
  phase = "down" =>
    /\ \A w \in Workers : ~Busy(w)
    /\ \A w \in Pollers : batch[w] = {}

BatchStored ==
  \A w \in Pollers : \A o \in batch[w] : Stored(o) /\ Tracked(o)

\* Until its first commit an operation belongs to the one buyer that made it.
UnstoredIsPrivate ==
  \A o \in Ops : ~Stored(o) =>
    /\ Tracked(o) => mem[o].status = "pending"
    /\ \A w \in Workers : Busy(w) /\ target[w] = o =>
         /\ w \in Buyers
         /\ pc[w] \in {"save", "commit"}
         /\ \A v \in Workers : Busy(v) /\ target[v] = o => v = w

\* Memory never lacks an account that the table has.
MemKeepsAccount ==
  \A o \in Ops : Tracked(o) /\ Stored(o) => (db[o].account => mem[o].account)

\* A flush never takes an account out of the table.
RowKeepsAccount(w) ==
  pc[w] = "commit" =>
    /\ row[w] # NoRecord
    /\ row[w].account => mem[target[w]].account
    /\ base[w] = NoRecord => ~Stored(target[w])
    /\ base[w] # NoRecord =>
         /\ Stored(target[w])
         /\ base[w].account => row[w].account /\ db[target[w]].account

\* Who is about to apply an answer has one.
AnswerHeld ==
  \A w \in Workers :
    pc[w] \in {"answered", "dedup", "record", "apply"} => reply[w] # NoReply

\* What is about to be sent has its account in the table, or on its way there.
ReadyToSend(w) ==
  /\ then[w] # "idle" => w \in Buyers
  /\ pc[w] = "send" => Stored(target[w]) /\ db[target[w]].account
  /\ pc[w] = "save" /\ then[w] = "send" => mem[target[w]].account
  /\ pc[w] = "commit" /\ then[w] = "send" => row[w].account

IInv ==
  /\ TypeOK
  /\ SellerWasAsked
  /\ StoredBeforeSent
  /\ TargetTracked
  /\ DownIsIdle
  /\ BatchStored
  /\ UnstoredIsPrivate
  /\ MemKeepsAccount
  /\ AnswerHeld
  /\ \A w \in Workers : RowKeepsAccount(w) /\ ReadyToSend(w)

\* Initially nobody works and nothing is stored.
LEMMA InitIInv == Init => IInv
  <1> SUFFICES ASSUME Init PROVE IInv
    OBVIOUS
  <1>1. TypeOK
    BY WorkersAssumption
    DEF Init, InitTracker, TypeOK, TrackerTypeOK, NoTask, NoReply
  <1>2. SellerWasAsked /\ StoredBeforeSent
    BY DEF Init, SellerWasAsked, StoredBeforeSent, NoTask
  <1>3. TargetTracked /\ DownIsIdle
    BY DEF Init, TargetTracked, DownIsIdle, Busy
  <1>4. BatchStored
    BY DEF Init, BatchStored
  <1>5. UnstoredIsPrivate /\ MemKeepsAccount
    BY DEF Init, InitTracker, UnstoredIsPrivate, MemKeepsAccount, Busy, Stored,
       Tracked
  <1>6. AnswerHeld /\ \A w \in Workers : RowKeepsAccount(w) /\ ReadyToSend(w)
    BY DEF Init, AnswerHeld, RowKeepsAccount, ReadyToSend
  <1> QED
    BY <1>1, <1>2, <1>3, <1>4, <1>5, <1>6 DEF IInv

-----------------------------------------------------------------------------
(* What the operators of the tracker preserve. *)

\* Memory changed, but only at o, which is there and keeps its account.
MemoryKept(o) ==
  /\ mem' \in [Ops -> Records \cup {NoRecord}]
  /\ \A p \in Ops : p # o => mem'[p] = mem[p]
  /\ mem'[o] # NoRecord
  /\ mem[o].account => mem'[o].account

\* update_from_response sets a status and may add a task id.
LEMMA UpdateKeepsMemory ==
  ASSUME TypeOK, NEW o \in Ops, Tracked(o), NEW s \in Replies,
         NEW t \in BOOLEAN, 
         UpdateFromResponse(o, s, t)
  PROVE  MemoryKept(o)
  <1> DEFINE r == [mem[o] EXCEPT !.status = StatusOf(s), !.task = @ \/ t]
  <1>1. mem[o] \in Records /\ DOMAIN mem = Ops
    BY DEF TypeOK, TrackerTypeOK, Tracked
  <1>2. mem' = [mem EXCEPT ![o] = r]
    BY <1>1 DEF UpdateFromResponse
  <1>3. StatusOf(s) \in TaskStatus
    BY DEF StatusOf, Replies, TaskStatus, SellerStatus
  <1>4. r \in Records /\ r.account = mem[o].account
    BY <1>1, <1>3 DEF Records
  <1> HIDE DEF r
  <1> QED
    BY <1>2, <1>4, WorkersAssumption DEF MemoryKept, TypeOK, TrackerTypeOK

\* mark_failed changes nothing but the status.
LEMMA FailureKeepsMemory ==
  ASSUME TypeOK, NEW o \in Ops, Tracked(o), MarkFailed(o)
  PROVE  MemoryKept(o)
  <1> DEFINE r == [mem[o] EXCEPT !.status = "failed"]
  <1>1. mem[o] \in Records /\ DOMAIN mem = Ops
    BY DEF TypeOK, TrackerTypeOK, Tracked
  <1>2. mem' = [mem EXCEPT ![o] = r]
    BY <1>1 DEF MarkFailed
  <1>3. r \in Records /\ r.account = mem[o].account
    BY <1>1 DEF Records, TaskStatus
  <1> HIDE DEF r
  <1> QED
    BY <1>2, <1>3, WorkersAssumption DEF MemoryKept, TypeOK, TrackerTypeOK

\* A prepared buy has its account in memory.
LEMMA PrepareKeepsMemory ==
  ASSUME TypeOK, NEW w \in Buyers, Prepare(w), target[w] \in Ops,
         Tracked(target[w])
  PROVE  MemoryKept(target[w]) /\ mem'[target[w]].account
  <1> DEFINE o == target[w]
             r == [mem[o] EXCEPT !.account = TRUE]
  <1>1. mem[o] \in Records /\ DOMAIN mem = Ops
    BY DEF TypeOK, TrackerTypeOK, Tracked
  <1>2. mem' = [mem EXCEPT ![o] = r]
    BY <1>1 DEF Prepare
  <1>3. r \in Records
    BY <1>1 DEF Records
  <1>4. r.account
    BY <1>1 DEF Records
  <1> HIDE DEF r
  <1>5. /\ mem' \in [Ops -> Records \cup {NoRecord}]
        /\ \A p \in Ops : p # o => mem'[p] = mem[p]
        /\ mem'[o] # NoRecord
        /\ mem'[o] = r
    BY <1>2, <1>3, WorkersAssumption DEF TypeOK, TrackerTypeOK
  <1> QED
    BY <1>4, <1>5, Zenon DEF MemoryKept

\* A flush never takes the account away, and makes a record of the row.
LEMMA CommitKeepsTable ==
  ASSUME IInv, NEW w \in Workers, Commit(w)
  PROVE  LET o == target[w] IN
         /\ db' \in [Ops -> Records \cup {NoRecord}]
         /\ \A p \in Ops : p # o => db'[p] = db[p]
         /\ db'[o] # NoRecord
         /\ row[w].account => db'[o].account
         /\ Stored(o) => (db[o].account => db'[o].account)
         /\ db'[o].account => mem[o].account
  <1> DEFINE o == target[w]
             r == Flushed(w, o)
  <1>1. o \in Ops /\ row[w] \in Records /\ RowKeepsAccount(w) /\ pc[w] = "commit"
        /\ Tracked(o)
    BY DEF IInv, TypeOK, TrackerTypeOK, TargetTracked, Busy, RowKeepsAccount,
       Commit
  <1>2. db' = [db EXCEPT ![o] = r]
    BY DEF Commit, CommitRow
  <1>3. /\ r \in Records
        /\ row[w].account => r.account
        /\ Stored(o) => (db[o].account => r.account)
        /\ r.account => mem[o].account
    <2>1. CASE base[w] = NoRecord
      BY <1>1, <2>1 DEF Flushed, RowKeepsAccount
    <2>2. CASE base[w] # NoRecord
      <3>1. base[w] \in Records /\ db[o] \in Records
        BY <1>1, <2>2 DEF IInv, TypeOK, TrackerTypeOK, RowKeepsAccount, Stored
      <3>2. DOMAIN db[o] = {"status", "task", "account"}
        BY <3>1 DEF Records
      <3>3. r = [k \in {"status", "task", "account"} |->
                   IF row[w][k] # base[w][k] THEN row[w][k] ELSE db[o][k]]
        BY <2>2, <3>2 DEF Flushed
      <3>4. /\ r.status \in TaskStatus
            /\ r.task \in BOOLEAN
            /\ r.account \in BOOLEAN
            /\ r.account = IF row[w].account # base[w].account
                           THEN row[w].account ELSE db[o].account
        BY <1>1, <3>1, <3>3, Zenon DEF Records
      <3>5. r = [status |-> r.status, task |-> r.task, account |-> r.account]
        BY <3>3
      <3>6. r \in Records
        BY <3>4, <3>5 DEF Records
      <3>7. /\ row[w].account => mem[o].account
            /\ base[w].account => row[w].account /\ db[o].account
            /\ db[o].account => mem[o].account
        BY <1>1, <2>2, Zenon DEF RowKeepsAccount, IInv, MemKeepsAccount, Stored
      <3>8. base[w].account \in BOOLEAN /\ row[w].account \in BOOLEAN
        BY <1>1, <3>1, Zenon DEF Records
      <3> HIDE DEF r
      <3>9. CASE row[w].account = base[w].account
        BY <3>4, <3>6, <3>7, <3>9, Zenon
      <3>10. CASE row[w].account # base[w].account
        <4>1. row[w].account
          BY <3>7, <3>8, <3>10, Zenon
        <4> QED
          BY <3>4, <3>6, <3>7, <3>10, <4>1, Zenon
      <3> QED
        BY <3>9, <3>10, Zenon
    <2> QED
      BY <2>1, <2>2
  <1> HIDE DEF r
  <1> QED
    BY <1>1, <1>2, <1>3, WorkersAssumption DEF IInv, TypeOK, TrackerTypeOK


\* The seller's bookkeeping stays within the bound MaxSeq.
LEMMA NewStatusTypes ==
  ASSUME TypeOK, NEW o \in Ops, NEW s \in SellerStatus, NewStatus(o, s)
  PROVE  /\ task' \in [Ops -> Tasks \cup {NoTask}]
         /\ hooks \subseteq hooks' /\ hooks' \subseteq Events
  <1>1. task[o].seq + 1 \in 1 .. MaxSeq
    BY WorkersAssumption DEF TypeOK, NewStatus, Tasks, NoTask
  <1>2. task' \in [Ops -> Tasks \cup {NoTask}]
    BY <1>1 DEF TypeOK, NewStatus, Tasks
  <1>3. hooks \subseteq hooks' /\ hooks' \subseteq Events
    BY <1>1 DEF TypeOK, NewStatus, Events, Replies
  <1> QED
    BY <1>2, <1>3

-----------------------------------------------------------------------------
(* Steps of two shapes, which many actions have. *)

\* A worker whose coroutine ends, nothing else changing, disturbs nothing.
LEMMA LeaveKeeps ==
  ASSUME IInv, NEW w \in Workers, Leave(w),
         UNCHANGED <<mem, db, phase, crashes, batch, sent, task, hooks>>,
         events' \subseteq Ops \X (0 .. MaxSeq), acked' \subseteq hooks, applied' \subseteq hooks
  PROVE  IInv'
  <1>1. TypeOK'
    BY WorkersAssumption
    DEF IInv, TypeOK, TrackerTypeOK, Leave, GoTo, ReleaseRow
  <1>2. SellerWasAsked' /\ StoredBeforeSent' /\ MemKeepsAccount'
    BY DEF IInv, SellerWasAsked, StoredBeforeSent, MemKeepsAccount, Stored,
       Tracked
  <1>3. \A v \in Workers :
          /\ Busy(v)' => v # w /\ Busy(v)
          /\ v # w => /\ pc'[v] = pc[v] /\ target'[v] = target[v] /\ then'[v] = then[v]
                      /\ reply'[v] = reply[v] /\ row'[v] = row[v] /\ base'[v] = base[v]
    BY DEF IInv, TypeOK, TrackerTypeOK, Leave, GoTo, ReleaseRow, Busy
  <1>4. pc'[w] = "idle" /\ then'[w] = "idle"
    BY DEF IInv, TypeOK, Leave, GoTo
  <1>5. TargetTracked' /\ DownIsIdle' /\ BatchStored' /\ AnswerHeld'
    BY <1>3, <1>4
    DEF IInv, TargetTracked, DownIsIdle, BatchStored, AnswerHeld, Busy, Stored,
        Tracked
  <1>6. UnstoredIsPrivate'
    BY <1>3 DEF IInv, UnstoredIsPrivate, Stored, Tracked, Busy
  <1>7. \A v \in Workers : RowKeepsAccount(v)' /\ ReadyToSend(v)'
    BY <1>3, <1>4 DEF IInv, RowKeepsAccount, ReadyToSend, Stored
  <1> QED
    BY <1>1, <1>2, <1>5, <1>6, <1>7 DEF IInv

\* Nor does a worker that goes into, or on with, a persist of an operation
\* already stored.
LEMMA PersistKeeps ==
  ASSUME IInv, NEW w \in Workers, NEW o \in Ops, target[w] = o, Tracked(o),
         Stored(o), phase # "down", 
         MemoryKept(o), GoTo(w, "save"), NEW c \in {"idle", "send"},
         then' = [then EXCEPT ![w] = c],
         c = "send" => w \in Buyers /\ mem'[o].account,
         reply' \in [Workers -> Messages \cup {NoReply}],
         \A v \in Workers : v # w => reply'[v] = reply[v],
         row' \in [Workers -> Records \cup {NoRecord}],
         base' \in [Workers -> Records \cup {NoRecord}],
         \A v \in Workers : v # w => row'[v] = row[v] /\ base'[v] = base[v],
         applied' \subseteq hooks,
         UNCHANGED <<db, events, phase, crashes, target, batch, sent, task, hooks, acked>>
  PROVE  IInv'
  <1>1. TypeOK'
    BY DEF IInv, TypeOK, TrackerTypeOK, MemoryKept, GoTo
  <1>2. SellerWasAsked' /\ StoredBeforeSent'
    BY DEF IInv, SellerWasAsked, StoredBeforeSent
  <1>3. \A p \in Ops : /\ Tracked(p) => Tracked(p)'
                       /\ Tracked(p) => (mem[p].account => mem'[p].account)
                       /\ Stored(p)' = Stored(p)
    BY Zenon DEF MemoryKept, Tracked, Stored
  <1>4. \A v \in Workers : v # w => pc'[v] = pc[v] /\ then'[v] = then[v]
    BY DEF IInv, TypeOK, GoTo
  <1>5. pc'[w] = "save" /\ then'[w] = c
    BY DEF IInv, TypeOK, GoTo
  <1>6. Tracked(o)'
    BY DEF MemoryKept, Tracked
  <1>7. TargetTracked'
    BY <1>3, <1>4, <1>5, <1>6 DEF IInv, TargetTracked, Busy
  <1>8. DownIsIdle' /\ AnswerHeld'
    BY <1>4, <1>5 DEF IInv, DownIsIdle, AnswerHeld
  <1>9. BatchStored'
    BY <1>3 DEF IInv, BatchStored, TypeOK
  <1>10. UnstoredIsPrivate'
    BY <1>3, <1>4, <1>5
    DEF IInv, UnstoredIsPrivate, MemoryKept, Tracked, Stored, Busy
  <1>11. MemKeepsAccount'
    BY <1>3, Zenon DEF IInv, MemKeepsAccount, MemoryKept, Tracked, Stored
  <1>12. \A v \in Workers : RowKeepsAccount(v)' /\ ReadyToSend(v)'
    <2> SUFFICES ASSUME NEW v \in Workers PROVE RowKeepsAccount(v)' /\ ReadyToSend(v)'
      OBVIOUS
    <2>1. RowKeepsAccount(v) /\ ReadyToSend(v)
      BY DEF IInv
    <2>2. CASE v = w
      BY <1>5, <2>2 DEF RowKeepsAccount, ReadyToSend
    <2>3. CASE v # w
      <3>1. pc'[v] # "idle" => target[v] \in Ops /\ (Tracked(target[v]) \/ pc[v] \notin {"save", "commit"})
        BY <1>4, <2>3 DEF IInv, TargetTracked, Busy
      <3> QED
        BY <1>3, <1>4, <2>1, <2>3, <3>1, Zenon
        DEF RowKeepsAccount, ReadyToSend, Stored
    <2> QED
      BY <2>2, <2>3
  <1> QED
    BY <1>1, <1>2, <1>7, <1>8, <1>9, <1>10, <1>11, <1>12 DEF IInv

-----------------------------------------------------------------------------
(* One lemma per action. *)

\* A commit is safe whatever happened since its worker loaded the row.
LEMMA CommitKeeps ==
  ASSUME IInv, NEW w \in Workers, Commit(w)
  PROVE  IInv'
  <1> DEFINE o == target[w]
  <1>1. o \in Ops /\ Tracked(o) /\ pc[w] = "commit"
    BY DEF IInv, TargetTracked, Busy, Commit
  <1>2. /\ db' \in [Ops -> Records \cup {NoRecord}]
        /\ \A p \in Ops : p # o => db'[p] = db[p]
        /\ db'[o] # NoRecord
        /\ row[w].account => db'[o].account
        /\ Stored(o) => (db[o].account => db'[o].account)
        /\ db'[o].account => mem[o].account
    BY CommitKeepsTable
  <1>3. /\ pc' = [pc EXCEPT ![w] = then[w]]
        /\ row' = [row EXCEPT ![w] = NoRecord]
        /\ base' = [base EXCEPT ![w] = NoRecord]
        /\ UNCHANGED <<mem, events, phase, crashes, batch, sent, task, hooks, applied>>
    BY DEF Commit, Leave, ReleaseRow, GoTo, sellerVars
  <1>4. /\ then' = then \/ then' = [then EXCEPT ![w] = "idle"]
        /\ target' = target \/ target' = [target EXCEPT ![w] = NoOp]
        /\ reply' = reply \/ reply' = [reply EXCEPT ![w] = NoReply]
        /\ then[w] # "idle" => UNCHANGED <<then, target, reply>>
    BY DEF Commit, Leave, ReleaseRow, GoTo
  <1>5. acked' \subseteq hooks
    BY DEF Commit, Ack, IInv, TypeOK
  <1>6. TypeOK'
    BY <1>2, <1>3, <1>4, <1>5, WorkersAssumption
    DEF IInv, TypeOK, TrackerTypeOK
  <1>7. SellerWasAsked'
    BY <1>3 DEF SellerWasAsked, IInv
  <1>8. StoredBeforeSent'
    BY <1>2, <1>3 DEF StoredBeforeSent, IInv, TypeOK, Stored
  <1>9. MemKeepsAccount'
    BY <1>2, <1>3 DEF MemKeepsAccount, IInv, Stored, Tracked
  <1>10. \A v \in Workers :
          /\ Busy(v)' => Busy(v) /\ target'[v] = target[v] /\ then'[v] = then[v]
                      /\ reply'[v] = reply[v]
          /\ v # w => pc'[v] = pc[v] /\ row'[v] = row[v] /\ base'[v] = base[v]
    BY <1>1, <1>3, <1>4 DEF Busy, IInv, TypeOK, TrackerTypeOK
  <1>11. pc'[w] \in {"idle", "prepare", "send"} /\ pc'[w] = then[w]
    BY <1>3 DEF IInv, TypeOK
  <1>12. TargetTracked'
    BY <1>1, <1>3, <1>10, <1>11 DEF IInv, TargetTracked, Tracked
  <1>13. DownIsIdle'
    BY <1>1, <1>3 DEF IInv, DownIsIdle, Busy
  <1>16. \A p \in Ops : Stored(p) \/ p = o <=> Stored(p)'
    BY <1>2 DEF Stored
  <1>14. BatchStored'
    BY <1>3, <1>16 DEF IInv, TypeOK, BatchStored, Tracked
  <1>15. AnswerHeld'
    BY <1>10, <1>11 DEF IInv, AnswerHeld, Busy
  <1>17. UnstoredIsPrivate'
    BY <1>1, <1>3, <1>10, <1>16 DEF IInv, UnstoredIsPrivate, Tracked, Busy
  <1>18. \A v \in Workers : RowKeepsAccount(v)'
    <2> SUFFICES ASSUME NEW v \in Workers, pc'[v] = "commit"
                 PROVE  RowKeepsAccount(v)'
      BY DEF RowKeepsAccount
    <2>1. /\ v # w /\ pc[v] = "commit" /\ Busy(v) /\ target'[v] = target[v]
          /\ row'[v] = row[v] /\ base'[v] = base[v]
      BY <1>10, <1>11 DEF Busy
    <2>2. target[v] \in Ops /\ RowKeepsAccount(v)
      BY <2>1 DEF IInv, TargetTracked
    <2>3. base[v] = NoRecord => target[v] # o
      BY <1>1, <2>1, <2>2 DEF IInv, UnstoredIsPrivate, RowKeepsAccount, Busy
    <2>4. Stored(target[v]) => (db[target[v]].account => db'[target[v]].account)
      BY <1>2, <2>2
    <2> QED
      BY <1>3, <1>16, <2>1, <2>2, <2>3, <2>4, Zenon DEF RowKeepsAccount
  <1>19. \A v \in Workers : ReadyToSend(v)'
    <2> SUFFICES ASSUME NEW v \in Workers PROVE ReadyToSend(v)'
      OBVIOUS
    <2>1. ReadyToSend(v)
      BY DEF IInv
    <2>2. then'[v] = then[v] \/ then'[v] = "idle"
      BY <1>4 DEF IInv, TypeOK
    <2>3. CASE v = w
      <3>1. then'[v] # "idle" => v \in Buyers
        BY <2>1, <2>2 DEF ReadyToSend
      <3>2. pc'[v] = "send" => then[w] = "send" /\ target'[v] = o /\ Stored(o)'
        BY <1>2, <1>10, <1>11, <2>3 DEF Busy, Stored
      <3>3. pc'[v] = "send" => db'[o].account
        BY <1>1, <1>2, <2>1, <2>3, <3>2, Zenon DEF ReadyToSend
      <3> QED
        BY <1>11, <2>3, <3>1, <3>2, <3>3 DEF ReadyToSend
    <2>4. CASE v # w
      <3>1. pc'[v] = pc[v] /\ row'[v] = row[v] /\ (Busy(v)' => target'[v] = target[v])
        BY <1>10, <2>4
      <3>2. CASE Busy(v)'
        <4>1. target[v] \in Ops /\ target'[v] = target[v]
          BY <1>10, <3>2 DEF IInv, TargetTracked
        <4>2. Stored(target[v]) => Stored(target[v])' /\ (db[target[v]].account => db'[target[v]].account)
          BY <1>2, <4>1, Zenon DEF Stored
        <4> QED
          BY <1>3, <2>1, <2>2, <3>1, <4>1, <4>2, Zenon DEF ReadyToSend
      <3>3. CASE ~Busy(v)'
        BY <2>1, <2>2, <3>3 DEF ReadyToSend, Busy
      <3> QED
        BY <3>2, <3>3
    <2> QED
      BY <2>3, <2>4
  <1> QED
    BY <1>6, <1>7, <1>8, <1>9, <1>12, <1>13, <1>14, <1>15, <1>17, <1>18, <1>19
    DEF IInv

\* From here on the account is in memory, and about to be persisted.
LEMMA PrepareKeeps ==
  ASSUME IInv, NEW w \in Buyers, Prepare(w)
  PROVE  IInv'
  <1>1. /\ w \in Workers /\ target[w] \in Ops /\ phase # "down"
        /\ Tracked(target[w]) /\ Stored(target[w])
    BY WorkersAssumption
    DEF IInv, TargetTracked, UnstoredIsPrivate, DownIsIdle, Busy, Prepare
  <1>2. MemoryKept(target[w]) /\ mem'[target[w]].account
    BY <1>1, PrepareKeepsMemory DEF IInv
  <1> QED
    BY <1>1, <1>2, PersistKeeps
    DEF Prepare, Persist, IInv, TypeOK, TrackerTypeOK, sellerVars

\* A failed buy is marked failed, and persisted.
LEMMA BuyFailsKeeps ==
  ASSUME IInv, NEW w \in Buyers, BuyFails(w)
  PROVE  IInv'
  <1>1. /\ w \in Workers /\ target[w] \in Ops /\ phase # "down"
        /\ Tracked(target[w]) /\ Stored(target[w])
    BY WorkersAssumption
    DEF IInv, TargetTracked, UnstoredIsPrivate, DownIsIdle, Busy, BuyFails
  <1>2. MemoryKept(target[w])
    BY <1>1, FailureKeepsMemory DEF IInv, BuyFails
  <1> QED
    BY <1>1, <1>2, PersistKeeps
    DEF BuyFails, Persist, IInv, TypeOK, TrackerTypeOK, sellerVars

\* The seller's answer to a buy is applied, and persisted.
LEMMA BuyAnsweredKeeps ==
  ASSUME IInv, NEW w \in Buyers, BuyAnswered(w)
  PROVE  IInv'
  <1>1. /\ w \in Workers /\ target[w] \in Ops /\ phase # "down"
        /\ Tracked(target[w]) /\ Stored(target[w])
    BY WorkersAssumption
    DEF IInv, TargetTracked, UnstoredIsPrivate, DownIsIdle, Busy, BuyAnswered
  <1>2. reply[w].status \in Replies /\ reply[w].task \in BOOLEAN
    BY <1>1 DEF IInv, TypeOK, Messages, BuyAnswered
  <1>3. MemoryKept(target[w])
    BY <1>1, <1>2, UpdateKeepsMemory DEF IInv, BuyAnswered
  <1> QED
    BY <1>1, <1>3, PersistKeeps
    DEF BuyAnswered, Persist, IInv, TypeOK, TrackerTypeOK, sellerVars

\* A poll or an input answered late is applied to a stored operation.
LEMMA ApplyAnswerKeeps ==
  ASSUME IInv, NEW w \in Pollers \cup Humans, ApplyAnswer(w)
  PROVE  IInv'
  <1>1. /\ w \in Workers \ (Buyers \cup Handlers)
        /\ target[w] \in Ops /\ phase # "down" /\ reply[w] # NoReply
    BY WorkersAssumption
    DEF IInv, TargetTracked, DownIsIdle, AnswerHeld, Busy, ApplyAnswer, Pollers
  <1>2. Tracked(target[w]) /\ Stored(target[w])
    BY <1>1 DEF IInv, TargetTracked, UnstoredIsPrivate, Busy, ApplyAnswer
  <1>3. reply[w].status \in Replies /\ reply[w].task \in BOOLEAN
    BY <1>1 DEF IInv, TypeOK, Messages
  <1>4. MemoryKept(target[w])
    BY <1>1, <1>2, <1>3, UpdateKeepsMemory DEF IInv, ApplyAnswer
  <1> QED
    BY <1>1, <1>2, <1>4, PersistKeeps
    DEF ApplyAnswer, Persist, IInv, TypeOK, TrackerTypeOK, sellerVars

\* A refused input marks its operation failed.
LEMMA InputFailsKeeps ==
  ASSUME IInv, NEW w \in Humans, InputFails(w)
  PROVE  IInv'
  <1>1. /\ w \in Workers \ Handlers /\ target[w] \in Ops /\ phase # "down"
        /\ Tracked(target[w]) /\ Stored(target[w])
    BY WorkersAssumption
    DEF IInv, TargetTracked, UnstoredIsPrivate, DownIsIdle, Busy, InputFails
  <1>2. MemoryKept(target[w])
    BY <1>1, FailureKeepsMemory DEF IInv, InputFails
  <1>3. then[w] = "idle" /\ then = [then EXCEPT ![w] = "idle"]
    BY WorkersAssumption DEF IInv, TypeOK, ReadyToSend
  <1> QED
    BY <1>1, <1>2, <1>3, PersistKeeps
    DEF InputFails, IInv, TypeOK, TrackerTypeOK, sellerVars

\* A webhook changes its operation, or ends when that is not tracked.
LEMMA ApplyEventKeeps ==
  ASSUME IInv, NEW w \in Handlers, ApplyEvent(w)
  PROVE  IInv'
  <1>1. /\ w \in Workers \ (Buyers \cup Pollers \cup Humans)
        /\ target[w] \in Ops /\ phase # "down" /\ reply[w] # NoReply
        /\ Stored(target[w])
    BY WorkersAssumption
    DEF IInv, TargetTracked, UnstoredIsPrivate, DownIsIdle, AnswerHeld,
       Busy, ApplyEvent, Pollers
  <1>2. CASE Tracked(target[w])
    <2>1. PICK s \in {reply[w].status, "garbled", "errors"} : UpdateFromResponse(target[w], s, TRUE)
      BY <1>2 DEF ApplyEvent
    <2>2. s \in Replies
      BY <1>1, <2>1 DEF IInv, TypeOK, Messages, Replies
    <2>3. MemoryKept(target[w])
      BY <1>1, <1>2, <2>1, <2>2, UpdateKeepsMemory DEF IInv
    <2>4. applied' \subseteq hooks /\ acked' = acked /\ Persist(w, "idle")
          /\ UNCHANGED <<db, events, phase, crashes, batch, sent, task, hooks>>
      BY <1>2 DEF ApplyEvent, IInv, TypeOK, sellerVars
    <2> QED
      BY <1>1, <1>2, <2>3, <2>4, PersistKeeps
      DEF Persist, IInv, TypeOK, TrackerTypeOK
  <1>3. CASE ~Tracked(target[w])
    <2>1. Leave(w) /\ acked' \subseteq hooks /\ UNCHANGED <<mem, applied>>
      BY <1>3 DEF ApplyEvent, Ack, IInv, TypeOK
    <2> QED
      BY <1>1, <2>1, LeaveKeeps DEF ApplyEvent, IInv, TypeOK, sellerVars
  <1> QED
    BY <1>2, <1>3

\* A refused commit leaves the table as it is.
LEMMA PersistFailsKeeps ==
  ASSUME IInv, NEW w \in Workers, PersistFails(w)
  PROVE  IInv'
  <1>1. CASE w \in Humans /\ reply[w] # NoReply
    <2>1. /\ w \notin Buyers /\ target[w] \in Ops /\ phase # "down"
          /\ Tracked(target[w]) /\ Stored(target[w])
      BY <1>1, WorkersAssumption
      DEF IInv, TargetTracked, UnstoredIsPrivate, DownIsIdle, Busy,
         PersistFails
    <2>2. MarkFailed(target[w]) /\ GoTo(w, "save") /\ ReleaseRow(w)
          /\ reply' = [reply EXCEPT ![w] = NoReply] /\ UNCHANGED <<then, target>>
      BY <1>1 DEF PersistFails
    <2>3. MemoryKept(target[w])
      BY <2>1, <2>2, FailureKeepsMemory DEF IInv
    <2>4. then[w] = "idle" /\ then = [then EXCEPT ![w] = "idle"]
      BY <2>1 DEF IInv, TypeOK, ReadyToSend
    <2> QED
      BY <2>1, <2>2, <2>3, <2>4, PersistKeeps
      DEF PersistFails, ReleaseRow, IInv, TypeOK,
         TrackerTypeOK, sellerVars
  <1>2. CASE ~(w \in Humans /\ reply[w] # NoReply)
    BY <1>2, LeaveKeeps DEF PersistFails, IInv, TypeOK, sellerVars
  <1> QED
    BY <1>1, <1>2

\* What is copied into the row was in memory, with its account.
LEMMA CopyKeeps ==
  ASSUME IInv, NEW w \in Workers, Copy(w)
  PROVE  IInv'
  <1>1. TypeOK'
    BY DEF TypeOK, TrackerTypeOK, IInv, sellerVars, TargetTracked, Busy, Copy,
       CopyToRow, GoTo
  <1>2. SellerWasAsked' /\ StoredBeforeSent' /\ MemKeepsAccount'
    BY DEF IInv, SellerWasAsked, StoredBeforeSent, MemKeepsAccount, Stored,
       Tracked, sellerVars, Copy
  <1>3. TargetTracked' /\ DownIsIdle' /\ BatchStored' /\ AnswerHeld'
    BY DEF IInv, AnswerHeld, TargetTracked, DownIsIdle, BatchStored, Busy,
       Stored, Tracked, Copy, GoTo
  <1>4. UnstoredIsPrivate'
    BY DEF IInv, UnstoredIsPrivate, Busy, Stored, Tracked, Copy, GoTo
  <1>5. \A v \in Workers : RowKeepsAccount(v)' /\ ReadyToSend(v)'
    BY DEF IInv, TargetTracked, MemKeepsAccount, RowKeepsAccount, ReadyToSend,
       Busy, Stored, Tracked, TypeOK, TrackerTypeOK, Copy, CopyToRow, GoTo
  <1> QED
    BY <1>1, <1>2, <1>3, <1>4, <1>5 DEF IInv

\* Only what is stored with its account is sent.
LEMMA SendKeeps ==
  ASSUME IInv, NEW w \in Buyers, Send(w)
  PROVE  IInv'
  <1>1. TypeOK'
    BY WorkersAssumption
    DEF TypeOK, TrackerTypeOK, IInv, sellerVars, TargetTracked, Busy, Send,
        GoTo
  <1>2. SellerWasAsked' /\ StoredBeforeSent' /\ MemKeepsAccount'
    BY WorkersAssumption
    DEF IInv, SellerWasAsked, StoredBeforeSent, MemKeepsAccount, ReadyToSend,
        Stored, Tracked, sellerVars, Send
  <1>3. TargetTracked' /\ DownIsIdle' /\ BatchStored' /\ AnswerHeld'
    BY DEF IInv, AnswerHeld, TargetTracked, DownIsIdle, BatchStored, Busy,
       Stored, Tracked, Send, GoTo
  <1>4. UnstoredIsPrivate'
    BY DEF IInv, UnstoredIsPrivate, Busy, Stored, Tracked, Send, GoTo
  <1>5. \A v \in Workers : RowKeepsAccount(v)' /\ ReadyToSend(v)'
    BY DEF IInv, RowKeepsAccount, ReadyToSend, Stored, Send, GoTo
  <1> QED
    BY <1>1, <1>2, <1>3, <1>4, <1>5 DEF IInv

\* A poller takes operations that are stored: the others are pending.
LEMMA BeginPollKeeps ==
  ASSUME IInv, NEW w \in Pollers, BeginPoll(w)
  PROVE  IInv'
  <1>1. TypeOK'
    BY DEF TypeOK, TrackerTypeOK, IInv, workerVars, sellerVars, BeginPoll,
       Pending
  <1>2. SellerWasAsked' /\ StoredBeforeSent' /\ MemKeepsAccount'
    BY DEF IInv, SellerWasAsked, StoredBeforeSent, MemKeepsAccount, Stored,
       Tracked, sellerVars, BeginPoll
  <1>3. TargetTracked' /\ DownIsIdle' /\ BatchStored' /\ AnswerHeld'
    BY DEF IInv, AnswerHeld, TargetTracked, DownIsIdle, BatchStored,
       UnstoredIsPrivate, Busy, Stored, Tracked, workerVars, BeginPoll,
       Pending, NeedsPolling
  <1>4. UnstoredIsPrivate'
    BY DEF IInv, UnstoredIsPrivate, Busy, Stored, Tracked, workerVars,
       BeginPoll
  <1>5. \A v \in Workers : RowKeepsAccount(v)' /\ ReadyToSend(v)'
    BY DEF IInv, RowKeepsAccount, ReadyToSend, Stored, workerVars, BeginPoll
  <1> QED
    BY <1>1, <1>2, <1>3, <1>4, <1>5 DEF IInv

\* It takes up one operation of its batch.
LEMMA PollNextKeeps ==
  ASSUME IInv, NEW w \in Pollers, NEW o \in Ops, PollNext(w, o)
  PROVE  IInv'
  <1>1. TypeOK'
    BY DEF TypeOK, TrackerTypeOK, IInv, sellerVars, PollNext, GoTo
  <1>2. SellerWasAsked' /\ StoredBeforeSent' /\ MemKeepsAccount'
    BY DEF IInv, SellerWasAsked, StoredBeforeSent, MemKeepsAccount, Stored,
       Tracked, sellerVars, PollNext
  <1>3. TargetTracked' /\ DownIsIdle' /\ BatchStored' /\ AnswerHeld'
    BY DEF IInv, AnswerHeld, TargetTracked, DownIsIdle, BatchStored, Busy,
       Stored, Tracked, TypeOK, PollNext, GoTo
  <1>4. UnstoredIsPrivate'
    BY DEF IInv, BatchStored, UnstoredIsPrivate, Busy, Stored, Tracked, TypeOK,
       PollNext, GoTo
  <1>5. \A v \in Workers : RowKeepsAccount(v)' /\ ReadyToSend(v)'
    BY DEF IInv, RowKeepsAccount, ReadyToSend, Stored, TypeOK, PollNext, GoTo
  <1> QED
    BY <1>1, <1>2, <1>3, <1>4, <1>5 DEF IInv

\* It gets the seller's answer.
LEMMA TaskReadKeeps ==
  ASSUME IInv, NEW w \in Pollers, TaskRead(w)
  PROVE  IInv'
  <1>1. TypeOK'
    BY WorkersAssumption
    DEF TypeOK, TrackerTypeOK, Messages, Tasks, Replies, IInv, Pollers,
        sellerVars, TargetTracked, Busy, TaskRead, GoTo
  <1>2. SellerWasAsked' /\ StoredBeforeSent' /\ MemKeepsAccount'
    BY DEF IInv, SellerWasAsked, StoredBeforeSent, MemKeepsAccount, Stored,
       Tracked, sellerVars, TaskRead
  <1>3. TargetTracked' /\ DownIsIdle' /\ BatchStored' /\ AnswerHeld'
    BY DEF IInv, AnswerHeld, TargetTracked, DownIsIdle, BatchStored, Busy,
       Stored, Tracked, TypeOK, TaskRead, GoTo, NoReply
  <1>4. UnstoredIsPrivate'
    BY DEF IInv, UnstoredIsPrivate, Busy, Stored, Tracked, TaskRead, GoTo
  <1>5. \A v \in Workers : RowKeepsAccount(v)' /\ ReadyToSend(v)'
    BY DEF IInv, RowKeepsAccount, ReadyToSend, Stored, TaskRead, GoTo
  <1> QED
    BY <1>1, <1>2, <1>3, <1>4, <1>5 DEF IInv

\* A webhook is of an operation the seller was asked for.
LEMMA DeliverKeeps ==
  ASSUME IInv, NEW w \in Handlers, NEW e \in hooks, Deliver(w, e)
  PROVE  IInv'
  <1>1. TypeOK'
    BY WorkersAssumption
    DEF TypeOK, TrackerTypeOK, Messages, Events, IInv, sellerVars, Deliver,
        GoTo
  <1>2. SellerWasAsked' /\ StoredBeforeSent' /\ MemKeepsAccount'
    BY DEF IInv, SellerWasAsked, StoredBeforeSent, MemKeepsAccount, Stored,
       Tracked, sellerVars, Deliver
  <1>3. TargetTracked' /\ DownIsIdle' /\ BatchStored' /\ AnswerHeld'
    BY DEF IInv, AnswerHeld, TargetTracked, DownIsIdle, BatchStored, Busy,
       Stored, Tracked, TypeOK, Deliver, GoTo, NoReply, Events
  <1>4. UnstoredIsPrivate'
    BY DEF IInv, SellerWasAsked, StoredBeforeSent, UnstoredIsPrivate, Busy,
       Stored, Tracked, TypeOK, Deliver, GoTo
  <1>5. \A v \in Workers : RowKeepsAccount(v)' /\ ReadyToSend(v)'
    BY DEF IInv, RowKeepsAccount, ReadyToSend, Stored, Deliver, GoTo
  <1> QED
    BY <1>1, <1>2, <1>3, <1>4, <1>5 DEF IInv

\* A delivery goes on to mark, or to apply, its event.
LEMMA HandlerGoesOnKeeps ==
  ASSUME IInv, NEW w \in Handlers, pc[w] \in {"dedup", "record"},
         NEW l \in {"record", "apply"}, GoTo(w, l),
         events' \subseteq Ops \X (0 .. MaxSeq),
         UNCHANGED <<mem, db, then, target, reply, row, base, phase, crashes,
                     batch, sent, sellerVars, acked, applied>>
  PROVE  IInv'
  <1>1. TypeOK'
    BY WorkersAssumption DEF TypeOK, TrackerTypeOK, IInv, sellerVars, GoTo
  <1>2. SellerWasAsked' /\ StoredBeforeSent' /\ MemKeepsAccount'
    BY DEF IInv, SellerWasAsked, StoredBeforeSent, MemKeepsAccount, Stored,
       Tracked, sellerVars
  <1>3. TargetTracked' /\ DownIsIdle' /\ BatchStored' /\ AnswerHeld'
    BY DEF IInv, AnswerHeld, TargetTracked, DownIsIdle, BatchStored, Busy,
       Stored, Tracked, GoTo
  <1>4. UnstoredIsPrivate'
    BY DEF IInv, UnstoredIsPrivate, Busy, Stored, Tracked, GoTo
  <1>5. \A v \in Workers : RowKeepsAccount(v)' /\ ReadyToSend(v)'
    BY DEF IInv, RowKeepsAccount, ReadyToSend, Stored, GoTo
  <1> QED
    BY <1>1, <1>2, <1>3, <1>4, <1>5 DEF IInv

\* Input goes to an operation that was answered, hence stored.
LEMMA BeginInputKeeps ==
  ASSUME IInv, NEW w \in Humans, NEW o \in Ops, BeginInput(w, o)
  PROVE  IInv'
  <1>1. TypeOK'
    BY WorkersAssumption
    DEF TypeOK, TrackerTypeOK, IInv, sellerVars, BeginInput, GoTo
  <1>2. SellerWasAsked' /\ StoredBeforeSent' /\ MemKeepsAccount'
    BY DEF IInv, SellerWasAsked, StoredBeforeSent, MemKeepsAccount, Stored,
       Tracked, sellerVars, BeginInput
  <1>3. TargetTracked' /\ DownIsIdle' /\ BatchStored' /\ AnswerHeld'
    BY DEF IInv, AnswerHeld, TargetTracked, DownIsIdle, BatchStored, Busy,
       Stored, Tracked, TypeOK, BeginInput, GoTo
  <1>4. UnstoredIsPrivate'
    BY DEF IInv, UnstoredIsPrivate, Busy, Stored, Tracked, TypeOK, BeginInput,
       GoTo
  <1>5. \A v \in Workers : RowKeepsAccount(v)' /\ ReadyToSend(v)'
    BY DEF IInv, RowKeepsAccount, ReadyToSend, Stored, BeginInput, GoTo
  <1> QED
    BY <1>1, <1>2, <1>3, <1>4, <1>5 DEF IInv

\* The seller makes a task only of what it was sent.
LEMMA SellerBuysKeeps ==
  ASSUME IInv, NEW o \in Ops, SellerBuys(o)
  PROVE  IInv'
  <1>1. TypeOK'
    BY WorkersAssumption
    DEF TypeOK, TrackerTypeOK, Messages, Tasks, Events, Replies, NoTask, IInv,
        SellerBuys, NewStatus, AnswerBuy
  <1>2. SellerWasAsked' /\ StoredBeforeSent' /\ MemKeepsAccount'
    BY DEF IInv, SellerWasAsked, StoredBeforeSent, MemKeepsAccount, Stored,
       Tracked, SellerBuys, NewStatus
  <1>3. TargetTracked' /\ DownIsIdle' /\ BatchStored' /\ AnswerHeld'
    BY DEF IInv, AnswerHeld, TargetTracked, DownIsIdle, BatchStored, Busy,
       Stored, Tracked, SellerBuys, AnswerBuy
  <1>4. UnstoredIsPrivate'
    BY DEF IInv, UnstoredIsPrivate, Busy, Stored, Tracked, SellerBuys
  <1>5. \A v \in Workers : RowKeepsAccount(v)' /\ ReadyToSend(v)'
    BY DEF IInv, RowKeepsAccount, ReadyToSend, Stored, SellerBuys
  <1> QED
    BY <1>1, <1>2, <1>3, <1>4, <1>5 DEF IInv

\* It refuses only what it was sent.
LEMMA SellerRefusesKeeps ==
  ASSUME IInv, NEW o \in Ops, SellerRefuses(o)
  PROVE  IInv'
  <1>1. TypeOK'
    BY WorkersAssumption
    DEF TypeOK, TrackerTypeOK, SellerStatus, Messages, Tasks, Replies, IInv,
        SellerRefuses, AnswerBuy
  <1>2. SellerWasAsked' /\ StoredBeforeSent' /\ MemKeepsAccount'
    BY DEF IInv, SellerWasAsked, StoredBeforeSent, MemKeepsAccount, Stored,
       Tracked, SellerRefuses
  <1>3. TargetTracked' /\ DownIsIdle' /\ BatchStored' /\ AnswerHeld'
    BY DEF IInv, AnswerHeld, TargetTracked, DownIsIdle, BatchStored, Busy,
       Stored, Tracked, SellerRefuses, AnswerBuy
  <1>4. UnstoredIsPrivate'
    BY DEF IInv, UnstoredIsPrivate, Busy, Stored, Tracked, SellerRefuses
  <1>5. \A v \in Workers : RowKeepsAccount(v)' /\ ReadyToSend(v)'
    BY DEF IInv, RowKeepsAccount, ReadyToSend, Stored, SellerRefuses
  <1> QED
    BY <1>1, <1>2, <1>3, <1>4, <1>5 DEF IInv

\* It works only on what it was sent.
LEMMA SellerWorksKeeps ==
  ASSUME IInv, NEW o \in Ops, SellerWorks(o)
  PROVE  IInv'
  <1>1. TypeOK'
    BY WorkersAssumption
    DEF TypeOK, TrackerTypeOK, Tasks, Events, Replies, NoTask, IInv,
        workerVars, SellerWorks, NewStatus
  <1>2. SellerWasAsked' /\ StoredBeforeSent' /\ MemKeepsAccount'
    BY DEF IInv, SellerWasAsked, StoredBeforeSent, MemKeepsAccount, Stored,
       Tracked, SellerWorks, NewStatus
  <1>3. TargetTracked' /\ DownIsIdle' /\ BatchStored' /\ AnswerHeld'
    BY DEF IInv, AnswerHeld, TargetTracked, DownIsIdle, BatchStored, Busy,
       Stored, Tracked, workerVars, SellerWorks
  <1>4. UnstoredIsPrivate'
    BY DEF IInv, UnstoredIsPrivate, Busy, Stored, Tracked, workerVars,
       SellerWorks
  <1>5. \A v \in Workers : RowKeepsAccount(v)' /\ ReadyToSend(v)'
    BY DEF IInv, RowKeepsAccount, ReadyToSend, Stored, workerVars, SellerWorks
  <1> QED
    BY <1>1, <1>2, <1>3, <1>4, <1>5 DEF IInv

\* It takes input for one of its tasks.
LEMMA SellerAnswersInputKeeps ==
  ASSUME IInv, NEW w \in Humans, SellerAnswersInput(w)
  PROVE  IInv'
  <1>1. target[w] \in Ops
    BY WorkersAssumption DEF IInv, TargetTracked, Busy, SellerAnswersInput
  <1>2. task' \in [Ops -> Tasks \cup {NoTask}] /\ hooks \subseteq hooks' /\ hooks' \subseteq Events
    BY <1>1, NewStatusTypes DEF IInv, TypeOK, SellerAnswersInput, SellerStatus
  <1>3. \A s \in Replies : [status |-> s, task |-> FALSE, seq |-> 0] \in Messages
    BY WorkersAssumption DEF Messages
  <1>4. \E s \in Replies : reply' = [reply EXCEPT ![w] = [status |-> s, task |-> FALSE, seq |-> 0]]
    BY DEF SellerAnswersInput, Replies, SellerStatus
  <1>5. reply' \in [Workers -> Messages \cup {NoReply}]
    BY <1>3, <1>4, WorkersAssumption DEF IInv, TypeOK
  <1>6. \A o \in Ops : task'[o].status # "none" => o = target[w] \/ task[o].status # "none"
    BY DEF IInv, TypeOK, SellerAnswersInput, NewStatus
  <1>7. \A e \in hooks' : e.op = target[w] \/ e \in hooks
    BY DEF SellerAnswersInput, NewStatus
  <1>8. reply'[w] # NoReply
    BY WorkersAssumption DEF IInv, TypeOK, SellerAnswersInput, NoReply
  <1>9. TypeOK'
    BY <1>2, <1>5, WorkersAssumption
    DEF TypeOK, TrackerTypeOK, IInv, SellerAnswersInput, GoTo
  <1>10. SellerWasAsked' /\ StoredBeforeSent' /\ MemKeepsAccount'
    BY <1>1, <1>6, <1>7
    DEF IInv, SellerWasAsked, StoredBeforeSent, MemKeepsAccount, Stored,
        Tracked, SellerAnswersInput
  <1>11. TargetTracked' /\ DownIsIdle' /\ BatchStored' /\ AnswerHeld'
    BY <1>8
    DEF IInv, AnswerHeld, TargetTracked, DownIsIdle, BatchStored, Busy, Stored,
        Tracked, TypeOK, SellerAnswersInput, GoTo
  <1>12. UnstoredIsPrivate'
    BY DEF IInv, UnstoredIsPrivate, Busy, Stored, Tracked, SellerAnswersInput,
       GoTo
  <1>13. \A v \in Workers : RowKeepsAccount(v)' /\ ReadyToSend(v)'
    BY DEF IInv, RowKeepsAccount, ReadyToSend, Stored, SellerAnswersInput, GoTo
  <1> QED
    BY <1>9, <1>10, <1>11, <1>12, <1>13 DEF IInv

\* A crash leaves the table, and nobody at work.
LEMMA CrashKeeps ==
  ASSUME IInv, Crash
  PROVE  IInv'
  <1>1. TypeOK'
    BY WorkersAssumption DEF TypeOK, TrackerTypeOK, IInv, sellerVars, Crash
  <1>2. SellerWasAsked' /\ StoredBeforeSent' /\ MemKeepsAccount'
    BY DEF IInv, SellerWasAsked, StoredBeforeSent, MemKeepsAccount, Tracked,
       sellerVars, Crash
  <1>3. TargetTracked' /\ DownIsIdle' /\ BatchStored' /\ AnswerHeld'
    BY DEF AnswerHeld, TargetTracked, DownIsIdle, BatchStored, Busy, Crash
  <1>4. UnstoredIsPrivate'
    BY WorkersAssumption DEF UnstoredIsPrivate, Tracked, Crash
  <1>5. \A v \in Workers : RowKeepsAccount(v)' /\ ReadyToSend(v)'
    BY DEF RowKeepsAccount, ReadyToSend, Crash
  <1> QED
    BY <1>1, <1>2, <1>3, <1>4, <1>5 DEF IInv

\* Memory is the table then.
LEMMA RestartKeeps ==
  ASSUME IInv, Restart
  PROVE  IInv'
  <1>1. TypeOK'
    BY DEF TypeOK, TrackerTypeOK, IInv, Pollers, workerVars, sellerVars,
       Restart, LoadAll
  <1>2. SellerWasAsked' /\ StoredBeforeSent' /\ MemKeepsAccount'
    BY DEF IInv, SellerWasAsked, StoredBeforeSent, MemKeepsAccount, sellerVars,
       Restart, LoadAll
  <1>3. TargetTracked' /\ DownIsIdle' /\ BatchStored' /\ AnswerHeld'
    BY DEF IInv, AnswerHeld, TargetTracked, DownIsIdle, BatchStored, Busy,
       Stored, Tracked, workerVars, Restart, LoadAll, NeedsPolling
  <1>4. UnstoredIsPrivate'
    BY DEF IInv, UnstoredIsPrivate, Busy, Stored, Tracked, workerVars, Restart,
       LoadAll
  <1>5. \A v \in Workers : RowKeepsAccount(v)' /\ ReadyToSend(v)'
    BY DEF IInv, DownIsIdle, RowKeepsAccount, ReadyToSend, Busy, workerVars,
       Restart
  <1> QED
    BY <1>1, <1>2, <1>3, <1>4, <1>5 DEF IInv

\* Serving begins.
LEMMA ServeKeeps ==
  ASSUME IInv, Serve
  PROVE  IInv'
  <1>1. TypeOK'
    BY DEF TypeOK, TrackerTypeOK, IInv, workerVars, sellerVars, Serve
  <1>2. SellerWasAsked' /\ StoredBeforeSent' /\ MemKeepsAccount'
    BY DEF IInv, SellerWasAsked, StoredBeforeSent, MemKeepsAccount, Stored,
       Tracked, sellerVars, Serve
  <1>3. TargetTracked' /\ DownIsIdle' /\ BatchStored' /\ AnswerHeld'
    BY DEF AnswerHeld, TargetTracked, DownIsIdle, BatchStored, Busy,
       workerVars, Serve
  <1>4. UnstoredIsPrivate'
    BY DEF IInv, UnstoredIsPrivate, Busy, Stored, Tracked, workerVars, Serve
  <1>5. \A v \in Workers : RowKeepsAccount(v)' /\ ReadyToSend(v)'
    BY DEF IInv, RowKeepsAccount, ReadyToSend, workerVars, Serve
  <1> QED
    BY <1>1, <1>2, <1>3, <1>4, <1>5 DEF IInv

\* A new operation belongs to the buyer that creates it.
LEMMA CreateKeeps ==
  ASSUME IInv, NEW w \in Buyers, NEW o \in Ops, NEW r \in Records,
         NEW c \in {"prepare", "send"}, r.status = "pending",
         c = "send" => r.account, Create(w, o, r, c)
  PROVE  IInv'
  <1>1. TypeOK'
    BY WorkersAssumption
    DEF TypeOK, TrackerTypeOK, IInv, sellerVars, Create, GoTo
  <1>2. SellerWasAsked' /\ StoredBeforeSent' /\ MemKeepsAccount'
    BY DEF IInv, SellerWasAsked, StoredBeforeSent, MemKeepsAccount, Stored,
       Tracked, sellerVars, Create
  <1>3. TargetTracked' /\ DownIsIdle' /\ BatchStored' /\ AnswerHeld'
    BY WorkersAssumption
    DEF IInv, AnswerHeld, TargetTracked, DownIsIdle, BatchStored, Busy, Stored,
        Tracked, TypeOK, TrackerTypeOK, Create, GoTo
  <1>4. UnstoredIsPrivate'
    BY DEF IInv, TargetTracked, UnstoredIsPrivate, Busy, Stored, Tracked,
       TypeOK, Create, GoTo
  <1>5. \A v \in Workers : RowKeepsAccount(v)' /\ ReadyToSend(v)'
    BY DEF IInv, TargetTracked, RowKeepsAccount, ReadyToSend, Busy, Stored,
       TypeOK, TrackerTypeOK, Create, GoTo
  <1> QED
    BY <1>1, <1>2, <1>3, <1>4, <1>5 DEF IInv

\* Checking and marking an event touches no operation.
LEMMA RecordKeeps ==
  ASSUME IInv, NEW w \in Handlers, CheckEvent(w) \/ RecordEvent(w)
  PROVE  IInv'
  <1>1. w \in Workers /\ EventId(w) \in Ops \X (0 .. MaxSeq)
    BY WorkersAssumption
    DEF IInv, TypeOK, AnswerHeld, TargetTracked, Busy, Messages,
       RecordEvent, CheckEvent, EventId
  <1>2. /\ acked' \subseteq hooks /\ applied' \subseteq hooks
        /\ events' \subseteq Ops \X (0 .. MaxSeq)
        /\ UNCHANGED <<mem, db, phase, crashes, batch, sent, task, hooks>>
    BY <1>1 DEF IInv, TypeOK, RecordEvent, CheckEvent, Ack, sellerVars
  <1>3. CASE Leave(w)
    BY <1>1, <1>2, <1>3, LeaveKeeps
  <1>4. CASE ~Leave(w)
    <2>1. \E l \in {"record", "apply"} : GoTo(w, l)
      BY <1>4 DEF RecordEvent, CheckEvent
    <2>2. pc[w] \in {"dedup", "record"}
          /\ UNCHANGED <<then, target, reply, row, base, sellerVars, acked, applied>>
      BY <1>4 DEF RecordEvent, CheckEvent
    <2> QED
      BY <1>2, <2>1, <2>2, HandlerGoesOnKeeps
  <1> QED
    BY <1>3, <1>4

\* A failed poll, or an exception nobody catches, ends a coroutine.
LEMMA EndKeeps ==
  ASSUME IInv, NEW w \in Workers, PollFails(w) \/ Raises(w)
  PROVE  IInv'
  BY LeaveKeeps DEF PollFails, Raises, IInv, TypeOK, sellerVars

\* A change knows its account from the start; a buy does not.
LEMMA BeginKeeps ==
  ASSUME IInv, NEW w \in Buyers, NEW o \in Ops,
         BeginBuy(w, o) \/ BeginUpdate(w, o)
  PROVE  IInv'
  <1> DEFINE r == [NewRecord EXCEPT !.account = TRUE]
  <1>1. NewRecord \in Records /\ NewRecord.status = "pending"
    BY DEF NewRecord, Records, TaskStatus
  <1>2. r \in Records /\ r.status = "pending" /\ r.account
    BY DEF NewRecord, Records, TaskStatus
  <1>3. CASE BeginBuy(w, o)
    BY <1>1, <1>3, CreateKeeps DEF BeginBuy
  <1>4. CASE BeginUpdate(w, o)
    <2>1. Create(w, o, r, "send")
      BY <1>4 DEF BeginUpdate
    <2> HIDE DEF r
    <2> QED
      BY <1>2, <2>1, CreateKeeps
  <1> QED
    BY <1>3, <1>4

-----------------------------------------------------------------------------
(* The theorems. *)

\* Nothing happens.
LEMMA StutterKeeps == IInv /\ UNCHANGED vars => IInv'
  BY DEF vars, workerVars, sellerVars, IInv, TypeOK, TrackerTypeOK,
     SellerWasAsked,
     StoredBeforeSent, TargetTracked, DownIsIdle, BatchStored, UnstoredIsPrivate,
     MemKeepsAccount, AnswerHeld, RowKeepsAccount, ReadyToSend, Busy, Stored, Tracked

\* Every step keeps the inductive invariant.
LEMMA NextIInv == IInv /\ [Next]_vars => IInv'
  <1> SUFFICES ASSUME IInv, [Next]_vars PROVE IInv'
    OBVIOUS
  <1>1. ASSUME NEW w \in Buyers,
               BuyStep(w) \/ \E o \in Ops : BeginBuy(w, o) \/ BeginUpdate(w, o)
        PROVE  IInv'
    BY <1>1, PrepareKeeps, SendKeeps, BuyFailsKeeps, BuyAnsweredKeeps,
       BeginKeeps
    DEF BuyStep
  <1>2. ASSUME NEW w \in Pollers, PollStep(w) \/ BeginPoll(w)
        PROVE  IInv'
    <2>1. w \in Workers
      BY WorkersAssumption DEF Pollers
    <2> QED
      BY <1>2, <2>1, PollNextKeeps, TaskReadKeeps, EndKeeps, BeginPollKeeps
      DEF PollStep
  <1>3. ASSUME NEW w \in Handlers, HookStep(w) \/ \E e \in hooks : Deliver(w, e)
        PROVE  IInv'
    BY <1>3, RecordKeeps, ApplyEventKeeps, DeliverKeeps DEF HookStep
  <1>4. ASSUME NEW w \in Humans, InputStep(w) \/ \E o \in Ops : BeginInput(w, o)
        PROVE  IInv'
    BY <1>4, SellerAnswersInputKeeps, InputFailsKeeps, BeginInputKeeps
    DEF InputStep
  <1>5. ASSUME NEW w \in Workers, SaveStep(w) \/ Raises(w)
        PROVE  IInv'
    BY <1>5, CopyKeeps, CommitKeeps, PersistFailsKeeps, EndKeeps DEF SaveStep
  <1>6. ASSUME NEW o \in Ops, SellerBuys(o) \/ SellerRefuses(o) \/ SellerWorks(o)
        PROVE  IInv'
    BY <1>6, SellerBuysKeeps, SellerRefusesKeeps, SellerWorksKeeps
  <1> QED
    BY <1>1, <1>2, <1>3, <1>4, <1>5, <1>6, ApplyAnswerKeeps, CrashKeeps, RestartKeeps,
       ServeKeeps, StutterKeeps DEF Next

\* So it holds in every reachable state.
LEMMA BuyingInductive == Spec => []IInv
  BY InitIInv, NextIInv, PTL DEF Spec

\* The tracker, the table, the coroutines and the seller keep their types
\* (BuyingSystem.TypeOK).
THEOREM BuyingTypes == Spec => []TypeOK
  <1>1. IInv => TypeOK
    BY DEF IInv
  <1> QED
    BY <1>1, BuyingInductive, PTL

\* Once a request may have reached a seller (orchestrator.py, buy and
\* update_media_buy_op), the operation is in the table with its account.
THEOREM BuyingStoredBeforeSent == Spec => []StoredBeforeSent
  <1>1. IInv => StoredBeforeSent
    BY DEF IInv
  <1> QED
    BY <1>1, BuyingInductive, PTL

-----------------------------------------------------------------------------
(* EventAppliedOnce. *)

\* Events are marked before they are applied.
Marked ==
  /\ \A w \in Handlers : pc[w] = "apply" => EventId(w) \in events
  /\ \A e \in applied : <<e.op, e.seq>> \in events

\* A delivery gets to apply only by marking an event not marked before.
LEMMA ApplyEntries ==
  ASSUME IInv, [Next]_vars, NEW w \in Handlers, pc'[w] = "apply"
  PROVE  /\ EventId(w)' = EventId(w)
         /\ \/ pc[w] = "apply"
            \/ /\ EventId(w) \notin events /\ events' = events \cup {EventId(w)}
               /\ \A v \in Handlers \ {w} : pc'[v] = pc[v]
  <1> DEFINE Goal == /\ EventId(w)' = EventId(w)
                     /\ \/ pc[w] = "apply"
                        \/ /\ EventId(w) \notin events /\ events' = events \cup {EventId(w)}
                           /\ \A v \in Handlers \ {w} : pc'[v] = pc[v]
  <1>1. CASE pc'[w] = pc[w] /\ target'[w] = target[w] /\ reply'[w] = reply[w]
    BY <1>1 DEF EventId
  <1>2. ASSUME NEW v \in Workers, v # w, NEW l, GoTo(v, l),
               \A u \in Workers \ {v} : target'[u] = target[u] /\ reply'[u] = reply[u]
        PROVE  Goal
    <2>1. w \in Workers
      BY WorkersAssumption
    <2> QED
      BY <1>1, <1>2, <2>1 DEF GoTo, IInv, TypeOK
  <1>3. ASSUME NEW v \in Buyers,
               BuyStep(v) \/ \E o \in Ops : BeginBuy(v, o) \/ BeginUpdate(v, o)
        PROVE  Goal
    <2>1. v \in Workers /\ v # w
      BY WorkersAssumption
    <2> QED
      BY <1>2, <1>3, <2>1
      DEF BuyStep, Prepare, Send, BuyFails, BuyAnswered, BeginBuy,
         BeginUpdate, Create, Persist, IInv, TypeOK
  <1>4. ASSUME NEW v \in Pollers, PollStep(v) \/ BeginPoll(v)
        PROVE  Goal
    <2>1. v \in Workers /\ v # w
      BY WorkersAssumption DEF Pollers
    <2> QED
      BY <1>1, <1>2, <1>4, <2>1
      DEF PollStep, PollNext, TaskRead, PollFails, BeginPoll,
         workerVars, Leave, IInv, TypeOK
  <1>5. ASSUME NEW v \in Handlers, HookStep(v) \/ \E e \in hooks : Deliver(v, e)
        PROVE  Goal
    <2>1. v \in Workers
      BY WorkersAssumption
    <2>2. CASE v # w
      BY <1>2, <1>5, <2>1, <2>2
      DEF HookStep, CheckEvent, RecordEvent, ApplyEvent, Deliver,
         Persist, Leave, IInv, TypeOK
    <2>3. CASE v = w
      <3>1. RecordEvent(w) /\ EventId(w) \notin events
        BY <1>5, <2>1, <2>3
        DEF HookStep, CheckEvent, RecordEvent, ApplyEvent, Deliver,
           Persist, Leave, GoTo, IInv, TypeOK
      <3>2. EventId(w)' = EventId(w) /\ events' = events \cup {EventId(w)}
        BY <3>1 DEF RecordEvent, EventId
      <3>3. \A u \in Handlers \ {w} : pc'[u] = pc[u]
        BY <3>1, WorkersAssumption DEF RecordEvent, GoTo, IInv, TypeOK
      <3> QED
        BY <3>1, <3>2, <3>3
    <2> QED
      BY <2>2, <2>3
  <1>6. ASSUME NEW v \in Humans, InputStep(v) \/ \E o \in Ops : BeginInput(v, o)
        PROVE  Goal
    <2>1. v \in Workers /\ v # w
      BY WorkersAssumption
    <2> QED
      BY <1>2, <1>6, <2>1
      DEF InputStep, SellerAnswersInput, InputFails, BeginInput, IInv, TypeOK
  <1>7. ASSUME NEW v \in Workers, SaveStep(v) \/ Raises(v)
        PROVE  Goal
    <2>1. v # w
      <3>1. GoTo(v, "commit") \/ GoTo(v, "save") \/ GoTo(v, "idle") \/ GoTo(v, then[v])
        BY <1>7 DEF SaveStep, Copy, Commit, PersistFails, Raises, Leave
      <3> QED
        BY <3>1, WorkersAssumption DEF GoTo, IInv, TypeOK
    <2> QED
      BY <1>2, <1>7, <2>1
      DEF SaveStep, Copy, Commit, PersistFails, Raises, Leave, IInv, TypeOK
  <1>8. ASSUME NEW v \in Pollers \cup Humans, ApplyAnswer(v)
        PROVE  Goal
    <2>1. v \in Workers /\ v # w
      BY WorkersAssumption DEF Pollers
    <2> QED
      BY <1>2, <1>8, <2>1 DEF ApplyAnswer, Persist, IInv, TypeOK
  <1>9. ASSUME NEW o \in Ops, SellerBuys(o) \/ SellerRefuses(o) \/ SellerWorks(o)
        PROVE  Goal
    <2>1. w \in Workers /\ w \notin Buyers
      BY WorkersAssumption
    <2> QED
      BY <1>1, <1>9, <2>1
      DEF SellerBuys, SellerRefuses, SellerWorks, AnswerBuy, workerVars
  <1>10. ~Crash
    BY WorkersAssumption DEF Crash
  <1> QED
    BY <1>1, <1>3, <1>4, <1>5, <1>6, <1>7, <1>8, <1>9, <1>10
    DEF Next, Restart, Serve, vars, workerVars

\* Only a delivery at apply applies, only its event, and leaves apply by it.
LEMMA AppliedChanges ==
  ASSUME IInv, [Next]_vars
  PROVE  UNCHANGED applied \/ \E w \in Handlers :
           /\ pc[w] = "apply" /\ pc'[w] # "apply"
           /\ \A e \in applied' : e \in applied \/ <<e.op, e.seq>> = EventId(w)
  <1>1. ASSUME NEW w \in Handlers, HookStep(w), ~UNCHANGED applied
        PROVE  /\ pc[w] = "apply" /\ pc'[w] # "apply"
               /\ \A e \in applied' : e \in applied \/ <<e.op, e.seq>> = EventId(w)
    BY <1>1, WorkersAssumption
    DEF HookStep, CheckEvent, RecordEvent, ApplyEvent, Persist, GoTo, EventId,
       IInv, TypeOK
  <1> QED
    BY <1>1 DEF Next, BuyStep, PollStep, InputStep, SaveStep,
       Prepare, Send, BuyFails, BuyAnswered, BeginBuy, BeginUpdate, Create, PollNext, TaskRead,
       PollFails, BeginPoll, Deliver, InputFails, BeginInput,
       ApplyAnswer, Copy, Commit, PersistFails, Raises, Crash, Restart, Serve, vars,
       SellerBuys, SellerRefuses, SellerWorks, SellerAnswersInput

\* No mark is taken back.
LEMMA EventsGrow ==
  ASSUME IInv, [Next]_vars
  PROVE  events \subseteq events'
  BY DEF Next, BuyStep, PollStep, HookStep, InputStep, SaveStep,
     Prepare, Send, BuyFails, BuyAnswered, BeginBuy, BeginUpdate, Create, PollNext, TaskRead,
     PollFails, BeginPoll, CheckEvent, RecordEvent, ApplyEvent, Deliver, InputFails, BeginInput,
     ApplyAnswer, Copy, Commit, PersistFails, Raises, Crash, Restart, Serve, vars,
     SellerBuys, SellerRefuses, SellerWorks, SellerAnswersInput

\* Every step keeps the marks ahead of the applications.
LEMMA NextAppliedOnce ==
  ASSUME IInv, Marked, EventAppliedOnce, [Next]_vars
  PROVE  Marked' /\ EventAppliedOnce'
  <1>1. ASSUME NEW w \in Handlers, pc'[w] = "apply"
        PROVE  EventId(w)' = EventId(w) /\ EventId(w) \in events'
    BY <1>1, ApplyEntries, EventsGrow DEF Marked
  <1>2. \A e \in applied' : <<e.op, e.seq>> \in events'
    BY AppliedChanges, EventsGrow DEF Marked
  <1>3. ASSUME NEW w \in Handlers, pc'[w] = "apply", NEW e \in applied'
        PROVE  <<e.op, e.seq>> # EventId(w)'
    <2>1. CASE e \in applied
      BY <1>3, <2>1, ApplyEntries DEF Marked, EventAppliedOnce
    <2>2. CASE e \notin applied
      <3>1. PICK v \in Handlers : /\ pc[v] = "apply" /\ pc'[v] # "apply"
                                  /\ <<e.op, e.seq>> = EventId(v)
        BY <1>3, <2>2, AppliedChanges
      <3>2. v # w /\ EventId(w)' = EventId(w) /\ EventId(v) \in events
        BY <1>3, <3>1, ApplyEntries DEF Marked
      <3> QED
        BY <1>3, <3>1, <3>2, ApplyEntries DEF EventAppliedOnce
    <2> QED
      BY <2>1, <2>2
  <1>4. ASSUME NEW w \in Handlers, pc'[w] = "apply", NEW v \in Handlers \ {w}, pc'[v] = "apply"
        PROVE  EventId(v)' # EventId(w)'
    <2>1. CASE pc[w] = "apply" /\ pc[v] = "apply"
      BY <1>4, <2>1, ApplyEntries DEF EventAppliedOnce
    <2>2. CASE pc[w] # "apply"
      BY <1>4, <2>2, ApplyEntries DEF Marked
    <2>3. CASE pc[v] # "apply"
      BY <1>4, <2>3, ApplyEntries DEF Marked
    <2> QED
      BY <2>1, <2>2, <2>3
  <1> QED
    BY <1>1, <1>2, <1>3, <1>4 DEF Marked, EventAppliedOnce

\* receive_webhook applies no event twice, however often it is delivered and
\* however many deliveries run at once.
THEOREM BuyingEventAppliedOnce == Spec => []EventAppliedOnce
  <1>1. Init => Marked /\ EventAppliedOnce
    BY WorkersAssumption DEF Init, Marked, EventAppliedOnce
  <1>2. IInv /\ Marked /\ EventAppliedOnce /\ [Next]_vars => (Marked /\ EventAppliedOnce)'
    BY NextAppliedOnce
  <1> QED
    BY <1>1, <1>2, BuyingInductive, PTL DEF Spec

=============================================================================
