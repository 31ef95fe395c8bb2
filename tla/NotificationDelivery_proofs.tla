---------------------- MODULE NotificationDelivery_proofs ----------------------
(***************************************************************************)
(* Theorems about NotificationDelivery: its types, and the safety properties   *)
(* of announcements, attempts, logs, resolution and retention, for any number   *)
(* of messages, tasks, logs, workers and handlers.                            *)
(*                                                                         *)
(* They rest on the row locks being exclusive: a task that a worker has claimed *)
(* changes by that worker's hand only.                                       *)
(***************************************************************************)
EXTENDS NotificationDelivery, FiniteSums, FiniteSetTheorems, TLAPS

\* The rows that are locked, and the types of what the variables hold.
Rows == ({"inbox"} \X Entries) \union ({"task"} \X Tasks)
TxRecords == [kind : {"idle", "resolve", "retry", "deliver"},
              step : {"done", "inbox", "tasks", "locks", "check", "publish", "reached", "failed"},
              entries : SUBSET Entries, task : Tasks \union {None}, attempts : Nat,
              acked : BOOLEAN, todo : SUBSET Rows, held : SUBSET Rows]
InboxRecords == [row : {"none", "present", "purged"}, marks : SUBSET Marks]
TaskRecords == [status : TaskStatus, entry : Entries \union {None}, attempts : Nat,
                log : Logs \union {None}]
Said == {"none", "pending", "success", "failed", "skipped"}
Counters == [Tasks -> Nat]

\* Types of the tables, of the transactions and of the counters.
Tables ==
    /\ inbox \in [Entries -> InboxRecords]
    /\ task \in [Tasks -> TaskRecords]
    /\ log \in [Logs -> Said]
TxTypes == tx \in [Sessions -> TxRecords]
Counts == published \in Counters /\ lost \in Counters /\ retries \in Counters /\ crashes \in Nat

\* A claimed task is locked, and so is that of a retry in the end.
ClaimOf(r) ==
    /\ r.kind = "deliver" => /\ r.task \in Tasks /\ r.held = {TaskRow(r.task)} /\ r.todo = {}
                             /\ r.step \in {"check", "publish", "reached", "failed"}
    /\ r.kind = "retry" => r.task \in Tasks /\ TaskRow(r.task) \in r.todo \union r.held
    /\ r.step \in {"check", "publish", "reached", "failed"} => r.kind = "deliver"

\* Row locks exclude each other.
Claims == \A s \in Sessions : ClaimOf(tx[s])
Exclusive == \A s, u \in Sessions : s # u => tx[s].held \intersect tx[u].held = {}
TxInv == TxTypes /\ Claims /\ Exclusive

-----------------------------------------------------------------------------
(* Types.                                                                    *)

\* A hint goes to an unused task, every other task is as in f.
LEMMA Hints ==
    ASSUME NEW f, NEW n, NEW t \in Tasks
    PROVE  \/ WithHints(f, n)[t] = f[t]
           \/ task[t].status = "none" /\ WithHints(f, n)[t] = NewTask(None, None)
BY DEF WithHints, Unused

\* Hints keep the type of the outbox.
LEMMA HintsTyped ==
    ASSUME NEW f \in [Tasks -> TaskRecords], NEW n
    PROVE  WithHints(f, n) \in [Tasks -> TaskRecords]
<1>1. NewTask(None, None) \in TaskRecords
  BY DEF NewTask, TaskRecords, TaskStatus
<1>2. \A t \in Tasks : WithHints(f, n)[t] \in TaskRecords
  BY <1>1, Hints
<1>3. WithHints(f, n) = [t \in Tasks |-> WithHints(f, n)[t]]
  BY DEF WithHints
<1> QED
  BY <1>2, <1>3

\* New rows, rows no one has yet and rows that are gone are rows.
LEMMA NewRows ==
    /\ NoTask \in TaskRecords /\ Purged \in TaskRecords
    /\ \A e \in Entries \union {None}, l \in Logs \union {None} : NewTask(e, l) \in TaskRecords
    /\ Idle \in TxRecords
<1>1. NoTask \in TaskRecords /\ Purged \in TaskRecords
  BY DEF NoTask, Purged, TaskRecords, TaskStatus
<1>2. \A e \in Entries \union {None}, l \in Logs \union {None} : NewTask(e, l) \in TaskRecords
  BY DEF NewTask, TaskRecords, TaskStatus
<1>3. Idle \in TxRecords
  BY DEF Idle, TxRecords
<1> QED
  BY <1>1, <1>2, <1>3

\* A log that is written keeps the type of the logs.
LEMMA LogTyped ==
    ASSUME Tables, NEW l \in Logs \union {None}, NEW a \in Said
    PROVE  WithLog(log, l, a) \in [Logs -> Said]
BY DEF Tables, WithLog

\* A transaction with all its fields.
Transaction(k, st, es, t, n, a, td, hd) ==
    [kind |-> k, step |-> st, entries |-> es, task |-> t, attempts |-> n, acked |-> a,
     todo |-> td, held |-> hd]

\* A session's transaction is replaced by one of the type.
LEMMA TxUpdate ==
    ASSUME TxTypes, NEW s \in Sessions, NEW r \in TxRecords, tx' = [tx EXCEPT ![s] = r]
    PROVE  TxTypes' /\ tx'[s] = r /\ (\A u \in Sessions : u # s => tx'[u] = tx[u])
BY DEF TxTypes

\* What a transaction of the type is made of.
LEMMA TxFields ==
    ASSUME TxTypes, NEW s \in Sessions
    PROVE  /\ tx[s] = Transaction(tx[s].kind, tx[s].step, tx[s].entries, tx[s].task, tx[s].attempts,
                                  tx[s].acked, tx[s].todo, tx[s].held)
           /\ tx[s].kind \in {"idle", "resolve", "retry", "deliver"}
           /\ tx[s].step \in {"done", "inbox", "tasks", "locks", "check", "publish", "reached", "failed"}
           /\ tx[s].entries \subseteq Entries /\ tx[s].task \in Tasks \union {None}
           /\ tx[s].attempts \in Nat /\ tx[s].acked \in BOOLEAN
           /\ tx[s].todo \subseteq Rows /\ tx[s].held \subseteq Rows
BY DEF TxTypes, TxRecords, Transaction

\* A resolution begins by locking the messages it was asked for.
LEMMA StartResolveTx ==
    ASSUME TxTypes, NEW h \in Handlers, NEW S \in SUBSET Entries, StartResolve(h, S)
    PROVE  tx' = [tx EXCEPT ![h] = Transaction("resolve", "inbox", S, None, 0, FALSE, {InboxRow(e) : e \in S}, {})]
<1>1. h \in Sessions /\ tx \in [Sessions -> TxRecords]
  BY DEF Sessions, TxTypes
<1>2. tx' = [tx EXCEPT ![h] = [Idle EXCEPT !.kind = "resolve", !.step = "inbox", !.entries = S,
                             !.todo = {InboxRow(e) : e \in S}]]
  BY Zenon DEF StartResolve
<1>3. ASSUME NEW r, r = [Idle EXCEPT !.kind = "resolve", !.step = "inbox", !.entries = S,
                             !.todo = {InboxRow(e) : e \in S}]
      PROVE  r = Transaction("resolve", "inbox", S, None, 0, FALSE, {InboxRow(e) : e \in S}, {})
  BY <1>1, <1>3 DEF Idle, Transaction
<1> QED
  BY <1>2, <1>3, Zenon

\* A retry begins by locking its rows.
LEMMA StartRetryTx ==
    ASSUME TxTypes, NEW h \in Handlers, NEW t \in Tasks, StartRetry(h, t)
    PROVE  tx' = [tx EXCEPT ![h] = Transaction("retry", "locks", {}, t, 0, FALSE, RetryRows(t), {})]
<1>1. h \in Sessions /\ tx \in [Sessions -> TxRecords]
  BY DEF Sessions, TxTypes
<1>2. tx' = [tx EXCEPT ![h] = [Idle EXCEPT !.kind = "retry", !.step = "locks", !.task = t, !.todo = RetryRows(t)]]
  BY Zenon DEF StartRetry
<1>3. ASSUME NEW r, r = [Idle EXCEPT !.kind = "retry", !.step = "locks", !.task = t, !.todo = RetryRows(t)]
      PROVE  r = Transaction("retry", "locks", {}, t, 0, FALSE, RetryRows(t), {})
  BY <1>1, <1>3 DEF Idle, Transaction
<1> QED
  BY <1>2, <1>3, Zenon

\* A resolution goes on to the tasks of what is still unresolved.
LEMMA FindTasksTx ==
    ASSUME TxTypes, NEW h \in Handlers, FindTasks(h)
    PROVE  tx' = [tx EXCEPT ![h] = Transaction(tx[h].kind, "tasks", {e \in tx[h].entries : Unresolved(e)}, tx[h].task, tx[h].attempts,
                  tx[h].acked, {TaskRow(t) : t \in PendingOf({e \in tx[h].entries : Unresolved(e)})},
                  tx[h].held)]
<1>1. h \in Sessions /\ tx \in [Sessions -> TxRecords]
  BY DEF Sessions, TxTypes
<1>2. tx' = [tx EXCEPT ![h] = [[[tx[h] EXCEPT !.step = "tasks"]
                    EXCEPT !.entries = {e \in tx[h].entries : Unresolved(e)}]
                    EXCEPT !.todo = {TaskRow(t) : t \in PendingOf({e \in tx[h].entries : Unresolved(e)})}]]
  BY <1>1, Zenon DEF FindTasks
<1>3. ASSUME NEW r, r = [[[tx[h] EXCEPT !.step = "tasks"]
                    EXCEPT !.entries = {e \in tx[h].entries : Unresolved(e)}]
                    EXCEPT !.todo = {TaskRow(t) : t \in PendingOf({e \in tx[h].entries : Unresolved(e)})}]
      PROVE  r = Transaction(tx[h].kind, "tasks", {e \in tx[h].entries : Unresolved(e)}, tx[h].task, tx[h].attempts,
                  tx[h].acked, {TaskRow(t) : t \in PendingOf({e \in tx[h].entries : Unresolved(e)})},
                  tx[h].held)
  BY <1>1, <1>3, tx[h] \in TxRecords DEF TxRecords, Transaction
<1> QED
  BY <1>2, <1>3, Zenon

\* A claimed task is locked.
LEMMA ClaimTx ==
    ASSUME TxTypes, NEW w \in Workers, NEW t \in Tasks, Claim(w, t)
    PROVE  tx' = [tx EXCEPT ![w] = Transaction("deliver", "check", {}, t, task[t].attempts, FALSE, {}, {TaskRow(t)})]
<1>1. w \in Sessions /\ tx \in [Sessions -> TxRecords]
  BY DEF Sessions, TxTypes
<1>2. tx' = [tx EXCEPT ![w] = [Idle EXCEPT !.kind = "deliver", !.step = "check", !.task = t,
                             !.attempts = task[t].attempts, !.held = {TaskRow(t)}]]
  BY Zenon DEF Claim
<1>3. ASSUME NEW r, r = [Idle EXCEPT !.kind = "deliver", !.step = "check", !.task = t,
                             !.attempts = task[t].attempts, !.held = {TaskRow(t)}]
      PROVE  r = Transaction("deliver", "check", {}, t, task[t].attempts, FALSE, {}, {TaskRow(t)})
  BY <1>1, <1>3 DEF Idle, Transaction
<1> QED
  BY <1>2, <1>3, Zenon

\* A row is locked, or the session ends.
LEMMA LockTx ==
    ASSUME TxTypes, NEW h \in Handlers, Lock(h)
    PROVE  \/ /\ tx' = [tx EXCEPT ![h] = Idle]
              /\ tx[h].kind = "retry"
           \/ \E row \in tx[h].todo :
               /\ Free(row) /\ ~GivesUp(h, row)
               /\ tx' = [tx EXCEPT ![h] = Transaction(tx[h].kind, tx[h].step, tx[h].entries, tx[h].task,
                       tx[h].attempts, tx[h].acked, tx[h].todo \ {row}, tx[h].held \union {row})]
<1>1. h \in Sessions /\ tx \in [Sessions -> TxRecords]
  BY DEF Sessions, TxTypes
<1>2. PICK row \in tx[h].todo :
          /\ Free(row)
          /\ \/ /\ ~GivesUp(h, row)
                /\ tx' = [tx EXCEPT ![h].todo = @ \ {row}, ![h].held = @ \union {row}]
             \/ GivesUp(h, row) /\ tx' = [tx EXCEPT ![h] = Idle]
  BY DEF Lock, FirstRow, End
<1>3. CASE GivesUp(h, row)
  BY <1>2, <1>3 DEF GivesUp
<1>4. CASE tx' = [tx EXCEPT ![h].todo = @ \ {row}, ![h].held = @ \union {row}] /\ ~GivesUp(h, row)
  <2>1. tx' = [tx EXCEPT ![h] = Transaction(tx[h].kind, tx[h].step, tx[h].entries, tx[h].task,
                    tx[h].attempts, tx[h].acked, tx[h].todo \ {row}, tx[h].held \union {row})]
    <3>1. tx' = [tx EXCEPT ![h] = [[tx[h] EXCEPT !.todo = @ \ {row}] EXCEPT !.held = @ \union {row}]]
      BY <1>1, <1>4, Zenon
    <3>2. ASSUME NEW r, r = [[tx[h] EXCEPT !.todo = @ \ {row}] EXCEPT !.held = @ \union {row}]
          PROVE  r = Transaction(tx[h].kind, tx[h].step, tx[h].entries, tx[h].task,
                    tx[h].attempts, tx[h].acked, tx[h].todo \ {row}, tx[h].held \union {row})
      BY <1>1, <3>2, tx[h] \in TxRecords DEF Transaction, TxRecords
    <3> QED
      BY <3>1, <3>2, Zenon
  <2> QED
    BY <1>2, <1>4, <2>1
<1> QED
  BY <1>2, <1>3, <1>4

\* The hint reaches Redis or not, and the worker learns it or not.
LEMMA PublishTx ==
    ASSUME TxTypes, NEW w \in Workers, Publish(w)
    PROVE  \E reached, acked \in BOOLEAN :
             /\ acked => reached
             /\ published' = [published EXCEPT ![tx[w].task] = @ + IF reached THEN 1 ELSE 0]
             /\ tx' = [tx EXCEPT ![w] = Transaction(tx[w].kind, IF reached THEN "reached" ELSE "failed",
                          tx[w].entries, tx[w].task, tx[w].attempts, acked, tx[w].todo, tx[w].held)]
<1>1. w \in Sessions /\ tx \in [Sessions -> TxRecords]
  BY DEF Sessions, TxTypes
<1>2. PICK reached, acked \in BOOLEAN :
          /\ acked => reached
          /\ published' = [published EXCEPT ![tx[w].task] = @ + IF reached THEN 1 ELSE 0]
          /\ tx' = [tx EXCEPT ![w].step = IF reached THEN "reached" ELSE "failed", ![w].acked = acked]
  BY Zenon DEF Publish
<1>3. tx' = [tx EXCEPT ![w] = Transaction(tx[w].kind, IF reached THEN "reached" ELSE "failed",
                          tx[w].entries, tx[w].task, tx[w].attempts, acked, tx[w].todo, tx[w].held)]
  <2> DEFINE st == IF reached THEN "reached" ELSE "failed"
  <2>1. tx' = [tx EXCEPT ![w] = [[tx[w] EXCEPT !.step = st] EXCEPT !.acked = acked]]
    BY <1>1, <1>2, Zenon
  <2>2. ASSUME NEW r, r = [[tx[w] EXCEPT !.step = st] EXCEPT !.acked = acked]
        PROVE  r = Transaction(tx[w].kind, st, tx[w].entries, tx[w].task, tx[w].attempts,
                               acked, tx[w].todo, tx[w].held)
    <3> HIDE DEF st
    <3> QED
      BY <1>1, <2>2, tx[w] \in TxRecords DEF Transaction, TxRecords
  <2> QED
    BY <2>1, <2>2, Zenon
<1> QED
  BY <1>2, <1>3, Zenon

\* The message was active.
LEMMA CheckTx ==
    ASSUME TxTypes, NEW w \in Workers, CheckActive(w)
    PROVE  \/ /\ ~Inactive(tx[w].task) /\ UNCHANGED <<inbox, task, log>>
              /\ tx' = [tx EXCEPT ![w] = Transaction(tx[w].kind, "publish", tx[w].entries, tx[w].task,
                          tx[w].attempts, tx[w].acked, tx[w].todo, tx[w].held)]
           \/ /\ Inactive(tx[w].task) /\ UNCHANGED inbox
              /\ tx' = [tx EXCEPT ![w] = Idle]
              /\ task' = [task EXCEPT ![tx[w].task].status = "canceled"]
              /\ log' = WithLog(log, task[tx[w].task].log, "skipped")
<1>1. w \in Sessions /\ tx \in [Sessions -> TxRecords]
  BY DEF Sessions, TxTypes
<1> QED
  BY <1>1, TxFields DEF CheckActive, End, tables, Transaction, TxRecords

\* A session's transaction is replaced by one that holds no row of the others.
LEMMA TxInvUpdate ==
    ASSUME TxInv, NEW s \in Sessions, NEW r \in TxRecords, tx' = [tx EXCEPT ![s] = r], ClaimOf(r),
           \A u \in Sessions : u # s => r.held \intersect tx[u].held = {}
    PROVE  TxInv'
<1>1. TxTypes' /\ tx'[s] = r /\ (\A u \in Sessions : u # s => tx'[u] = tx[u])
  BY TxUpdate, Zenon DEF TxInv
<1>2. Claims'
  <2>1. ASSUME NEW u \in Sessions PROVE ClaimOf(tx[u])'
    <3>1. ClaimOf(tx[u])
      BY Zenon DEF TxInv, Claims
    <3>2. tx'[u] = r \/ tx'[u] = tx[u]
      BY <1>1, Zenon
    <3> QED
      BY <3>1, <3>2, Zenon DEF ClaimOf
  <2> QED
    BY <2>1, Zenon DEF Claims
<1>3. Exclusive'
  BY <1>1 DEF Exclusive, TxInv
<1> QED
  BY <1>1, <1>2, <1>3, Zenon DEF TxInv

\* A session ends.
LEMMA TxInvEnd ==
    ASSUME TxInv, NEW s \in Sessions, tx' = [tx EXCEPT ![s] = Idle]
    PROVE  TxInv'
<1>1. Idle \in TxRecords /\ Idle.held = {} /\ ClaimOf(Idle)
  BY NewRows DEF Idle, ClaimOf
<1>2. \A u \in Sessions : u # s => Idle.held \intersect tx[u].held = {}
  BY <1>1
<1> QED
  BY <1>1, <1>2, TxInvUpdate, Zenon

\* Rows are rows.
LEMMA RowsTyped ==
    /\ \A e \in Entries : InboxRow(e) \in Rows
    /\ \A t \in Tasks : TaskRow(t) \in Rows
BY DEF InboxRow, TaskRow, Rows

\* Every step keeps the rows of the sessions apart and claimed tasks locked.
LEMMA TxInvKept ==
    ASSUME Tables, TxInv, Next
    PROVE  TxInv'
<1>0. TxTypes /\ Workers \subseteq Sessions /\ Handlers \subseteq Sessions
  BY DEF TxInv, Sessions
<1>1. ASSUME NEW e \in Entries, NEW l \in Logs \union {None}, Create(e, l)
      PROVE  TxInv'
  <2>1. tx' = tx
    BY <1>1 DEF Create
  <2> QED
    BY <2>1, Zenon DEF TxInv, TxTypes, Claims, ClaimOf, Exclusive
<1>2. ASSUME NEW e \in Entries, NEW l \in Logs, CreateAgain(e, l)
      PROVE  TxInv'
  <2>1. tx' = tx
    BY <1>2 DEF CreateAgain
  <2> QED
    BY <2>1, Zenon DEF TxInv, TxTypes, Claims, ClaimOf, Exclusive
<1>3. ASSUME NEW e \in Entries, Archive(e)
      PROVE  TxInv'
  <2>1. tx' = tx
    BY <1>3 DEF Archive
  <2> QED
    BY <2>1, Zenon DEF TxInv, TxTypes, Claims, ClaimOf, Exclusive
<1>4. ASSUME NEW e \in Entries, Expire(e)
      PROVE  TxInv'
  <2>1. tx' = tx
    BY <1>4 DEF Expire
  <2> QED
    BY <2>1, Zenon DEF TxInv, TxTypes, Claims, ClaimOf, Exclusive
<1>5. ASSUME Purge
      PROVE  TxInv'
  <2>1. tx' = tx
    BY <1>5 DEF Purge
  <2> QED
    BY <2>1, Zenon DEF TxInv, TxTypes, Claims, ClaimOf, Exclusive
<1>6. ASSUME NEW h \in Handlers, NEW S \in SUBSET Entries, StartResolve(h, S)
      PROVE  TxInv'
  <2> DEFINE r == Transaction("resolve", "inbox", S, None, 0, FALSE, {InboxRow(e) : e \in S}, {})
  <2>1. tx' = [tx EXCEPT ![h] = r]
    BY <1>6, <1>0, StartResolveTx, Zenon
  <2>2. r \in TxRecords
    <3>1. S \in SUBSET Entries /\ {InboxRow(e) : e \in S} \in SUBSET Rows
      BY RowsTyped
    <3> QED
      BY <3>1 DEF Transaction, TxRecords
  <2>3. ClaimOf(r)
    BY DEF ClaimOf, Transaction
  <2>4. \A u \in Sessions : u # h => r.held \intersect tx[u].held = {}
    BY DEF Transaction
  <2> QED
    BY <1>0, <2>1, <2>2, <2>3, <2>4, TxInvUpdate, Zenon
<1>7. ASSUME NEW h \in Handlers, NEW t \in Tasks, StartRetry(h, t)
      PROVE  TxInv'
  <2> DEFINE r == Transaction("retry", "locks", {}, t, 0, FALSE, RetryRows(t), {})
  <2>1. tx' = [tx EXCEPT ![h] = r]
    BY <1>7, <1>0, StartRetryTx, Zenon
  <2>2. r \in TxRecords
    <3>1. task[t].entry \in Entries \union {None}
      BY DEF Tables, TaskRecords
    <3>2. RetryRows(t) \in SUBSET Rows
      BY <3>1, RowsTyped DEF RetryRows
    <3> QED
      BY <3>2 DEF Transaction, TxRecords
  <2>3. ClaimOf(r)
    BY DEF ClaimOf, Transaction, RetryRows
  <2>4. \A u \in Sessions : u # h => r.held \intersect tx[u].held = {}
    BY DEF Transaction
  <2> QED
    BY <1>0, <2>1, <2>2, <2>3, <2>4, TxInvUpdate, Zenon
<1>8. ASSUME NEW h \in Handlers, Lock(h)
      PROVE  TxInv'
  <2>1. CASE tx' = [tx EXCEPT ![h] = Idle]
    BY <1>0, <2>1, TxInvEnd, Zenon
  <2>2. ASSUME NEW row \in tx[h].todo, Free(row),
               tx' = [tx EXCEPT ![h] = Transaction(tx[h].kind, tx[h].step, tx[h].entries, tx[h].task,
                       tx[h].attempts, tx[h].acked, tx[h].todo \ {row}, tx[h].held \union {row})]
        PROVE  TxInv'
    <3> DEFINE r == Transaction(tx[h].kind, tx[h].step, tx[h].entries, tx[h].task,
                       tx[h].attempts, tx[h].acked, tx[h].todo \ {row}, tx[h].held \union {row})
    <3>0. h \in Sessions
      BY <1>0
    <3>1. r \in TxRecords
      <4>1. tx[h].todo \ {row} \in SUBSET Rows /\ tx[h].held \union {row} \in SUBSET Rows
        BY <3>0, <1>0, TxFields
      <4> QED
        BY <3>0, <1>0, <4>1, TxFields DEF Transaction, TxRecords
    <3>2. ClaimOf(r)
      <4>1. ClaimOf(tx[h])
        BY <3>0 DEF TxInv, Claims
      <4> QED
        BY <4>1 DEF ClaimOf, Transaction
    <3>3. \A u \in Sessions : u # h => r.held \intersect tx[u].held = {}
      BY <2>2, <3>0 DEF Transaction, Exclusive, TxInv, Free
    <3> QED
      BY <3>0, <2>2, <3>1, <3>2, <3>3, TxInvUpdate, Zenon
  <2> QED
    BY <1>8, <1>0, <2>1, <2>2, LockTx, Zenon
<1>9. ASSUME NEW h \in Handlers, FindTasks(h)
      PROVE  TxInv'
  <2>0. tx[h].kind = "resolve"
    BY <1>9 DEF FindTasks
  <2> DEFINE r == Transaction(tx[h].kind, "tasks", {e \in tx[h].entries : Unresolved(e)}, tx[h].task,
                   tx[h].attempts, tx[h].acked,
                   {TaskRow(t) : t \in PendingOf({e \in tx[h].entries : Unresolved(e)})}, tx[h].held)
  <2>1. tx' = [tx EXCEPT ![h] = r]
    BY <1>9, <1>0, FindTasksTx, Zenon
  <2>2. r \in TxRecords
    <3>1. {TaskRow(t) : t \in PendingOf({e \in tx[h].entries : Unresolved(e)})} \in SUBSET Rows
      BY RowsTyped DEF PendingOf
    <3> QED
      BY <1>0, <3>1, TxFields DEF Transaction, TxRecords
  <2>3. ClaimOf(r)
    BY <2>0 DEF ClaimOf, Transaction
  <2>4. \A u \in Sessions : u # h => r.held \intersect tx[u].held = {}
    BY <1>0 DEF Transaction, Exclusive, TxInv
  <2> QED
    BY <1>0, <2>1, <2>2, <2>3, <2>4, TxInvUpdate, Zenon
<1>10. ASSUME NEW h \in Handlers, FinishResolve(h)
      PROVE  TxInv'
  <2>1. h \in Sessions /\ tx' = [tx EXCEPT ![h] = Idle]
    BY <1>10, <1>0 DEF FinishResolve, End
  <2> QED
    BY <2>1, TxInvEnd, Zenon
<1>11. ASSUME NEW h \in Handlers, FinishRetry(h)
      PROVE  TxInv'
  <2>1. h \in Sessions /\ tx' = [tx EXCEPT ![h] = Idle]
    BY <1>11, <1>0 DEF FinishRetry, End
  <2> QED
    BY <2>1, TxInvEnd, Zenon
<1>12. ASSUME NEW w \in Workers, NEW t \in Tasks, Claim(w, t)
      PROVE  TxInv'
  <2> DEFINE r == Transaction("deliver", "check", {}, t, task[t].attempts, FALSE, {}, {TaskRow(t)})
  <2>1. tx' = [tx EXCEPT ![w] = r]
    BY <1>12, <1>0, ClaimTx, Zenon
  <2>2. r \in TxRecords
    <3>1. {TaskRow(t)} \in SUBSET Rows /\ task[t].attempts \in Nat
      BY RowsTyped DEF Tables, TaskRecords
    <3> QED
      BY <3>1 DEF Transaction, TxRecords
  <2>3. ClaimOf(r)
    BY DEF ClaimOf, Transaction
  <2>4. \A u \in Sessions : u # w => r.held \intersect tx[u].held = {}
    BY <1>12 DEF Transaction, Claim, Free
  <2> QED
    BY <1>0, <2>1, <2>2, <2>3, <2>4, TxInvUpdate, Zenon
<1>13. ASSUME NEW w \in Workers, CheckActive(w)
      PROVE  TxInv'
  <2>1. CASE tx' = [tx EXCEPT ![w] = Idle]
    BY <1>0, <2>1, TxInvEnd, Zenon
  <2>2. CASE tx' = [tx EXCEPT ![w] = Transaction(tx[w].kind, "publish", tx[w].entries, tx[w].task,
                        tx[w].attempts, tx[w].acked, tx[w].todo, tx[w].held)]
    <3> DEFINE r == Transaction(tx[w].kind, "publish", tx[w].entries, tx[w].task, tx[w].attempts,
                              tx[w].acked, tx[w].todo, tx[w].held)
    <3>0. w \in Sessions
      BY <1>0
    <3>1. r \in TxRecords
      BY <3>0, <1>0, <2>2, TxFields DEF Transaction, TxRecords
    <3>2. ClaimOf(r)
      <4>1. ClaimOf(tx[w])
        BY <3>0 DEF TxInv, Claims
      <4> QED
        BY <1>13, <4>1 DEF ClaimOf, Transaction, CheckActive
    <3>3. \A u \in Sessions : u # w => r.held \intersect tx[u].held = {}
      BY <3>0 DEF Transaction, Exclusive, TxInv
    <3> QED
      BY <3>0, <2>2, <3>1, <3>2, <3>3, TxInvUpdate, Zenon
  <2> QED
    BY <1>13, <1>0, <2>1, <2>2, CheckTx, Zenon
<1>14. ASSUME NEW w \in Workers, Publish(w)
      PROVE  TxInv'
  <2>1. ASSUME NEW st \in {"reached", "failed"}, NEW a \in BOOLEAN,
               tx' = [tx EXCEPT ![w] = Transaction(tx[w].kind, st, tx[w].entries, tx[w].task,
                          tx[w].attempts, a, tx[w].todo, tx[w].held)]
        PROVE  TxInv'
    <3> DEFINE r == Transaction(tx[w].kind, st, tx[w].entries, tx[w].task, tx[w].attempts,
                              a, tx[w].todo, tx[w].held)
    <3>0. w \in Sessions
      BY <1>0
    <3>1. r \in TxRecords
      BY <3>0, <1>0, <2>1, TxFields DEF Transaction, TxRecords
    <3>2. ClaimOf(r)
      <4>1. ClaimOf(tx[w])
        BY <3>0 DEF TxInv, Claims
      <4> QED
        BY <1>14, <4>1 DEF ClaimOf, Transaction, Publish
    <3>3. \A u \in Sessions : u # w => r.held \intersect tx[u].held = {}
      BY <3>0 DEF Transaction, Exclusive, TxInv
    <3> QED
      BY <3>0, <2>1, <3>1, <3>2, <3>3, TxInvUpdate, Zenon
  <2>2. PICK reached, acked \in BOOLEAN :
            tx' = [tx EXCEPT ![w] = Transaction(tx[w].kind, IF reached THEN "reached" ELSE "failed",
                          tx[w].entries, tx[w].task, tx[w].attempts, acked, tx[w].todo, tx[w].held)]
    BY <1>14, <1>0, PublishTx, Zenon
  <2>3. (IF reached THEN "reached" ELSE "failed") \in {"reached", "failed"}
    OBVIOUS
  <2> QED
    BY <2>1, <2>2, <2>3, Zenon
<1>15. ASSUME NEW w \in Workers, Record(w)
      PROVE  TxInv'
  <2>1. w \in Sessions /\ tx' = [tx EXCEPT ![w] = Idle]
    BY <1>15, <1>0 DEF Record, End
  <2> QED
    BY <2>1, TxInvEnd, Zenon
<1>16. ASSUME NEW s \in Sessions, Crash(s)
      PROVE  TxInv'
  <2>1. s \in Sessions /\ tx' = [tx EXCEPT ![s] = Idle]
    BY <1>16, <1>0 DEF Crash, End
  <2> QED
    BY <2>1, TxInvEnd, Zenon
<1> QED
  BY <1>1, <1>2, <1>3, <1>4, <1>5, <1>6, <1>7, <1>8, <1>9, <1>10, <1>11, <1>12, <1>13,
     <1>14, <1>15, <1>16, Zenon DEF Next, HandlerStep, WorkerStep

-----------------------------------------------------------------------------
(* What a step does to a task.                                               *)

\* A task of which only the status changes.
Kept(t, r) == r.entry = task[t].entry /\ r.attempts = task[t].attempts /\ r.log = task[t].log

\* The ways in which a task changes, and by whom.
New(t, r) == \E e \in Entries, l \in Logs \union {None} :
                 Create(e, l) /\ task[t].status = "none" /\ r = NewTask(e, l)
Hinted(t, r) == task[t].status = "none" /\ r = NewTask(None, None)
Gone(t, r) == Purge /\ task[t].status \in {"delivered", "canceled"} /\ Free(TaskRow(t)) /\ r = Purged
Cut(t, r) == \E h \in Handlers : FinishResolve(h) /\ t \in Canceled(h) /\ Kept(t, r) /\ r.status = "canceled"
Again(t, r) == \E h \in Handlers : FinishRetry(h) /\ tx[h].task = t /\ Live(t) /\ task[t].attempts > 0
                                   /\ Kept(t, r) /\ r.status = "waiting"
Dropped(t, r) == \E w \in Workers : CheckActive(w) /\ tx[w].task = t /\ Inactive(t)
                                    /\ Kept(t, r) /\ r.status = "canceled"
Outcome(w) == IF tx[w].acked THEN "delivered"
              ELSE IF Exhausted(tx[w].attempts + 1) THEN "failed" ELSE task[tx[w].task].status
Tried(t, r) == \E w \in Workers : Record(w) /\ tx[w].task = t /\ r.entry = task[t].entry
                                  /\ r.log = task[t].log /\ r.attempts = tx[w].attempts + 1
                                  /\ r.status = Outcome(w)
TaskStep(t, r) == r = task[t] \/ New(t, r) \/ Hinted(t, r) \/ Gone(t, r) \/ Cut(t, r) \/ Again(t, r)
                  \/ Dropped(t, r) \/ Tried(t, r)

\* Where a row of the outbox is replaced, the others stay.
LEMMA TaskUpdate ==
    ASSUME Tables, NEW t \in Tasks, NEW r \in TaskRecords, task' = [task EXCEPT ![t] = r]
    PROVE  task' \in [Tasks -> TaskRecords] /\ task'[t] = r
           /\ (\A u \in Tasks : u # t => task'[u] = task[u])
BY DEF Tables

\* A task of another status.
LEMMA StatusSet ==
    ASSUME Tables, NEW t \in Tasks, NEW x \in TaskStatus, NEW r, r = [task[t] EXCEPT !.status = x]
    PROVE  r \in TaskRecords /\ Kept(t, r) /\ r.status = x
<1>1. task[t] \in [status : TaskStatus, entry : Entries \union {None}, attempts : Nat,
                    log : Logs \union {None}]
  BY DEF Tables, TaskRecords
<1> QED
  BY <1>1 DEF TaskRecords, Kept

\* The task of a transaction is one, where a step needs it.
LEMMA TaskOf ==
    ASSUME TxInv, NEW s \in Sessions, tx[s].kind \in {"retry", "deliver"}
    PROVE  tx[s].task \in Tasks
BY DEF TxInv, Claims, ClaimOf

\* Every step changes every task in one of these ways.
LEMMA TaskSteps ==
    ASSUME Tables, TxInv, Next
    PROVE  task' \in [Tasks -> TaskRecords] /\ (\A t \in Tasks : TaskStep(t, task'[t]))
<1>0. Tables /\ TxInv /\ TxTypes /\ Workers \subseteq Sessions /\ Handlers \subseteq Sessions
  BY DEF TxInv, Sessions
<1>1. ASSUME NEW e \in Entries, NEW l \in Logs \union {None}, Create(e, l)
      PROVE  task' \in [Tasks -> TaskRecords] /\ (\A u \in Tasks : TaskStep(u, task'[u]))
  <2>1. PICK t \in Tasks : task[t].status = "none" /\ task' = [task EXCEPT ![t] = NewTask(e, l)]
    BY <1>1 DEF Create, First, Unused
  <2>2. NewTask(e, l) \in TaskRecords
    BY NewRows
  <2>3. /\ task' \in [Tasks -> TaskRecords] /\ task'[t] = NewTask(e, l)
        /\ \A u \in Tasks : u # t => task'[u] = task[u]
    BY <1>0, <2>1, <2>2, TaskUpdate, Zenon
  <2>4. \A u \in Tasks : TaskStep(u, task'[u])
    BY <1>1, <2>1, <2>3, Zenon DEF TaskStep, New
  <2> QED
    BY <2>3, <2>4
<1>2. ASSUME NEW e \in Entries, NEW l \in Logs, CreateAgain(e, l)
      PROVE  task' \in [Tasks -> TaskRecords] /\ (\A u \in Tasks : TaskStep(u, task'[u]))
  <2>1. task' = task
    BY <1>2 DEF CreateAgain, tables, history
  <2> QED
    BY <1>0, <2>1 DEF Tables, TaskStep
<1>3. ASSUME NEW e \in Entries, Archive(e)
      PROVE  task' \in [Tasks -> TaskRecords] /\ (\A u \in Tasks : TaskStep(u, task'[u]))
  <2>1. task' = WithHints(task, 1)
    BY <1>3 DEF Archive
  <2>2. task' \in [Tasks -> TaskRecords]
    BY <2>1, <1>0, HintsTyped DEF Tables
  <2> QED
    BY <2>1, <2>2, Hints DEF TaskStep, Hinted
<1>4. ASSUME NEW e \in Entries, Expire(e)
      PROVE  task' \in [Tasks -> TaskRecords] /\ (\A u \in Tasks : TaskStep(u, task'[u]))
  <2>1. task' = task
    BY <1>4 DEF Expire, tables, history
  <2> QED
    BY <1>0, <2>1 DEF Tables, TaskStep
<1>5. ASSUME Purge
      PROVE  task' \in [Tasks -> TaskRecords] /\ (\A u \in Tasks : TaskStep(u, task'[u]))
  <2>1. PICK R \in SUBSET {t \in Tasks : task[t].status \in {"delivered", "canceled"} /\ Free(TaskRow(t))} :
            task' = [t \in Tasks |-> IF t \in R THEN Purged ELSE task[t]]
    BY <1>5, Zenon DEF Purge
  <2>2. task' \in [Tasks -> TaskRecords]
    BY <2>1, <1>0, NewRows DEF Tables
  <2>3. ASSUME NEW t \in Tasks PROVE TaskStep(t, task'[t])
    <3>1. task'[t] = IF t \in R THEN Purged ELSE task[t]
      BY <2>1, Zenon
    <3> QED
      BY <1>5, <2>1, <3>1 DEF TaskStep, Gone
  <2> QED
    BY <2>2, <2>3
<1>6. ASSUME NEW h \in Handlers, NEW S \in SUBSET Entries, StartResolve(h, S)
      PROVE  task' \in [Tasks -> TaskRecords] /\ (\A u \in Tasks : TaskStep(u, task'[u]))
  <2>1. task' = task
    BY <1>6 DEF StartResolve, tables, history
  <2> QED
    BY <1>0, <2>1 DEF Tables, TaskStep
<1>7. ASSUME NEW h \in Handlers, NEW t \in Tasks, StartRetry(h, t)
      PROVE  task' \in [Tasks -> TaskRecords] /\ (\A u \in Tasks : TaskStep(u, task'[u]))
  <2>1. task' = task
    BY <1>7 DEF StartRetry, tables, history
  <2> QED
    BY <1>0, <2>1 DEF Tables, TaskStep
<1>8. ASSUME NEW h \in Handlers, Lock(h)
      PROVE  task' \in [Tasks -> TaskRecords] /\ (\A u \in Tasks : TaskStep(u, task'[u]))
  <2>1. task' = task
    BY <1>8 DEF Lock, tables, history
  <2> QED
    BY <1>0, <2>1 DEF Tables, TaskStep
<1>9. ASSUME NEW h \in Handlers, FindTasks(h)
      PROVE  task' \in [Tasks -> TaskRecords] /\ (\A u \in Tasks : TaskStep(u, task'[u]))
  <2>1. task' = task
    BY <1>9 DEF FindTasks, tables, history
  <2> QED
    BY <1>0, <2>1 DEF Tables, TaskStep
<1>10. ASSUME NEW h \in Handlers, FinishResolve(h)
      PROVE  task' \in [Tasks -> TaskRecords] /\ (\A u \in Tasks : TaskStep(u, task'[u]))
  <2> DEFINE f == [t \in Tasks |-> IF t \in Canceled(h) THEN [task[t] EXCEPT !.status = "canceled"]
                                    ELSE task[t]]
  <2>1. task' = WithHints(f, Cardinality({RecipientOf[e] : e \in tx[h].entries}))
    BY <1>10, Zenon DEF FinishResolve
  <2>2. ASSUME NEW t \in Tasks
        PROVE  f[t] \in TaskRecords /\ (f[t] = task[t] \/ Cut(t, f[t]))
    <3>1. CASE t \in Canceled(h)
      <4>1. f[t] = [task[t] EXCEPT !.status = "canceled"]
        BY <3>1
      <4>2. f[t] \in TaskRecords /\ Kept(t, f[t]) /\ f[t].status = "canceled"
        <5>1. "canceled" \in TaskStatus
          BY DEF TaskStatus
        <5> QED
          BY <5>1, <1>0, <4>1, StatusSet
      <4> QED
        BY <1>10, <3>1, <4>2, Zenon DEF Cut
    <3>2. CASE t \notin Canceled(h)
      BY <3>2, <1>0 DEF Tables
    <3> QED
      BY <3>1, <3>2
  <2>3. f \in [Tasks -> TaskRecords]
    BY <2>2
  <2> HIDE DEF f
  <2>4. task' \in [Tasks -> TaskRecords]
    BY <2>1, <2>3, HintsTyped, Zenon
  <2>5. \A t \in Tasks : TaskStep(t, task'[t])
    BY <2>1, <2>2, Hints, Zenon DEF TaskStep, Hinted
  <2> QED
    BY <2>4, <2>5, Zenon
<1>11. ASSUME NEW h \in Handlers, FinishRetry(h)
      PROVE  task' \in [Tasks -> TaskRecords] /\ (\A u \in Tasks : TaskStep(u, task'[u]))
  <2>1. CASE task' = task
    BY <1>0, <2>1 DEF Tables, TaskStep
  <2>2. CASE /\ Live(tx[h].task) /\ task[tx[h].task].attempts > 0
             /\ task' = [task EXCEPT ![tx[h].task].status = "waiting"]
    <3>1. tx[h].task \in Tasks /\ "waiting" \in TaskStatus
      BY <1>11, <1>0, TaskOf DEF FinishRetry, TaskStatus
    <3>2. task' = [task EXCEPT ![tx[h].task] = [task[tx[h].task] EXCEPT !.status = "waiting"]]
      BY <2>2, Zenon
    <3>3. ASSUME NEW r, r = [task[tx[h].task] EXCEPT !.status = "waiting"]
          PROVE  r \in TaskRecords /\ Kept(tx[h].task, r) /\ r.status = "waiting"
      BY <3>1, <3>3, <1>0, StatusSet
    <3>4. PICK r \in TaskRecords : Kept(tx[h].task, r) /\ r.status = "waiting"
                                  /\ task' = [task EXCEPT ![tx[h].task] = r]
      BY <3>2, <3>3, Zenon
    <3>5. /\ task' \in [Tasks -> TaskRecords] /\ task'[tx[h].task] = r
          /\ \A u \in Tasks : u # tx[h].task => task'[u] = task[u]
      BY <1>0, <3>1, <3>4, TaskUpdate, Zenon
    <3>6. Again(tx[h].task, r)
      BY <1>11, <2>2, <3>1, <3>4, Zenon DEF Again
    <3> QED
      BY <3>5, <3>6, Zenon DEF TaskStep
  <2> QED
    BY <1>11, <2>1, <2>2 DEF FinishRetry, tables
<1>12. ASSUME NEW w \in Workers, NEW t \in Tasks, Claim(w, t)
      PROVE  task' \in [Tasks -> TaskRecords] /\ (\A u \in Tasks : TaskStep(u, task'[u]))
  <2>1. task' = task
    BY <1>12 DEF Claim, tables, history
  <2> QED
    BY <1>0, <2>1 DEF Tables, TaskStep
<1>13. ASSUME NEW w \in Workers, CheckActive(w)
      PROVE  task' \in [Tasks -> TaskRecords] /\ (\A u \in Tasks : TaskStep(u, task'[u]))
  <2>1. CASE task' = task
    BY <1>0, <2>1 DEF Tables, TaskStep
  <2>2. CASE /\ Inactive(tx[w].task)
             /\ task' = [task EXCEPT ![tx[w].task].status = "canceled"]
    <3>1. tx[w].task \in Tasks /\ "canceled" \in TaskStatus
      BY <1>13, <1>0, TaskOf DEF CheckActive, TaskStatus
    <3>2. task' = [task EXCEPT ![tx[w].task] = [task[tx[w].task] EXCEPT !.status = "canceled"]]
      BY <2>2, Zenon
    <3>3. ASSUME NEW r, r = [task[tx[w].task] EXCEPT !.status = "canceled"]
          PROVE  r \in TaskRecords /\ Kept(tx[w].task, r) /\ r.status = "canceled"
      BY <3>1, <3>3, <1>0, StatusSet
    <3>4. PICK r \in TaskRecords : Kept(tx[w].task, r) /\ r.status = "canceled"
                                  /\ task' = [task EXCEPT ![tx[w].task] = r]
      BY <3>2, <3>3, Zenon
    <3>5. /\ task' \in [Tasks -> TaskRecords] /\ task'[tx[w].task] = r
          /\ \A u \in Tasks : u # tx[w].task => task'[u] = task[u]
      BY <1>0, <3>1, <3>4, TaskUpdate, Zenon
    <3>6. Dropped(tx[w].task, r)
      BY <1>13, <2>2, <3>1, <3>4, Zenon DEF Dropped
    <3> QED
      BY <3>5, <3>6, Zenon DEF TaskStep
  <2> QED
    BY <1>13, <2>1, <2>2 DEF CheckActive, tables
<1>14. ASSUME NEW w \in Workers, Publish(w)
      PROVE  task' \in [Tasks -> TaskRecords] /\ (\A u \in Tasks : TaskStep(u, task'[u]))
  <2>1. task' = task
    BY <1>14 DEF Publish, tables, history
  <2> QED
    BY <1>0, <2>1 DEF Tables, TaskStep
<1>15. ASSUME NEW w \in Workers, Record(w)
      PROVE  task' \in [Tasks -> TaskRecords] /\ (\A u \in Tasks : TaskStep(u, task'[u]))
  <2> DEFINE t == tx[w].task
             a == tx[w].attempts + 1
  <2>1. t \in Tasks /\ tx[w].attempts \in Nat /\ Outcome(w) \in TaskStatus
    <3>1. t \in Tasks
      BY <1>15, <1>0, TaskOf DEF Record
    <3>2. tx[w].attempts \in Nat
      BY <1>0, TxFields DEF TxInv
    <3>3. task[t].status \in TaskStatus
      BY <3>1, <1>0 DEF Tables, TaskRecords
    <3> QED
      BY <3>1, <3>2, <3>3 DEF Outcome, TaskStatus
  <2>2. task' = [task EXCEPT ![t] = [[task[t] EXCEPT !.attempts = a] EXCEPT !.status = Outcome(w)]]
    <3>1. task' = [task EXCEPT ![t].attempts = a, ![t].status = IF tx[w].acked THEN "delivered"
                                      ELSE IF Exhausted(a) THEN "failed" ELSE @]
      BY <1>15, Zenon DEF Record
    <3> QED
      BY <3>1, <2>1, <1>0 DEF Outcome, Tables, TaskRecords
  <2>3. ASSUME NEW r, r = [[task[t] EXCEPT !.attempts = a] EXCEPT !.status = Outcome(w)]
        PROVE  r \in TaskRecords /\ r.entry = task[t].entry /\ r.log = task[t].log
               /\ r.attempts = a /\ r.status = Outcome(w)
    <3>1. task[t] \in [status : TaskStatus, entry : Entries \union {None}, attempts : Nat,
                       log : Logs \union {None}]
      BY <2>1, <1>0 DEF Tables, TaskRecords
    <3>2. a \in Nat
      BY <2>1
    <3> HIDE DEF a
    <3> QED
      BY <3>1, <3>2, <2>1, <2>3 DEF TaskRecords
  <2>4. PICK r \in TaskRecords : r.entry = task[t].entry /\ r.log = task[t].log
               /\ r.attempts = a /\ r.status = Outcome(w) /\ task' = [task EXCEPT ![t] = r]
    BY <2>2, <2>3, Zenon
  <2>5. /\ task' \in [Tasks -> TaskRecords] /\ task'[t] = r
        /\ \A u \in Tasks : u # t => task'[u] = task[u]
    BY <1>0, <2>1, <2>4, TaskUpdate, Zenon
  <2>6. Tried(t, r)
    BY <1>15, <2>1, <2>4, Zenon DEF Tried
  <2> QED
    BY <2>5, <2>6, Zenon DEF TaskStep
<1>16. ASSUME NEW s \in Sessions, Crash(s)
      PROVE  task' \in [Tasks -> TaskRecords] /\ (\A u \in Tasks : TaskStep(u, task'[u]))
  <2>1. task' = task
    BY <1>16 DEF Crash, tables, history
  <2> QED
    BY <1>0, <2>1 DEF Tables, TaskStep
<1> QED
  BY <1>1, <1>2, <1>3, <1>4, <1>5, <1>6, <1>7, <1>8, <1>9, <1>10, <1>11, <1>12, <1>13,
     <1>14, <1>15, <1>16, Zenon DEF Next, HandlerStep, WorkerStep

-----------------------------------------------------------------------------
(* What a step does to a message and to a log.                               *)

\* The ways in which a message changes, and by whom.
Posted(e, r) == \E l \in Logs \union {None} :
    Create(e, l) /\ inbox[e].row = "none" /\ r.row = "present" /\ r.marks = inbox[e].marks
Marked(e, r) == \E m \in {"archived", "expired"} :
    inbox[e].row = "present" /\ r.row = inbox[e].row /\ r.marks = inbox[e].marks \union {m}
Resolved(e, r) == \E h \in Handlers :
    /\ FinishResolve(h) /\ e \in tx[h].entries
    /\ r.row = inbox[e].row /\ r.marks = inbox[e].marks \union {"resolved"}
Removed(e, r) == Purge /\ Purgeable(e) /\ r.row = "purged" /\ r.marks = inbox[e].marks
InboxStep(e, r) == r = inbox[e] \/ Posted(e, r) \/ Marked(e, r) \/ Resolved(e, r) \/ Removed(e, r)

\* Where a message is replaced, the others stay.
LEMMA InboxUpdate ==
    ASSUME Tables, NEW e \in Entries, NEW r \in InboxRecords, inbox' = [inbox EXCEPT ![e] = r]
    PROVE  inbox' \in [Entries -> InboxRecords] /\ inbox'[e] = r
           /\ (\A d \in Entries : d # e => inbox'[d] = inbox[d])
BY DEF Tables

\* Every step changes every message in one of these ways.
LEMMA InboxSteps ==
    ASSUME Tables, TxInv, Next
    PROVE  inbox' \in [Entries -> InboxRecords] /\ (\A d \in Entries : InboxStep(d, inbox'[d]))
<1>0. Tables /\ TxInv
  OBVIOUS
<1>1. ASSUME NEW e \in Entries, NEW l \in Logs \union {None}, Create(e, l)
      PROVE  inbox' \in [Entries -> InboxRecords] /\ (\A d \in Entries : InboxStep(d, inbox'[d]))
  <2>1. inbox' = [inbox EXCEPT ![e] = [inbox[e] EXCEPT !.row = "present"]] /\ inbox[e].row = "none"
    BY <1>1, Zenon DEF Create
  <2>3. ASSUME NEW r, r = [inbox[e] EXCEPT !.row = "present"]
        PROVE  r \in InboxRecords /\ r.row = "present" /\ r.marks = inbox[e].marks
    BY <2>3, <1>0 DEF Tables, InboxRecords, Marks
  <2>4. PICK r \in InboxRecords : r.row = "present" /\ r.marks = inbox[e].marks
                                 /\ inbox' = [inbox EXCEPT ![e] = r]
    BY <2>1, <2>3, Zenon
  <2>5. /\ inbox' \in [Entries -> InboxRecords] /\ inbox'[e] = r
        /\ \A d \in Entries : d # e => inbox'[d] = inbox[d]
    BY <1>0, <2>4, InboxUpdate, Zenon
  <2> QED
    BY <1>1, <2>1, <2>4, <2>5, Zenon DEF InboxStep, Posted
<1>2. ASSUME NEW e \in Entries, NEW l \in Logs, CreateAgain(e, l)
      PROVE  inbox' \in [Entries -> InboxRecords] /\ (\A d \in Entries : InboxStep(d, inbox'[d]))
  <2>1. inbox' = inbox
    BY <1>2 DEF CreateAgain, tables, history
  <2> QED
    BY <1>0, <2>1 DEF Tables, InboxStep
<1>3. ASSUME NEW e \in Entries, Archive(e)
      PROVE  inbox' \in [Entries -> InboxRecords] /\ (\A d \in Entries : InboxStep(d, inbox'[d]))
  <2>1. inbox' = [inbox EXCEPT ![e] = [inbox[e] EXCEPT !.marks = @ \union {"archived"}]]
    BY <1>3, Zenon DEF Archive
  <2>2. inbox[e].row = "present"
    BY <1>3, Zenon DEF Archive
  <2>3. ASSUME NEW r, r = [inbox[e] EXCEPT !.marks = @ \union {"archived"}]
        PROVE  r \in InboxRecords /\ r.row = inbox[e].row /\ r.marks = inbox[e].marks \union {"archived"}
    BY <2>3, <1>0 DEF Tables, InboxRecords, Marks
  <2>4. PICK r \in InboxRecords : /\ r.row = inbox[e].row /\ r.marks = inbox[e].marks \union {"archived"}
                                 /\ inbox' = [inbox EXCEPT ![e] = r]
    BY <2>1, <2>3, Zenon
  <2>5. /\ inbox' \in [Entries -> InboxRecords] /\ inbox'[e] = r
        /\ \A d \in Entries : d # e => inbox'[d] = inbox[d]
    BY <1>0, <2>4, InboxUpdate, Zenon
  <2> QED
    BY <2>2, <2>4, <2>5, Zenon DEF InboxStep, Marked
<1>4. ASSUME NEW e \in Entries, Expire(e)
      PROVE  inbox' \in [Entries -> InboxRecords] /\ (\A d \in Entries : InboxStep(d, inbox'[d]))
  <2>1. inbox' = [inbox EXCEPT ![e] = [inbox[e] EXCEPT !.marks = @ \union {"expired"}]]
    BY <1>4, Zenon DEF Expire
  <2>2. inbox[e].row = "present"
    BY <1>4, Zenon DEF Expire
  <2>3. ASSUME NEW r, r = [inbox[e] EXCEPT !.marks = @ \union {"expired"}]
        PROVE  r \in InboxRecords /\ r.row = inbox[e].row /\ r.marks = inbox[e].marks \union {"expired"}
    BY <2>3, <1>0 DEF Tables, InboxRecords, Marks
  <2>4. PICK r \in InboxRecords : /\ r.row = inbox[e].row /\ r.marks = inbox[e].marks \union {"expired"}
                                 /\ inbox' = [inbox EXCEPT ![e] = r]
    BY <2>1, <2>3, Zenon
  <2>5. /\ inbox' \in [Entries -> InboxRecords] /\ inbox'[e] = r
        /\ \A d \in Entries : d # e => inbox'[d] = inbox[d]
    BY <1>0, <2>4, InboxUpdate, Zenon
  <2> QED
    BY <2>2, <2>4, <2>5, Zenon DEF InboxStep, Marked
<1>5. ASSUME Purge
      PROVE  inbox' \in [Entries -> InboxRecords] /\ (\A d \in Entries : InboxStep(d, inbox'[d]))
  <2>1. PICK S \in SUBSET {e \in Entries : Purgeable(e) /\ Free(InboxRow(e))} :
            inbox' = [e \in Entries |-> IF e \in S THEN [inbox[e] EXCEPT !.row = "purged"] ELSE inbox[e]]
    BY <1>5, Zenon DEF Purge
  <2>2. ASSUME NEW d \in Entries
        PROVE  inbox'[d] \in InboxRecords /\ InboxStep(d, inbox'[d])
    <3>1. CASE d \in S
      <4>1. inbox'[d] = [inbox[d] EXCEPT !.row = "purged"]
        BY <2>1, <3>1, Zenon
      <4>2. inbox'[d] \in InboxRecords /\ inbox'[d].row = "purged" /\ inbox'[d].marks = inbox[d].marks
        BY <4>1, <1>0, <3>1 DEF Tables, InboxRecords, Marks
      <4> QED
        BY <1>5, <2>1, <3>1, <4>2 DEF InboxStep, Removed
    <3>2. CASE ~(d \in S)
      <4>1. inbox'[d] = inbox[d]
        BY <2>1, <3>2, Zenon
      <4> QED
        BY <4>1, <1>0 DEF Tables, InboxStep
    <3> QED
      BY <3>1, <3>2
  <2>3. inbox' = [d \in Entries |-> inbox'[d]]
    BY <2>1
  <2> QED
    BY <2>2, <2>3
<1>6. ASSUME NEW h \in Handlers, NEW S \in SUBSET Entries, StartResolve(h, S)
      PROVE  inbox' \in [Entries -> InboxRecords] /\ (\A d \in Entries : InboxStep(d, inbox'[d]))
  <2>1. inbox' = inbox
    BY <1>6 DEF StartResolve, tables, history
  <2> QED
    BY <1>0, <2>1 DEF Tables, InboxStep
<1>7. ASSUME NEW h \in Handlers, NEW t \in Tasks, StartRetry(h, t)
      PROVE  inbox' \in [Entries -> InboxRecords] /\ (\A d \in Entries : InboxStep(d, inbox'[d]))
  <2>1. inbox' = inbox
    BY <1>7 DEF StartRetry, tables, history
  <2> QED
    BY <1>0, <2>1 DEF Tables, InboxStep
<1>8. ASSUME NEW h \in Handlers, Lock(h)
      PROVE  inbox' \in [Entries -> InboxRecords] /\ (\A d \in Entries : InboxStep(d, inbox'[d]))
  <2>1. inbox' = inbox
    BY <1>8 DEF Lock, tables, history
  <2> QED
    BY <1>0, <2>1 DEF Tables, InboxStep
<1>9. ASSUME NEW h \in Handlers, FindTasks(h)
      PROVE  inbox' \in [Entries -> InboxRecords] /\ (\A d \in Entries : InboxStep(d, inbox'[d]))
  <2>1. inbox' = inbox
    BY <1>9 DEF FindTasks, tables, history
  <2> QED
    BY <1>0, <2>1 DEF Tables, InboxStep
<1>10. ASSUME NEW h \in Handlers, FinishResolve(h)
      PROVE  inbox' \in [Entries -> InboxRecords] /\ (\A d \in Entries : InboxStep(d, inbox'[d]))
  <2>1. inbox' = [e \in Entries |->
                 IF e \in tx[h].entries THEN [inbox[e] EXCEPT !.marks = @ \union {"resolved"}] ELSE inbox[e]]
    BY <1>10, Zenon DEF FinishResolve
  <2>2. ASSUME NEW d \in Entries
        PROVE  inbox'[d] \in InboxRecords /\ InboxStep(d, inbox'[d])
    <3>1. CASE d \in tx[h].entries
      <4>1. inbox'[d] = [inbox[d] EXCEPT !.marks = @ \union {"resolved"}]
        BY <2>1, <3>1, Zenon
      <4>2. /\ inbox'[d] \in InboxRecords /\ inbox'[d].row = inbox[d].row
            /\ inbox'[d].marks = inbox[d].marks \union {"resolved"}
        BY <4>1, <1>0, <3>1 DEF Tables, InboxRecords, Marks
      <4> QED
        BY <1>10, <2>1, <3>1, <4>2, Zenon DEF InboxStep, Resolved
    <3>2. CASE ~(d \in tx[h].entries)
      <4>1. inbox'[d] = inbox[d]
        BY <2>1, <3>2, Zenon
      <4> QED
        BY <4>1, <1>0 DEF Tables, InboxStep
    <3> QED
      BY <3>1, <3>2
  <2>3. inbox' = [d \in Entries |-> inbox'[d]]
    BY <2>1
  <2> QED
    BY <2>2, <2>3
<1>11. ASSUME NEW h \in Handlers, FinishRetry(h)
      PROVE  inbox' \in [Entries -> InboxRecords] /\ (\A d \in Entries : InboxStep(d, inbox'[d]))
  <2>1. inbox' = inbox
    BY <1>11 DEF FinishRetry, tables, history
  <2> QED
    BY <1>0, <2>1 DEF Tables, InboxStep
<1>12. ASSUME NEW w \in Workers, NEW t \in Tasks, Claim(w, t)
      PROVE  inbox' \in [Entries -> InboxRecords] /\ (\A d \in Entries : InboxStep(d, inbox'[d]))
  <2>1. inbox' = inbox
    BY <1>12 DEF Claim, tables, history
  <2> QED
    BY <1>0, <2>1 DEF Tables, InboxStep
<1>13. ASSUME NEW w \in Workers, CheckActive(w)
      PROVE  inbox' \in [Entries -> InboxRecords] /\ (\A d \in Entries : InboxStep(d, inbox'[d]))
  <2>1. inbox' = inbox
    BY <1>13 DEF CheckActive, tables, history
  <2> QED
    BY <1>0, <2>1 DEF Tables, InboxStep
<1>14. ASSUME NEW w \in Workers, Publish(w)
      PROVE  inbox' \in [Entries -> InboxRecords] /\ (\A d \in Entries : InboxStep(d, inbox'[d]))
  <2>1. inbox' = inbox
    BY <1>14 DEF Publish, tables, history
  <2> QED
    BY <1>0, <2>1 DEF Tables, InboxStep
<1>15. ASSUME NEW w \in Workers, Record(w)
      PROVE  inbox' \in [Entries -> InboxRecords] /\ (\A d \in Entries : InboxStep(d, inbox'[d]))
  <2>1. inbox' = inbox
    BY <1>15 DEF Record, tables, history
  <2> QED
    BY <1>0, <2>1 DEF Tables, InboxStep
<1>16. ASSUME NEW s \in Sessions, Crash(s)
      PROVE  inbox' \in [Entries -> InboxRecords] /\ (\A d \in Entries : InboxStep(d, inbox'[d]))
  <2>1. inbox' = inbox
    BY <1>16 DEF Crash, tables, history
  <2> QED
    BY <1>0, <2>1 DEF Tables, InboxStep
<1> QED
  BY <1>1, <1>2, <1>3, <1>4, <1>5, <1>6, <1>7, <1>8, <1>9, <1>10, <1>11, <1>12, <1>13,
     <1>14, <1>15, <1>16, Zenon DEF Next, HandlerStep, WorkerStep

\* Every step keeps the logs to their type, and no log goes back to none.
LEMMA LogSteps ==
    ASSUME Tables, TxInv, Next
    PROVE  log' \in [Logs -> Said] /\ (\A k \in Logs : log[k] # "none" => log'[k] # "none")
<1>0. TxInv /\ Workers \subseteq Sessions /\ Handlers \subseteq Sessions
  BY DEF Sessions
<1>1. ASSUME NEW e \in Entries, NEW l \in Logs \union {None}, Create(e, l)
      PROVE  log' \in [Logs -> Said] /\ (\A k \in Logs : log[k] # "none" => log'[k] # "none")
  <2>1. log' = WithLog(log, l, "pending")
    BY <1>1 DEF Create
  <2> QED
    BY <2>1, LogTyped DEF Said, WithLog
<1>2. ASSUME NEW e \in Entries, NEW l \in Logs, CreateAgain(e, l)
      PROVE  log' \in [Logs -> Said] /\ (\A k \in Logs : log[k] # "none" => log'[k] # "none")
  <2>1. log' = WithLog(log, l, "skipped")
    BY <1>2 DEF CreateAgain
  <2> QED
    BY <2>1, LogTyped DEF Said, WithLog
<1>3. ASSUME NEW e \in Entries, Archive(e)
      PROVE  log' \in [Logs -> Said] /\ (\A k \in Logs : log[k] # "none" => log'[k] # "none")
  <2>1. log' = log
    BY <1>3 DEF Archive, tables, history
  <2> QED
    BY <2>1 DEF Tables
<1>4. ASSUME NEW e \in Entries, Expire(e)
      PROVE  log' \in [Logs -> Said] /\ (\A k \in Logs : log[k] # "none" => log'[k] # "none")
  <2>1. log' = log
    BY <1>4 DEF Expire, tables, history
  <2> QED
    BY <2>1 DEF Tables
<1>5. ASSUME Purge
      PROVE  log' \in [Logs -> Said] /\ (\A k \in Logs : log[k] # "none" => log'[k] # "none")
  <2>1. log' = log
    BY <1>5 DEF Purge, tables, history
  <2> QED
    BY <2>1 DEF Tables
<1>6. ASSUME NEW h \in Handlers, NEW S \in SUBSET Entries, StartResolve(h, S)
      PROVE  log' \in [Logs -> Said] /\ (\A k \in Logs : log[k] # "none" => log'[k] # "none")
  <2>1. log' = log
    BY <1>6 DEF StartResolve, tables, history
  <2> QED
    BY <2>1 DEF Tables
<1>7. ASSUME NEW h \in Handlers, NEW t \in Tasks, StartRetry(h, t)
      PROVE  log' \in [Logs -> Said] /\ (\A k \in Logs : log[k] # "none" => log'[k] # "none")
  <2>1. log' = log
    BY <1>7 DEF StartRetry, tables, history
  <2> QED
    BY <2>1 DEF Tables
<1>8. ASSUME NEW h \in Handlers, Lock(h)
      PROVE  log' \in [Logs -> Said] /\ (\A k \in Logs : log[k] # "none" => log'[k] # "none")
  <2>1. log' = log
    BY <1>8 DEF Lock, tables, history
  <2> QED
    BY <2>1 DEF Tables
<1>9. ASSUME NEW h \in Handlers, FindTasks(h)
      PROVE  log' \in [Logs -> Said] /\ (\A k \in Logs : log[k] # "none" => log'[k] # "none")
  <2>1. log' = log
    BY <1>9 DEF FindTasks, tables, history
  <2> QED
    BY <2>1 DEF Tables
<1>10. ASSUME NEW h \in Handlers, FinishResolve(h)
      PROVE  log' \in [Logs -> Said] /\ (\A k \in Logs : log[k] # "none" => log'[k] # "none")
  <2>1. log' = [l \in Logs |-> IF \E t \in Canceled(h) : task[t].log = l THEN "skipped" ELSE log[l]]
    BY <1>10, Zenon DEF FinishResolve, LogsSkipped
  <2> QED
    BY <2>1 DEF Tables, Said
<1>11. ASSUME NEW h \in Handlers, FinishRetry(h)
      PROVE  log' \in [Logs -> Said] /\ (\A k \in Logs : log[k] # "none" => log'[k] # "none")
  <2>1. CASE log' = log
    BY <2>1 DEF Tables
  <2>2. CASE log' = WithLog(log, task[tx[h].task].log, "pending")
    <3>1. tx[h].task \in Tasks
      BY <1>11, <1>0, TaskOf DEF FinishRetry
    <3>2. task[tx[h].task].log \in Logs \union {None} /\ "pending" \in Said /\ "none" # "pending"
      BY <3>1 DEF Tables, TaskRecords, Said
    <3> QED
      BY <2>2, <3>2, LogTyped DEF WithLog
  <2> QED
    BY <1>11, <2>1, <2>2 DEF FinishRetry, tables
<1>12. ASSUME NEW w \in Workers, NEW t \in Tasks, Claim(w, t)
      PROVE  log' \in [Logs -> Said] /\ (\A k \in Logs : log[k] # "none" => log'[k] # "none")
  <2>1. log' = log
    BY <1>12 DEF Claim, tables, history
  <2> QED
    BY <2>1 DEF Tables
<1>13. ASSUME NEW w \in Workers, CheckActive(w)
      PROVE  log' \in [Logs -> Said] /\ (\A k \in Logs : log[k] # "none" => log'[k] # "none")
  <2>1. CASE log' = log
    BY <2>1 DEF Tables
  <2>2. CASE log' = WithLog(log, task[tx[w].task].log, "skipped")
    <3>1. tx[w].task \in Tasks
      BY <1>13, <1>0, TaskOf DEF CheckActive
    <3>2. task[tx[w].task].log \in Logs \union {None} /\ "skipped" \in Said /\ "none" # "skipped"
      BY <3>1 DEF Tables, TaskRecords, Said
    <3> QED
      BY <2>2, <3>2, LogTyped DEF WithLog
  <2> QED
    BY <1>13, <2>1, <2>2 DEF CheckActive, tables
<1>14. ASSUME NEW w \in Workers, Publish(w)
      PROVE  log' \in [Logs -> Said] /\ (\A k \in Logs : log[k] # "none" => log'[k] # "none")
  <2>1. log' = log
    BY <1>14 DEF Publish, tables, history
  <2> QED
    BY <2>1 DEF Tables
<1>15. ASSUME NEW w \in Workers, Record(w)
      PROVE  log' \in [Logs -> Said] /\ (\A k \in Logs : log[k] # "none" => log'[k] # "none")
  <2>1. CASE log' = log
    BY <2>1 DEF Tables
  <2>2. CASE log' = WithLog(log, task[tx[w].task].log, (IF tx[w].acked THEN "success" ELSE "failed"))
    <3>1. tx[w].task \in Tasks
      BY <1>15, <1>0, TaskOf DEF Record
    <3>2. task[tx[w].task].log \in Logs \union {None} /\ (IF tx[w].acked THEN "success" ELSE "failed") \in Said
          /\ "none" # (IF tx[w].acked THEN "success" ELSE "failed")
      BY <3>1 DEF Tables, TaskRecords, Said
    <3> QED
      BY <2>2, <3>2, LogTyped DEF WithLog
  <2> QED
    BY <1>15, <2>1, <2>2 DEF Record, tables
<1>16. ASSUME NEW s \in Sessions, Crash(s)
      PROVE  log' \in [Logs -> Said] /\ (\A k \in Logs : log[k] # "none" => log'[k] # "none")
  <2>1. log' = log
    BY <1>16 DEF Crash, tables, history
  <2> QED
    BY <2>1 DEF Tables
<1> QED
  BY <1>1, <1>2, <1>3, <1>4, <1>5, <1>6, <1>7, <1>8, <1>9, <1>10, <1>11, <1>12, <1>13,
     <1>14, <1>15, <1>16, Zenon DEF Next, HandlerStep, WorkerStep

\* So the tables keep to their types.
LEMMA TablesKept ==
    ASSUME Tables, TxInv, Next
    PROVE  Tables'
BY InboxSteps, TaskSteps, LogSteps, Zenon DEF Tables

-----------------------------------------------------------------------------
(* What a step does to a transaction.                                        *)

\* A transaction that goes on with its task.
SameTask(s, r) == r.kind = tx[s].kind /\ r.task = tx[s].task /\ r.attempts = tx[s].attempts

\* The ways in which a transaction changes.
Began(s, r) == r.kind \in {"resolve", "retry"} /\ r.step \in {"inbox", "locks"}
Advanced(s, r) == tx[s].kind # "deliver" /\ SameTask(s, r) /\ r.step = tx[s].step
                  /\ r.entries = tx[s].entries /\ r.todo \union r.held = tx[s].todo \union tx[s].held
Found(s, r) == FindTasks(s) /\ r.kind = "resolve" /\ r.step = "tasks"
               /\ r.entries = {e \in tx[s].entries : Unresolved(e)}
               /\ r.todo = {TaskRow(t) : t \in PendingOf(r.entries)}
Claimed(s, r) == \E t \in Tasks : Claim(s, t) /\ r.kind = "deliver" /\ r.step = "check" /\ r.task = t
                                 /\ r.attempts = task[t].attempts
Checked(s, r) == CheckActive(s) /\ ~Inactive(tx[s].task) /\ UNCHANGED tables /\ SameTask(s, r)
                 /\ r.step = "publish"
Announced(s, r) == Publish(s) /\ SameTask(s, r) /\ r.step \in {"reached", "failed"}
                   /\ (r.acked => r.step = "reached")
                   /\ (r.step = "reached" => published' = [published EXCEPT ![tx[s].task] = @ + 1])
TxStep(s, r) == r = tx[s] \/ r = Idle \/ Began(s, r) \/ Advanced(s, r) \/ Found(s, r) \/ Claimed(s, r)
                \/ Checked(s, r) \/ Announced(s, r)

\* Where a transaction is replaced, the others stay.
LEMMA TxStepUpdate ==
    ASSUME TxTypes, NEW s \in Sessions, NEW r, tx' = [tx EXCEPT ![s] = r], TxStep(s, r)
    PROVE  \A u \in Sessions : TxStep(u, tx'[u])
<1>1. tx'[s] = r /\ (\A u \in Sessions : u # s => tx'[u] = tx[u])
  BY DEF TxTypes
<1> QED
  BY <1>1, Zenon DEF TxStep

\* Every step changes every transaction in one of these ways.
LEMMA TxSteps ==
    ASSUME Tables, TxInv, Next
    PROVE  \A u \in Sessions : TxStep(u, tx'[u])
<1>0. TxTypes /\ Workers \subseteq Sessions /\ Handlers \subseteq Sessions
  BY DEF TxInv, Sessions
<1>1. ASSUME NEW e \in Entries, NEW l \in Logs \union {None}, Create(e, l)
      PROVE  \A u \in Sessions : TxStep(u, tx'[u])
  <2>1. tx' = tx
    BY <1>1 DEF Create
  <2> QED
    BY <2>1, Zenon DEF TxStep
<1>2. ASSUME NEW e \in Entries, NEW l \in Logs, CreateAgain(e, l)
      PROVE  \A u \in Sessions : TxStep(u, tx'[u])
  <2>1. tx' = tx
    BY <1>2 DEF CreateAgain
  <2> QED
    BY <2>1, Zenon DEF TxStep
<1>3. ASSUME NEW e \in Entries, Archive(e)
      PROVE  \A u \in Sessions : TxStep(u, tx'[u])
  <2>1. tx' = tx
    BY <1>3 DEF Archive
  <2> QED
    BY <2>1, Zenon DEF TxStep
<1>4. ASSUME NEW e \in Entries, Expire(e)
      PROVE  \A u \in Sessions : TxStep(u, tx'[u])
  <2>1. tx' = tx
    BY <1>4 DEF Expire
  <2> QED
    BY <2>1, Zenon DEF TxStep
<1>5. ASSUME Purge
      PROVE  \A u \in Sessions : TxStep(u, tx'[u])
  <2>1. tx' = tx
    BY <1>5 DEF Purge
  <2> QED
    BY <2>1, Zenon DEF TxStep
<1>6. ASSUME NEW h \in Handlers, NEW S \in SUBSET Entries, StartResolve(h, S)
      PROVE  \A u \in Sessions : TxStep(u, tx'[u])
  <2> DEFINE r == Transaction("resolve", "inbox", S, None, 0, FALSE, {InboxRow(e) : e \in S}, {})
  <2>1. tx' = [tx EXCEPT ![h] = r]
    BY <1>6, <1>0, StartResolveTx, Zenon
  <2>2. TxStep(h, r)
    BY DEF TxStep, Began, Transaction
  <2> QED
    BY <1>0, <2>1, <2>2, TxStepUpdate, Zenon
<1>7. ASSUME NEW h \in Handlers, NEW t \in Tasks, StartRetry(h, t)
      PROVE  \A u \in Sessions : TxStep(u, tx'[u])
  <2> DEFINE r == Transaction("retry", "locks", {}, t, 0, FALSE, RetryRows(t), {})
  <2>1. tx' = [tx EXCEPT ![h] = r]
    BY <1>7, <1>0, StartRetryTx, Zenon
  <2>2. TxStep(h, r)
    BY DEF TxStep, Began, Transaction
  <2> QED
    BY <1>0, <2>1, <2>2, TxStepUpdate, Zenon
<1>8. ASSUME NEW h \in Handlers, Lock(h)
      PROVE  \A u \in Sessions : TxStep(u, tx'[u])
  <2>1. CASE tx' = [tx EXCEPT ![h] = Idle]
    <3>1. TxStep(h, Idle)
      BY DEF TxStep
    <3> QED
      BY <1>0, <2>1, <3>1, TxStepUpdate, Zenon
  <2>2. ASSUME NEW row \in tx[h].todo,
               tx' = [tx EXCEPT ![h] = Transaction(tx[h].kind, tx[h].step, tx[h].entries, tx[h].task,
                       tx[h].attempts, tx[h].acked, tx[h].todo \ {row}, tx[h].held \union {row})]
        PROVE  \A u \in Sessions : TxStep(u, tx'[u])
    <3> DEFINE r == Transaction(tx[h].kind, tx[h].step, tx[h].entries, tx[h].task,
                       tx[h].attempts, tx[h].acked, tx[h].todo \ {row}, tx[h].held \union {row})
    <3>1. /\ r.kind = tx[h].kind /\ r.task = tx[h].task /\ r.attempts = tx[h].attempts
          /\ r.step = tx[h].step /\ r.entries = tx[h].entries
          /\ r.todo \union r.held = tx[h].todo \union tx[h].held
      BY DEF Transaction
    <3>2. tx[h].kind # "deliver"
      BY <1>0, <2>2 DEF TxInv, Claims, ClaimOf
    <3>3. TxStep(h, r)
      BY <3>1, <3>2, Zenon DEF TxStep, Advanced, SameTask
    <3> QED
      BY <1>0, <2>2, <3>3, TxStepUpdate, Zenon
  <2> QED
    BY <1>8, <1>0, <2>1, <2>2, LockTx, Zenon
<1>9. ASSUME NEW h \in Handlers, FindTasks(h)
      PROVE  \A u \in Sessions : TxStep(u, tx'[u])
  <2> DEFINE r == Transaction(tx[h].kind, "tasks", {e \in tx[h].entries : Unresolved(e)}, tx[h].task,
                   tx[h].attempts, tx[h].acked,
                   {TaskRow(t) : t \in PendingOf({e \in tx[h].entries : Unresolved(e)})}, tx[h].held)
  <2>1. tx' = [tx EXCEPT ![h] = r]
    BY <1>9, <1>0, FindTasksTx, Zenon
  <2>2. TxStep(h, r)
    <3>1. /\ r.kind = tx[h].kind /\ r.step = "tasks" /\ r.entries = {e \in tx[h].entries : Unresolved(e)}
          /\ r.todo = {TaskRow(t) : t \in PendingOf({e \in tx[h].entries : Unresolved(e)})}
      BY DEF Transaction
    <3>2. tx[h].kind = "resolve"
      BY <1>9 DEF FindTasks
    <3>3. Found(h, r)
      BY <1>9, <3>1, <3>2, Zenon DEF Found
    <3> QED
      BY <3>3, Zenon DEF TxStep
  <2> QED
    BY <1>0, <2>1, <2>2, TxStepUpdate, Zenon
<1>10. ASSUME NEW h \in Handlers, FinishResolve(h)
      PROVE  \A u \in Sessions : TxStep(u, tx'[u])
  <2>1. h \in Sessions /\ tx' = [tx EXCEPT ![h] = Idle]
    BY <1>10, <1>0 DEF FinishResolve, End
  <2>2. TxStep(h, Idle)
    BY DEF TxStep
  <2> QED
    BY <1>0, <2>1, <2>2, TxStepUpdate, Zenon
<1>11. ASSUME NEW h \in Handlers, FinishRetry(h)
      PROVE  \A u \in Sessions : TxStep(u, tx'[u])
  <2>1. h \in Sessions /\ tx' = [tx EXCEPT ![h] = Idle]
    BY <1>11, <1>0 DEF FinishRetry, End
  <2>2. TxStep(h, Idle)
    BY DEF TxStep
  <2> QED
    BY <1>0, <2>1, <2>2, TxStepUpdate, Zenon
<1>12. ASSUME NEW w \in Workers, NEW t \in Tasks, Claim(w, t)
      PROVE  \A u \in Sessions : TxStep(u, tx'[u])
  <2> DEFINE r == Transaction("deliver", "check", {}, t, task[t].attempts, FALSE, {}, {TaskRow(t)})
  <2>1. tx' = [tx EXCEPT ![w] = r]
    BY <1>12, <1>0, ClaimTx, Zenon
  <2>2. TxStep(w, r)
    <3>1. r.kind = "deliver" /\ r.step = "check" /\ r.task = t /\ r.attempts = task[t].attempts
      BY DEF Transaction
    <3> QED
      BY <1>12, <3>1, Zenon DEF TxStep, Claimed
  <2> QED
    BY <1>0, <2>1, <2>2, TxStepUpdate, Zenon
<1>13. ASSUME NEW w \in Workers, CheckActive(w)
      PROVE  \A u \in Sessions : TxStep(u, tx'[u])
  <2>1. CASE tx' = [tx EXCEPT ![w] = Idle]
    <3>1. TxStep(w, Idle)
      BY DEF TxStep
    <3> QED
      BY <1>0, <2>1, <3>1, TxStepUpdate, Zenon
  <2>2. CASE /\ ~Inactive(tx[w].task) /\ UNCHANGED <<inbox, task, log>>
             /\ tx' = [tx EXCEPT ![w] = Transaction(tx[w].kind, "publish", tx[w].entries, tx[w].task,
                        tx[w].attempts, tx[w].acked, tx[w].todo, tx[w].held)]
    <3> DEFINE r == Transaction(tx[w].kind, "publish", tx[w].entries, tx[w].task, tx[w].attempts,
                              tx[w].acked, tx[w].todo, tx[w].held)
    <3>1. SameTask(w, r) /\ r.step = "publish"
      BY DEF Transaction, SameTask
    <3>2. TxStep(w, r)
      BY <1>13, <2>2, <3>1, Zenon DEF TxStep, Checked, tables
    <3> QED
      BY <1>0, <2>2, <3>2, TxStepUpdate, Zenon
  <2> QED
    BY <1>13, <1>0, <2>1, <2>2, CheckTx, Zenon
<1>14. ASSUME NEW w \in Workers, Publish(w)
      PROVE  \A u \in Sessions : TxStep(u, tx'[u])
  <2>1. PICK reached, acked \in BOOLEAN :
            (acked => reached)
            /\ published' = [published EXCEPT ![tx[w].task] = @ + IF reached THEN 1 ELSE 0]
            /\ tx' = [tx EXCEPT ![w] = Transaction(tx[w].kind, IF reached THEN "reached" ELSE "failed",
                          tx[w].entries, tx[w].task, tx[w].attempts, acked, tx[w].todo, tx[w].held)]
    BY <1>14, <1>0, PublishTx, Zenon
  <2> DEFINE r == Transaction(tx[w].kind, IF reached THEN "reached" ELSE "failed",
                          tx[w].entries, tx[w].task, tx[w].attempts, acked, tx[w].todo, tx[w].held)
  <2>2. /\ SameTask(w, r) /\ r.step \in {"reached", "failed"} /\ (r.acked => r.step = "reached")
        /\ r.step = "reached" => published' = [published EXCEPT ![tx[w].task] = @ + 1]
    BY <2>1 DEF Transaction, SameTask
  <2>3. TxStep(w, r)
    BY <1>14, <2>2, Zenon DEF TxStep, Announced
  <2> QED
    BY <1>0, <2>1, <2>3, TxStepUpdate, Zenon
<1>15. ASSUME NEW w \in Workers, Record(w)
      PROVE  \A u \in Sessions : TxStep(u, tx'[u])
  <2>1. w \in Sessions /\ tx' = [tx EXCEPT ![w] = Idle]
    BY <1>15, <1>0 DEF Record, End
  <2>2. TxStep(w, Idle)
    BY DEF TxStep
  <2> QED
    BY <1>0, <2>1, <2>2, TxStepUpdate, Zenon
<1>16. ASSUME NEW s \in Sessions, Crash(s)
      PROVE  \A u \in Sessions : TxStep(u, tx'[u])
  <2>1. s \in Sessions /\ tx' = [tx EXCEPT ![s] = Idle]
    BY <1>16, <1>0 DEF Crash, End
  <2>2. TxStep(s, Idle)
    BY DEF TxStep
  <2> QED
    BY <1>0, <2>1, <2>2, TxStepUpdate, Zenon
<1> QED
  BY <1>1, <1>2, <1>3, <1>4, <1>5, <1>6, <1>7, <1>8, <1>9, <1>10, <1>11, <1>12, <1>13,
     <1>14, <1>15, <1>16, Zenon DEF Next, HandlerStep, WorkerStep

-----------------------------------------------------------------------------
(* Claims, resolutions and messages.                                         *)

\* A task whose message was stored keeps its row, though it may be removed.
HasMessage == \A t \in Tasks : task[t].entry # None => inbox[task[t].entry].row # "none"

\* A claimed task is live and as its worker read it; once its message was found
\* active, it waits.
Working == \A s \in Sessions : tx[s].kind = "deliver" =>
    /\ Live(tx[s].task)
    /\ tx[s].attempts = task[tx[s].task].attempts
    /\ task[tx[s].task].status = "waiting" \/ (tx[s].step = "check" /\ Inactive(tx[s].task))

\* A message about to be announced is not resolved.
Announcing == \A s \in Sessions :
    tx[s].kind = "deliver" /\ tx[s].step = "publish" /\ task[tx[s].task].entry # None
        => "resolved" \notin inbox[task[tx[s].task].entry].marks

\* A resolution that found its tasks has locked, or is going to lock, every live
\* task of its messages.
Resolving == \A s \in Sessions : tx[s].kind = "resolve" /\ tx[s].step = "tasks" =>
    /\ \A e \in tx[s].entries : inbox[e].row # "none"
    /\ \A t \in Tasks : Live(t) /\ task[t].entry \in tx[s].entries
                            => TaskRow(t) \in tx[s].todo \union tx[s].held

\* What is invariant about claims, resolutions and messages.
LockInv == HasMessage /\ LiveTasksHaveReceipts /\ Working /\ Announcing /\ Resolving

\* A worker holds the task it claimed, and nobody else does.
LEMMA HeldAlone ==
    ASSUME TxInv, NEW s \in Sessions, NEW u \in Sessions, tx[s].kind = "deliver", s # u
    PROVE  TaskRow(tx[s].task) \notin tx[u].held
BY DEF TxInv, Claims, ClaimOf, Exclusive

\* A claimed task changes by its worker's hand only, in the step that ends the
\* claim.
LEMMA Undisturbed ==
    ASSUME Tables, TxInv, Working, Next, NEW s \in Sessions, tx[s].kind = "deliver"
    PROVE  tx'[s] = Idle \/ task'[tx[s].task] = task[tx[s].task]
<1> DEFINE t == tx[s].task
<1>1. t \in Tasks /\ Live(t) /\ TaskRow(t) \in tx[s].held /\ tx \in [Sessions -> TxRecords]
  BY DEF TxInv, TxTypes, Claims, ClaimOf, Working
<1>2. TaskStep(t, task'[t])
  BY <1>1, TaskSteps
<1>3. CASE New(t, task'[t]) \/ Hinted(t, task'[t])
  BY <1>1, <1>3 DEF New, Hinted, Live
<1>4. CASE Gone(t, task'[t])
  BY <1>1, <1>4 DEF Gone, Live
<1>5. CASE Cut(t, task'[t])
  <2>1. PICK h \in Handlers : FinishResolve(h) /\ t \in Canceled(h)
    BY <1>5 DEF Cut
  <2>2. h \in Sessions /\ tx[h].kind = "resolve" /\ TaskRow(t) \in tx[h].held
    BY <2>1 DEF FinishResolve, Canceled, Sessions
  <2> QED
    BY <2>2, HeldAlone
<1>6. CASE Again(t, task'[t])
  <2>1. PICK h \in Handlers : FinishRetry(h) /\ tx[h].task = t
    BY <1>6 DEF Again
  <2>2. h \in Sessions /\ tx[h].kind = "retry" /\ tx[h].todo = {}
    BY <2>1 DEF FinishRetry, Sessions
  <2>3. TaskRow(t) \in tx[h].held
    BY <2>1, <2>2 DEF TxInv, Claims, ClaimOf
  <2> QED
    BY <2>2, <2>3, HeldAlone
<1>7. CASE Dropped(t, task'[t])
  <2>1. PICK w \in Workers : CheckActive(w) /\ tx[w].task = t /\ Inactive(t)
    BY <1>7 DEF Dropped
  <2>2. w \in Sessions /\ tx[w].kind = "deliver" /\ tx' = [tx EXCEPT ![w] = Idle]
    BY <2>1 DEF CheckActive, Sessions, End
  <2>3. TaskRow(t) \in tx[w].held
    BY <2>1, <2>2 DEF TxInv, Claims, ClaimOf
  <2> QED
    BY <1>1, <2>2, <2>3, HeldAlone
<1>8. CASE Tried(t, task'[t])
  <2>1. PICK w \in Workers : Record(w) /\ tx[w].task = t
    BY <1>8 DEF Tried
  <2>2. w \in Sessions /\ tx[w].kind = "deliver" /\ tx' = [tx EXCEPT ![w] = Idle]
    BY <2>1 DEF Record, Sessions, End
  <2>3. TaskRow(t) \in tx[w].held
    BY <2>1, <2>2 DEF TxInv, Claims, ClaimOf
  <2> QED
    BY <1>1, <2>2, <2>3, HeldAlone
<1> QED
  BY <1>2, <1>3, <1>4, <1>5, <1>6, <1>7, <1>8 DEF TaskStep

\* Only new tasks come to life.
LEMMA LiveSteps ==
    ASSUME Tables, TxInv, Working, NEW t \in Tasks, NEW r, TaskStep(t, r),
           r.status \in {"waiting", "failed"}
    PROVE  (Live(t) /\ r.entry = task[t].entry) \/ New(t, r) \/ Hinted(t, r)
<1>1. CASE Gone(t, r)
  BY <1>1 DEF Gone, Purged, NoTask
<1>2. CASE Cut(t, r) \/ Dropped(t, r)
  BY <1>2 DEF Cut, Dropped
<1>3. CASE Again(t, r)
  BY <1>3 DEF Again, Kept
<1>4. CASE Tried(t, r)
  <2>1. PICK w \in Workers : Record(w) /\ tx[w].task = t /\ r.entry = task[t].entry
    BY <1>4 DEF Tried
  <2> QED
    BY <2>1 DEF Record, Working, Sessions
<1> QED
  BY <1>1, <1>2, <1>3, <1>4 DEF TaskStep, Live

\* A task gets a message when it is made, and may lose it when it is removed.
LEMMA EntrySteps ==
    ASSUME NEW t \in Tasks, NEW r, TaskStep(t, r), r.entry # None
    PROVE  r.entry = task[t].entry \/ New(t, r)
BY DEF TaskStep, New, Hinted, Gone, Cut, Again, Dropped, Tried, Kept, NewTask, Purged, NoTask

\* A new task belongs to the message stored with it.
LEMMA NewMessage ==
    ASSUME Tables, NEW t \in Tasks, NEW r, New(t, r)
    PROVE  r.entry \in Entries /\ inbox[r.entry].row = "none" /\ inbox'[r.entry].row = "present"
<1>1. PICK e \in Entries, l \in Logs \union {None} : Create(e, l) /\ r = NewTask(e, l)
  BY DEF New
<1>2. inbox[e].row = "none" /\ inbox' = [inbox EXCEPT ![e].row = "present"]
  BY <1>1 DEF Create
<1>3. inbox'[e].row = "present"
  BY <1>2 DEF Tables, InboxRecords
<1> QED
  BY <1>1, <1>2, <1>3 DEF NewTask

\* A stored message is never as if it had not been stored, and loses no mark.
LEMMA MessageSteps ==
    ASSUME Tables, TxInv, Next, NEW e \in Entries
    PROVE  /\ inbox[e].row # "none" => inbox'[e].row # "none"
           /\ inbox[e].row # "none" /\ ~Active(e) => ~Active(e)'
           /\ inbox[e].row = "present" /\ ~Purgeable(e) => inbox'[e].row = "present"
<1>1. InboxStep(e, inbox'[e])
  BY InboxSteps
<1>2. CASE inbox'[e] = inbox[e]
  BY <1>2 DEF Active
<1>3. CASE Posted(e, inbox'[e])
  BY <1>3 DEF Active, Posted
<1>4. CASE Marked(e, inbox'[e])
  BY <1>4 DEF Active, Marked
<1>5. CASE Resolved(e, inbox'[e])
  BY <1>5 DEF Active, Resolved
<1>6. CASE Removed(e, inbox'[e])
  BY <1>6 DEF Active, Removed
<1> QED
  BY <1>1, <1>2, <1>3, <1>4, <1>5, <1>6 DEF InboxStep

\* A message that is not active stays so.
LEMMA InactiveStable ==
    ASSUME Tables, TxInv, HasMessage, Next, NEW t \in Tasks, Inactive(t),
           task'[t].entry = task[t].entry
    PROVE  Inactive(t)'
<1>1. task[t].entry \in Entries
  BY DEF Tables, TaskRecords, Inactive
<1>2. ~Active(task[t].entry)'
  BY <1>1, MessageSteps DEF Inactive, HasMessage
<1> QED
  BY <1>2 DEF Inactive, Active

\* HasMessage is kept.
LEMMA HasMessageKept ==
    ASSUME Tables, TxInv, LockInv, Next
    PROVE  HasMessage'
<1>1. ASSUME NEW t \in Tasks, task'[t].entry # None
      PROVE  inbox'[task'[t].entry].row # "none"
  <2>1. TaskStep(t, task'[t]) /\ task'[t] \in TaskRecords
    BY TaskSteps
  <2>2. task'[t].entry \in Entries
    BY <1>1, <2>1 DEF TaskRecords
  <2>3. CASE task'[t].entry = task[t].entry
    BY <1>1, <2>2, <2>3, MessageSteps DEF HasMessage, LockInv
  <2>4. CASE New(t, task'[t])
    BY <2>4, NewMessage
  <2> QED
    BY <1>1, <2>1, <2>3, <2>4, EntrySteps
<1> QED
  BY <1>1, Zenon DEF HasMessage

\* Retention spares the messages of live tasks.
LEMMA ReceiptsKept ==
    ASSUME Tables, TxInv, LockInv, Next
    PROVE  LiveTasksHaveReceipts'
<1>1. ASSUME NEW t \in Tasks, Live(t)', task'[t].entry # None
      PROVE  inbox'[task'[t].entry].row = "present"
  <2>1. TaskStep(t, task'[t]) /\ task'[t] \in TaskRecords
    BY TaskSteps
  <2>2. task'[t].entry \in Entries /\ task'[t].status \in {"waiting", "failed"}
    BY <1>1, <2>1 DEF TaskRecords, Live
  <2>3. CASE Live(t) /\ task'[t].entry = task[t].entry
    <3>1. inbox[task'[t].entry].row = "present" /\ ~Purgeable(task'[t].entry)
      BY <1>1, <2>3 DEF LockInv, LiveTasksHaveReceipts, Purgeable
    <3> QED
      BY <2>2, <3>1, MessageSteps
  <2>4. CASE New(t, task'[t])
    BY <2>4, NewMessage
  <2>5. CASE Hinted(t, task'[t])
    BY <1>1, <2>5 DEF Hinted, NewTask
  <2> QED
    BY <2>1, <2>2, <2>3, <2>4, <2>5, LiveSteps DEF LockInv
<1> QED
  BY <1>1, Zenon DEF LiveTasksHaveReceipts

\* A claim stays good until it ends.
LEMMA WorkingKept ==
    ASSUME Tables, TxInv, LockInv, Next
    PROVE  Working'
<1>1. ASSUME NEW s \in Sessions, tx'[s].kind = "deliver"
      PROVE  /\ Live(tx[s].task)'
             /\ tx'[s].attempts = task'[tx'[s].task].attempts
             /\ task'[tx'[s].task].status = "waiting" \/ (tx'[s].step = "check" /\ Inactive(tx[s].task)')
  <2>0. TxStep(s, tx'[s]) /\ tx'[s] # Idle
    BY <1>1, TxSteps DEF Idle
  <2>1. CASE /\ tx[s].kind = "deliver" /\ tx'[s].task = tx[s].task /\ tx'[s].attempts = tx[s].attempts
             /\ tx[s].step # "check" \/ tx'[s].step = "check"
    <3> DEFINE t == tx[s].task
    <3>1. t \in Tasks /\ task'[t] = task[t]
      BY <2>0, <2>1, Undisturbed, TaskOf DEF LockInv
    <3>2. Inactive(t) => Inactive(t)'
      <4>1. \A u \in Tasks : Inactive(u) /\ task'[u].entry = task[u].entry => Inactive(u)'
        BY InactiveStable DEF LockInv
      <4> QED
        BY <2>1, <3>1, <4>1 DEF Inactive, Active
    <3>3. /\ Live(t) /\ tx[s].attempts = task[t].attempts
          /\ task[t].status = "waiting" \/ (tx[s].step = "check" /\ Inactive(t))
      BY <2>1 DEF LockInv, Working
    <3>4. /\ Live(t)' /\ tx'[s].attempts = task'[t].attempts
          /\ task'[t].status = "waiting" \/ (tx'[s].step = "check" /\ Inactive(t)')
      BY <2>1, <3>1, <3>2, <3>3 DEF Live
    <3> QED
      BY <2>1, <3>4 DEF Live, Inactive, Active
  <2>2. CASE Claimed(s, tx'[s])
    <3>1. PICK t \in Tasks : Claim(s, t) /\ tx'[s].step = "check" /\ tx'[s].task = t
                             /\ tx'[s].attempts = task[t].attempts
      BY <2>2 DEF Claimed
    <3>2. task' = task /\ inbox' = inbox /\ Claimable(t)
      BY <3>1 DEF Claim, tables
    <3> QED
      BY <3>1, <3>2 DEF Claimable, Live, Inactive, Active
  <2>3. CASE Checked(s, tx'[s])
    <3>1. /\ tx[s].kind = "deliver" /\ ~Inactive(tx[s].task) /\ task' = task /\ SameTask(s, tx'[s])
      BY <2>3 DEF Checked, CheckActive, tables
    <3>2. /\ Live(tx[s].task) /\ task[tx[s].task].status = "waiting"
          /\ tx[s].attempts = task[tx[s].task].attempts
      BY <3>1 DEF LockInv, Working
    <3> QED
      BY <3>1, <3>2 DEF SameTask, Live
  <2>4. CASE Announced(s, tx'[s])
    BY <1>1, <2>1, <2>4 DEF Announced, Publish, SameTask
  <2>5. CASE tx'[s] = tx[s]
    BY <1>1, <2>1, <2>5
  <2>6. CASE Began(s, tx'[s]) \/ Advanced(s, tx'[s]) \/ Found(s, tx'[s])
    BY <1>1, <2>6 DEF Began, Advanced, SameTask, Found
  <2> QED
    BY <2>0, <2>2, <2>3, <2>4, <2>5, <2>6 DEF TxStep
<1> QED
  BY <1>1 DEF Working, Live, Inactive, Active

\* A resolution commits when it holds the tasks of its messages, so it never
\* overtakes an announcement.
LEMMA AnnouncingKept ==
    ASSUME Tables, TxInv, LockInv, Next
    PROVE  Announcing'
<1>1. ASSUME NEW s \in Sessions, tx'[s].kind = "deliver", tx'[s].step = "publish",
             task'[tx'[s].task].entry # None
      PROVE  "resolved" \notin inbox'[task'[tx'[s].task].entry].marks
  <2>0. TxStep(s, tx'[s]) /\ tx'[s] # Idle
    BY <1>1, TxSteps DEF Idle
  <2>1. CASE tx'[s] = tx[s]
    <3> DEFINE t == tx[s].task
               e == task[t].entry
    <3>1. t \in Tasks /\ task'[t] = task[t] /\ tx[s].kind = "deliver" /\ tx[s].step = "publish"
      BY <1>1, <2>0, <2>1, Undisturbed, TaskOf DEF LockInv
    <3>2. e \in Entries /\ "resolved" \notin inbox[e].marks /\ Live(t)
      BY <1>1, <2>1, <3>1 DEF LockInv, Announcing, Working, Tables, TaskRecords
    <3>3. InboxStep(e, inbox'[e])
      BY <3>2, InboxSteps
    <3>4. ~Resolved(e, inbox'[e])
      <4>1. ASSUME NEW h \in Handlers, FinishResolve(h), e \in tx[h].entries PROVE FALSE
        <5>1. /\ h \in Sessions /\ tx[h].kind = "resolve" /\ tx[h].step = "tasks" /\ tx[h].todo = {}
          BY <4>1 DEF FinishResolve, Sessions
        <5>2. TaskRow(t) \in tx[h].held
          BY <3>1, <3>2, <4>1, <5>1 DEF LockInv, Resolving
        <5> QED
          BY <3>1, <5>1, <5>2, HeldAlone
      <4> QED
        BY <4>1 DEF Resolved
    <3>5. "resolved" \notin inbox'[e].marks
      <4>1. CASE Marked(e, inbox'[e])
        BY <3>2, <4>1 DEF Marked
      <4>2. CASE inbox'[e] = inbox[e] \/ Posted(e, inbox'[e]) \/ Removed(e, inbox'[e])
        BY <3>2, <4>2 DEF Posted, Removed
      <4> QED
        BY <3>3, <3>4, <4>1, <4>2, Zenon DEF InboxStep
    <3> QED
      BY <2>1, <3>1, <3>5
  <2>2. CASE Checked(s, tx'[s])
    <3>1. ~Inactive(tx[s].task) /\ tx'[s].task = tx[s].task /\ task' = task /\ inbox' = inbox
      BY <2>2 DEF Checked, SameTask, tables
    <3> QED
      BY <1>1, <3>1 DEF Inactive, Active
  <2>3. CASE Claimed(s, tx'[s]) \/ Announced(s, tx'[s])
    BY <1>1, <2>3 DEF Claimed, Announced
  <2>4. CASE Began(s, tx'[s]) \/ Advanced(s, tx'[s]) \/ Found(s, tx'[s])
    BY <1>1, <2>4 DEF Began, Advanced, SameTask, Found
  <2> QED
    BY <2>0, <2>1, <2>2, <2>3, <2>4 DEF TxStep
<1> QED
  BY <1>1, Zenon DEF Announcing

\* No task of a message appears, or comes to life, behind a resolution's back.
LEMMA ResolvingKept ==
    ASSUME Tables, TxInv, LockInv, Next
    PROVE  Resolving'
<1>1. ASSUME NEW s \in Sessions, tx'[s].kind = "resolve", tx'[s].step = "tasks"
      PROVE  /\ \A e \in tx'[s].entries : inbox'[e].row # "none"
             /\ \A t \in Tasks : Live(t)' /\ task'[t].entry \in tx'[s].entries
                                   => TaskRow(t) \in tx'[s].todo \union tx'[s].held
  <2>0. TxStep(s, tx'[s]) /\ tx'[s] # Idle /\ tx[s].entries \subseteq Entries
    BY <1>1, TxSteps, TxFields DEF Idle, TxInv
  <2>1. CASE /\ tx[s].kind = "resolve" /\ tx[s].step = "tasks" /\ tx'[s].entries = tx[s].entries
             /\ tx'[s].todo \union tx'[s].held = tx[s].todo \union tx[s].held
    <3>1. /\ \A e \in tx[s].entries : inbox[e].row # "none"
          /\ \A t \in Tasks : Live(t) /\ task[t].entry \in tx[s].entries
                                => TaskRow(t) \in tx[s].todo \union tx[s].held
      BY <2>1 DEF LockInv, Resolving
    <3>2. \A e \in tx'[s].entries : inbox'[e].row # "none"
      BY <2>0, <2>1, <3>1, MessageSteps
    <3>3. ASSUME NEW t \in Tasks, Live(t)', task'[t].entry \in tx'[s].entries
          PROVE  TaskRow(t) \in tx'[s].todo \union tx'[s].held
      <4>1. TaskStep(t, task'[t]) /\ task'[t].status \in {"waiting", "failed"}
        BY <3>3, TaskSteps DEF Live
      <4>2. ~New(t, task'[t])
        BY <2>1, <3>1, <3>3, NewMessage
      <4>3. ~Hinted(t, task'[t])
        BY <2>0, <2>1, <3>3, NotificationConstants DEF Hinted, NewTask
      <4>4. Live(t) /\ task'[t].entry = task[t].entry
        BY <4>1, <4>2, <4>3, LiveSteps DEF LockInv
      <4> QED
        BY <2>1, <3>1, <3>3, <4>4
    <3> QED
      BY <3>2, <3>3
  <2>2. CASE Found(s, tx'[s])
    <3>1. /\ task' = task /\ inbox' = inbox
          /\ tx'[s].entries = {e \in tx[s].entries : Unresolved(e)}
          /\ tx'[s].todo = {TaskRow(t) : t \in PendingOf(tx'[s].entries)}
      BY <2>2 DEF Found, FindTasks, tables
    <3>2. \A e \in tx'[s].entries : inbox'[e].row # "none"
      BY <3>1 DEF Unresolved
    <3>3. ASSUME NEW t \in Tasks, Live(t)', task'[t].entry \in tx'[s].entries
          PROVE  TaskRow(t) \in tx'[s].todo \union tx'[s].held
      BY <3>1, <3>3 DEF PendingOf, Live
    <3> QED
      BY <3>2, <3>3
  <2>3. CASE tx'[s] = tx[s]
    BY <1>1, <2>1, <2>3
  <2>4. CASE Advanced(s, tx'[s])
    BY <1>1, <2>1, <2>4 DEF Advanced, SameTask
  <2>5. CASE Began(s, tx'[s])
    BY <1>1, <2>5 DEF Began
  <2>6. CASE Claimed(s, tx'[s]) \/ Checked(s, tx'[s]) \/ Announced(s, tx'[s])
    BY <1>1, <2>6 DEF Claimed, Checked, Announced, CheckActive, Publish, SameTask
  <2> QED
    BY <2>0, <2>2, <2>3, <2>4, <2>5, <2>6 DEF TxStep
<1> QED
  BY <1>1 DEF Resolving, Live

-----------------------------------------------------------------------------
(* Logs.                                                                     *)

\* What LogsTellOutcome asks of the log of a task of some status.
Told(status, said) ==
    /\ status = "waiting" => said \in {"pending", "failed"}
    /\ status = "failed" => said = "failed"
    /\ status = "delivered" => said = "success"
    /\ status = "canceled" => said = "skipped"

\* No two tasks share a log, and the log of a task was written.
LogOwners == \A t, u \in Tasks : t # u /\ task[t].log # None => task[u].log # task[t].log
LogsWritten == \A t \in Tasks : task[t].log # None => log[task[t].log] # "none"

\* What is invariant about logs.
LogInv == LogOwners /\ LogsWritten /\ LogsTellOutcome

\* A new task and its log are written together, and nothing else is.
LEMMA NewLog ==
    ASSUME Tables, NEW t \in Tasks, New(t, task'[t]), task'[t].log # None
    PROVE  /\ task'[t].status = "waiting" /\ log[task'[t].log] = "none"
           /\ log'[task'[t].log] = "pending"
           /\ \A u \in Tasks : u # t => task'[u] = task[u]
<1>1. PICK e \in Entries, l \in Logs \union {None} :
          Create(e, l) /\ task[t].status = "none" /\ task'[t] = NewTask(e, l)
  BY DEF New
<1>2. task'[t].status = "waiting" /\ task'[t].log = l /\ l \in Logs
  BY <1>1 DEF NewTask
<1>3. log[l] = "none" /\ log' = WithLog(log, l, "pending")
  BY <1>1, <1>2 DEF Create
<1>4. log'[l] = "pending"
  BY <1>2, <1>3 DEF WithLog, Tables
<1>5. PICK v \in Tasks : task' = [task EXCEPT ![v] = NewTask(e, l)]
  BY <1>1 DEF Create, First, Unused
<1>6. v = t
  BY <1>1, <1>5 DEF Tables, NewTask
<1> QED
  BY <1>2, <1>3, <1>4, <1>5, <1>6 DEF Tables

\* A task gets its log when it is made, and may lose it when it is removed.
LEMMA LogOfTask ==
    ASSUME NEW t \in Tasks, NEW r, TaskStep(t, r), r.log # None
    PROVE  r.log = task[t].log \/ New(t, r)
BY DEF TaskStep, New, Hinted, Gone, Cut, Again, Dropped, Tried, Kept, NewTask, Purged, NoTask

\* When the status of a task changes, so does its log, and no other log.
LEMMA LogFollows ==
    ASSUME Tables, TxInv, Working, LogInv, Next, NEW u \in Tasks, NEW k \in Logs,
           task[u].log = k, task'[u].log = k, k # None
    PROVE  Told(task'[u].status, log'[k])
<1> DEFINE G == Told(task'[u].status, log'[k])
<1>0. /\ Workers \subseteq Sessions /\ Handlers \subseteq Sessions
      /\ Told(task[u].status, log[k]) /\ log[k] # "none"
      /\ \A v \in Tasks : task[v].log = k => v = u
  BY DEF Sessions, LogInv, LogOwners, LogsWritten, LogsTellOutcome, Told
<1>1. ASSUME NEW e \in Entries, NEW l \in Logs \union {None}, Create(e, l)
      PROVE  G
  <2>1. PICK t \in Tasks : task' = [task EXCEPT ![t] = NewTask(e, l)]
    BY <1>1 DEF Create, First, Unused
  <2>2. l # k /\ log' = WithLog(log, l, "pending")
    BY <1>1, <1>0 DEF Create
  <2>3. t # u
    BY <2>1, <2>2 DEF Tables, NewTask
  <2> QED
    BY <1>0, <2>1, <2>2, <2>3 DEF WithLog, Tables
<1>2. ASSUME NEW e \in Entries, NEW l \in Logs, CreateAgain(e, l)
      PROVE  G
  <2>1. task' = task /\ l # k /\ log' = WithLog(log, l, "skipped")
    BY <1>2, <1>0 DEF CreateAgain
  <2> QED
    BY <1>0, <2>1 DEF WithLog, Tables
<1>3. ASSUME NEW e \in Entries, Archive(e)
      PROVE  G
  <2>1. task' = WithHints(task, 1) /\ log' = log
    BY <1>3 DEF Archive
  <2>2. task'[u] = task[u]
    BY <2>1, Hints DEF NewTask
  <2> QED
    BY <1>0, <2>1, <2>2
<1>4. ASSUME NEW e \in Entries, Expire(e)
      PROVE  G
  <2>1. task' = task /\ log' = log
    BY <1>4 DEF Expire, tables, history
  <2> QED
    BY <1>0, <2>1
<1>5. ASSUME Purge
      PROVE  G
  <2>1. log' = log /\ (task'[u] = Purged \/ task'[u] = task[u])
    BY <1>5 DEF Purge
  <2> QED
    BY <1>0, <2>1 DEF Purged, NoTask
<1>6. ASSUME NEW h \in Handlers, NEW S \in SUBSET Entries, StartResolve(h, S)
      PROVE  G
  <2>1. task' = task /\ log' = log
    BY <1>6 DEF StartResolve, tables, history
  <2> QED
    BY <1>0, <2>1
<1>7. ASSUME NEW h \in Handlers, NEW t \in Tasks, StartRetry(h, t)
      PROVE  G
  <2>1. task' = task /\ log' = log
    BY <1>7 DEF StartRetry, tables, history
  <2> QED
    BY <1>0, <2>1
<1>8. ASSUME NEW h \in Handlers, Lock(h)
      PROVE  G
  <2>1. task' = task /\ log' = log
    BY <1>8 DEF Lock, tables, history
  <2> QED
    BY <1>0, <2>1
<1>9. ASSUME NEW h \in Handlers, FindTasks(h)
      PROVE  G
  <2>1. task' = task /\ log' = log
    BY <1>9 DEF FindTasks, tables, history
  <2> QED
    BY <1>0, <2>1
<1>10. ASSUME NEW h \in Handlers, FinishResolve(h)
      PROVE  G
  <2> DEFINE f == [t \in Tasks |-> IF t \in Canceled(h) THEN [task[t] EXCEPT !.status = "canceled"]
                                    ELSE task[t]]
  <2>1. task' = WithHints(f, Cardinality({RecipientOf[e] : e \in tx[h].entries}))
    BY <1>10, Zenon DEF FinishResolve
  <2>2. log' = [l \in Logs |-> IF \E t \in Canceled(h) : task[t].log = l THEN "skipped" ELSE log[l]]
    BY <1>10, Zenon DEF FinishResolve, LogsSkipped
  <2>3. task'[u] = f[u]
    <3>1. task'[u] = f[u] \/ task'[u] = NewTask(None, None)
      BY <2>1, Hints, Zenon
    <3> QED
      BY <3>1 DEF NewTask
  <2>4. CASE u \in Canceled(h)
    <3>1. task'[u].status = "canceled"
      BY <2>3, <2>4 DEF Tables, TaskRecords
    <3>2. log'[k] = "skipped"
      BY <2>2, <2>4
    <3> QED
      BY <3>1, <3>2 DEF Told
  <2>5. CASE u \notin Canceled(h)
    <3>1. task'[u] = task[u]
      BY <2>3, <2>5
    <3>2. log'[k] = log[k]
      BY <1>0, <2>2, <2>5 DEF Canceled
    <3> QED
      BY <1>0, <3>1, <3>2
  <2> QED
    BY <2>4, <2>5
<1>11. ASSUME NEW h \in Handlers, FinishRetry(h)
      PROVE  G
  <2>1. CASE task' = task /\ log' = log
    BY <1>0, <2>1
  <2>2. CASE /\ task' = [task EXCEPT ![tx[h].task].status = "waiting"]
             /\ log' = WithLog(log, task[tx[h].task].log, "pending")
    <3>1. tx[h].task \in Tasks
      BY <1>11, <1>0, TaskOf DEF FinishRetry
    <3>2. CASE u = tx[h].task
      <4>1. task'[u].status = "waiting" /\ log'[k] = "pending"
        BY <2>2, <3>2 DEF Tables, TaskRecords, WithLog
      <4> QED
        BY <4>1 DEF Told
    <3>3. CASE u # tx[h].task
      <4>1. task'[u] = task[u] /\ log'[k] = log[k]
        BY <1>0, <2>2, <3>1, <3>3 DEF Tables, WithLog
      <4> QED
        BY <1>0, <4>1
    <3> QED
      BY <3>2, <3>3
  <2> QED
    BY <1>11, <2>1, <2>2 DEF FinishRetry, tables
<1>12. ASSUME NEW w \in Workers, NEW t \in Tasks, Claim(w, t)
      PROVE  G
  <2>1. task' = task /\ log' = log
    BY <1>12 DEF Claim, tables, history
  <2> QED
    BY <1>0, <2>1
<1>13. ASSUME NEW w \in Workers, CheckActive(w)
      PROVE  G
  <2>1. CASE task' = task /\ log' = log
    BY <1>0, <2>1
  <2>2. CASE /\ task' = [task EXCEPT ![tx[w].task].status = "canceled"]
             /\ log' = WithLog(log, task[tx[w].task].log, "skipped")
    <3>1. tx[w].task \in Tasks
      BY <1>13, <1>0, TaskOf DEF CheckActive
    <3>2. CASE u = tx[w].task
      <4>1. task'[u].status = "canceled" /\ log'[k] = "skipped"
        BY <2>2, <3>2 DEF Tables, TaskRecords, WithLog
      <4> QED
        BY <4>1 DEF Told
    <3>3. CASE u # tx[w].task
      <4>1. task'[u] = task[u] /\ log'[k] = log[k]
        BY <1>0, <2>2, <3>1, <3>3 DEF Tables, WithLog
      <4> QED
        BY <1>0, <4>1
    <3> QED
      BY <3>2, <3>3
  <2> QED
    BY <1>13, <2>1, <2>2 DEF CheckActive, tables
<1>14. ASSUME NEW w \in Workers, Publish(w)
      PROVE  G
  <2>1. task' = task /\ log' = log
    BY <1>14 DEF Publish, tables, history
  <2> QED
    BY <1>0, <2>1
<1>15. ASSUME NEW w \in Workers, Record(w)
      PROVE  G
  <2> DEFINE t == tx[w].task
  <2>1. /\ t \in Tasks /\ w \in Sessions /\ tx[w].step \in {"reached", "failed"} /\ tx[w].kind = "deliver"
    BY <1>15, <1>0, TaskOf DEF Record
  <2>2. task[t].status = "waiting"
    BY <2>1 DEF Working
  <2>3. log' = WithLog(log, task[t].log, IF tx[w].acked THEN "success" ELSE "failed")
    BY <1>15 DEF Record
  <2>4. TaskStep(u, task'[u])
    BY TaskSteps
  <2>5. task' = [task EXCEPT ![t].attempts = tx[w].attempts + 1, ![t].status = Outcome(w)]
    BY <1>15, Zenon DEF Record, Outcome
  <2>6. CASE u = t
    <3>1. task'[u].status = Outcome(w)
      BY <2>1, <2>5, <2>6 DEF Tables, TaskRecords
    <3>2. log'[k] = IF tx[w].acked THEN "success" ELSE "failed"
      BY <2>3, <2>6 DEF WithLog, Tables
    <3> QED
      BY <2>2, <3>1, <3>2 DEF Told, Outcome
  <2>7. CASE u # t
    <3>1. task'[u] = task[u] /\ log'[k] = log[k]
      BY <1>0, <2>1, <2>3, <2>5, <2>7 DEF Tables, WithLog
    <3> QED
      BY <1>0, <3>1
  <2> QED
    BY <2>6, <2>7
<1>16. ASSUME NEW s \in Sessions, Crash(s)
      PROVE  G
  <2>1. task' = task /\ log' = log
    BY <1>16 DEF Crash, tables, history
  <2> QED
    BY <1>0, <2>1
<1> QED
  BY <1>1, <1>2, <1>3, <1>4, <1>5, <1>6, <1>7, <1>8, <1>9, <1>10, <1>11, <1>12, <1>13,
     <1>14, <1>15, <1>16, Zenon DEF Next, HandlerStep, WorkerStep

\* The logs tell what became of their tasks.
LEMMA LogInvKept ==
    ASSUME Tables, TxInv, Working, LogInv, Next
    PROVE  LogInv'
<1>1. ASSUME NEW t \in Tasks PROVE task'[t] \in TaskRecords /\ TaskStep(t, task'[t])
  BY TaskSteps
<1>2. LogOwners'
  <2>1. ASSUME NEW t \in Tasks, NEW u \in Tasks, t # u, task'[t].log # None,
               task'[u].log = task'[t].log
        PROVE  FALSE
    <3>1. task'[t].log = task[t].log \/ New(t, task'[t])
      BY <1>1, <2>1, LogOfTask
    <3>2. task'[u].log = task[u].log \/ New(u, task'[u])
      BY <1>1, <2>1, LogOfTask
    <3>3. CASE New(t, task'[t])
      <4>1. log[task'[t].log] = "none" /\ task'[u] = task[u]
        BY <2>1, <3>3, NewLog
      <4> QED
        BY <2>1, <4>1 DEF LogInv, LogsWritten
    <3>4. CASE New(u, task'[u])
      <4>1. log[task'[u].log] = "none" /\ task'[t] = task[t]
        BY <2>1, <3>4, NewLog
      <4> QED
        BY <2>1, <4>1 DEF LogInv, LogsWritten
    <3> QED
      BY <2>1, <3>1, <3>2, <3>3, <3>4 DEF LogInv, LogOwners
  <2> QED
    BY <2>1, Zenon DEF LogOwners
<1>3. ASSUME NEW t \in Tasks, task'[t].log # None
      PROVE  log'[task'[t].log] # "none" /\ Told(task'[t].status, log'[task'[t].log])
  <2>1. task'[t].log \in Logs
    BY <1>1, <1>3 DEF TaskRecords
  <2>2. CASE task'[t].log = task[t].log
    BY <1>3, <2>1, <2>2, LogFollows, LogSteps DEF LogInv, LogsWritten
  <2>3. CASE New(t, task'[t])
    BY <1>3, <2>3, NewLog DEF Told
  <2> QED
    BY <1>1, <1>3, <2>2, <2>3, LogOfTask
<1>4. LogsWritten' /\ LogsTellOutcome'
  BY <1>3 DEF LogsWritten, LogsTellOutcome, Told
<1> QED
  BY <1>2, <1>4 DEF LogInv

-----------------------------------------------------------------------------
(* Counters.                                                                 *)

\* Every step keeps the counters to their types.
LEMMA CountsKept ==
    ASSUME Counts, Next
    PROVE  Counts'
<1>1. ASSUME NEW e \in Entries, NEW l \in Logs \union {None}, Create(e, l)
      PROVE  Counts'
  BY <1>1 DEF Create, history, Counts
<1>2. ASSUME NEW e \in Entries, NEW l \in Logs, CreateAgain(e, l)
      PROVE  Counts'
  BY <1>2 DEF CreateAgain, history, Counts
<1>3. ASSUME NEW e \in Entries, Archive(e)
      PROVE  Counts'
  BY <1>3 DEF Archive, history, Counts
<1>4. ASSUME NEW e \in Entries, Expire(e)
      PROVE  Counts'
  BY <1>4 DEF Expire, history, Counts
<1>5. ASSUME Purge
      PROVE  Counts'
  BY <1>5 DEF Purge, history, Counts
<1>6. ASSUME NEW h \in Handlers, NEW S \in SUBSET Entries, StartResolve(h, S)
      PROVE  Counts'
  BY <1>6 DEF StartResolve, history, Counts
<1>7. ASSUME NEW h \in Handlers, NEW t \in Tasks, StartRetry(h, t)
      PROVE  Counts'
  <2>1. /\ retries' = [retries EXCEPT ![t] = @ + 1]
        /\ published' = published /\ lost' = lost /\ crashes' = crashes
    BY <1>7 DEF StartRetry
  <2> QED
    BY <2>1 DEF Counts, Counters
<1>8. ASSUME NEW h \in Handlers, Lock(h)
      PROVE  Counts'
  BY <1>8 DEF Lock, history, Counts
<1>9. ASSUME NEW h \in Handlers, FindTasks(h)
      PROVE  Counts'
  BY <1>9 DEF FindTasks, history, Counts
<1>10. ASSUME NEW h \in Handlers, FinishResolve(h)
      PROVE  Counts'
  BY <1>10 DEF FinishResolve, history, Counts
<1>11. ASSUME NEW h \in Handlers, FinishRetry(h)
      PROVE  Counts'
  BY <1>11 DEF FinishRetry, history, Counts
<1>12. ASSUME NEW w \in Workers, NEW t \in Tasks, Claim(w, t)
      PROVE  Counts'
  BY <1>12 DEF Claim, history, Counts
<1>13. ASSUME NEW w \in Workers, CheckActive(w)
      PROVE  Counts'
  BY <1>13 DEF CheckActive, history, Counts
<1>14. ASSUME NEW w \in Workers, Publish(w)
      PROVE  Counts'
  <2>1. PICK n \in {0, 1} : published' = [published EXCEPT ![tx[w].task] = @ + n]
    BY <1>14 DEF Publish
  <2>2. lost' = lost /\ retries' = retries /\ crashes' = crashes
    BY <1>14 DEF Publish
  <2>3. published' \in Counters
    <3>1. n \in Nat /\ published \in [Tasks -> Nat]
      BY <2>1 DEF Counts, Counters
    <3>2. \A t \in Tasks : published'[t] = published[t] \/ published'[t] = published[t] + n
      BY <2>1, <3>1
    <3>3. published' = [t \in Tasks |-> published'[t]]
      BY <2>1, <3>1
    <3> QED
      BY <3>1, <3>2, <3>3 DEF Counters
  <2> QED
    BY <2>2, <2>3 DEF Counts
<1>15. ASSUME NEW w \in Workers, Record(w)
      PROVE  Counts'
  BY <1>15 DEF Record, history, Counts
<1>16. ASSUME NEW s \in Sessions, Crash(s)
      PROVE  Counts'
  <2>1. /\ crashes' = crashes + 1 /\ published' = published /\ retries' = retries
        /\ lost' = lost \/ lost' = [lost EXCEPT ![tx[s].task] = @ + 1]
    BY <1>16 DEF Crash
  <2> QED
    BY <2>1 DEF Counts, Counters
<1> QED
  BY <1>1, <1>2, <1>3, <1>4, <1>5, <1>6, <1>7, <1>8, <1>9, <1>10, <1>11, <1>12, <1>13,
     <1>14, <1>15, <1>16, Zenon DEF Next, HandlerStep, WorkerStep

\* The retries of a task under way.
Retrying(t) == {s \in Sessions : tx[s].kind = "retry" /\ tx[s].task = t}

\* What the automatic attempts of a task leave room for.
AttemptInv == \A t \in Tasks :
    /\ Cardinality(Retrying(t)) <= retries[t]
    /\ task[t].attempts + Cardinality(Retrying(t)) <= MaxAttempts + retries[t]
    /\ task[t].status = "waiting" => task[t].attempts + Cardinality(Retrying(t)) < MaxAttempts + retries[t]

\* There are finitely many sessions, so their retries can be counted.
LEMMA RetryingFinite ==
    ASSUME NEW t
    PROVE  IsFiniteSet(Retrying(t)) /\ Cardinality(Retrying(t)) \in Nat
<1>1. IsFiniteSet(Sessions)
  BY NotificationConstants, FS_Union DEF Sessions
<1>2. Retrying(t) \in SUBSET Sessions
  BY DEF Retrying
<1> QED
  BY <1>1, <1>2, FS_Subset, FS_CardinalityType

\* How the retries under way change with one transaction.
LEMMA RetryingMoves ==
    ASSUME TxTypes, NEW s \in Sessions, NEW r, tx' = [tx EXCEPT ![s] = r], NEW v
    PROVE  /\ ~(r.kind = "retry" /\ r.task = v) \/ s \in Retrying(v)
                 => Cardinality(Retrying(v)') <= Cardinality(Retrying(v))
           /\ ~(r.kind = "retry" /\ r.task = v) /\ s \in Retrying(v)
                 => Cardinality(Retrying(v)') = Cardinality(Retrying(v)) - 1
           /\ (r.kind = "retry" /\ r.task = v) /\ s \notin Retrying(v)
                 => Cardinality(Retrying(v)') = Cardinality(Retrying(v)) + 1
<1>1. tx'[s] = r /\ (\A u \in Sessions : u # s => tx'[u] = tx[u])
  BY DEF TxTypes
<1>2. CASE r.kind = "retry" /\ r.task = v
  <2>1. Retrying(v)' = Retrying(v) \union {s}
    BY <1>1, <1>2 DEF Retrying
  <2> QED
    BY <1>2, <2>1, RetryingFinite, FS_AddElement
<1>3. CASE ~(r.kind = "retry" /\ r.task = v)
  <2>1. Retrying(v)' = Retrying(v) \ {s}
    BY <1>1, <1>3 DEF Retrying
  <2> QED
    BY <1>3, <2>1, RetryingFinite, FS_RemoveElement
<1> QED
  BY <1>2, <1>3

\* A retry under way was counted, and only its own step adds to them.
LEMMA RetryingSteps ==
    ASSUME Tables, TxInv, Counts, Next, NEW v \in Tasks
    PROVE  \/ retries'[v] = retries[v] /\ Cardinality(Retrying(v)') <= Cardinality(Retrying(v))
           \/ /\ task' = task /\ retries'[v] = retries[v] + 1
              /\ Cardinality(Retrying(v)') = Cardinality(Retrying(v)) + 1
<1> DEFINE G == \/ retries'[v] = retries[v] /\ Cardinality(Retrying(v)') <= Cardinality(Retrying(v))
                \/ /\ task' = task /\ retries'[v] = retries[v] + 1
                   /\ Cardinality(Retrying(v)') = Cardinality(Retrying(v)) + 1
<1>0. TxTypes /\ Workers \subseteq Sessions /\ Handlers \subseteq Sessions /\ Cardinality(Retrying(v)) \in Nat
  BY RetryingFinite DEF TxInv, Sessions
<1>1. ASSUME NEW e \in Entries, NEW l \in Logs \union {None}, Create(e, l)
      PROVE  G
  <2>1. tx' = tx /\ retries' = retries
    BY <1>1 DEF Create, history
  <2> QED
    BY <1>0, <2>1 DEF Retrying
<1>2. ASSUME NEW e \in Entries, NEW l \in Logs, CreateAgain(e, l)
      PROVE  G
  <2>1. tx' = tx /\ retries' = retries
    BY <1>2 DEF CreateAgain, history
  <2> QED
    BY <1>0, <2>1 DEF Retrying
<1>3. ASSUME NEW e \in Entries, Archive(e)
      PROVE  G
  <2>1. tx' = tx /\ retries' = retries
    BY <1>3 DEF Archive, history
  <2> QED
    BY <1>0, <2>1 DEF Retrying
<1>4. ASSUME NEW e \in Entries, Expire(e)
      PROVE  G
  <2>1. tx' = tx /\ retries' = retries
    BY <1>4 DEF Expire, history
  <2> QED
    BY <1>0, <2>1 DEF Retrying
<1>5. ASSUME Purge
      PROVE  G
  <2>1. tx' = tx /\ retries' = retries
    BY <1>5 DEF Purge, history
  <2> QED
    BY <1>0, <2>1 DEF Retrying
<1>6. ASSUME NEW h \in Handlers, NEW S \in SUBSET Entries, StartResolve(h, S)
      PROVE  G
  <2> DEFINE r == Transaction("resolve", "inbox", S, None, 0, FALSE, {InboxRow(e) : e \in S}, {})
  <2>1. tx' = [tx EXCEPT ![h] = r]
    BY <1>6, <1>0, StartResolveTx, Zenon
  <2>2. r.kind # "retry" /\ retries' = retries
    BY <1>6 DEF StartResolve, history, Transaction
  <2> QED
    BY <1>0, <2>1, <2>2, RetryingMoves
<1>7. ASSUME NEW h \in Handlers, NEW t \in Tasks, StartRetry(h, t)
      PROVE  G
  <2> DEFINE r == Transaction("retry", "locks", {}, t, 0, FALSE, RetryRows(t), {})
  <2>1. tx' = [tx EXCEPT ![h] = r]
    BY <1>7, <1>0, StartRetryTx, Zenon
  <2>2. r.kind = "retry" /\ r.task = t
    BY DEF Transaction
  <2>3. h \notin Retrying(v) /\ task' = task /\ retries' = [retries EXCEPT ![t] = @ + 1]
    BY <1>7 DEF StartRetry, Retrying, Idle, tables
  <2>4. CASE t = v
    <3>1. retries'[v] = retries[v] + 1
      BY <2>3, <2>4 DEF Counts, Counters
    <3> QED
      BY <1>0, <2>1, <2>2, <2>3, <2>4, <3>1, RetryingMoves
  <2>5. CASE t # v
    <3>1. retries'[v] = retries[v]
      BY <2>3, <2>5 DEF Counts, Counters
    <3>2. ~(r.kind = "retry" /\ r.task = v)
      BY <2>2, <2>5
    <3> QED
      BY <1>0, <2>1, <3>1, <3>2, RetryingMoves
  <2> QED
    BY <2>4, <2>5
<1>8. ASSUME NEW h \in Handlers, Lock(h)
      PROVE  G
  <2>0. retries' = retries /\ h \in Sessions
    BY <1>8, <1>0 DEF Lock, history
  <2>1. CASE tx' = [tx EXCEPT ![h] = Idle]
    <3>1. Idle.kind # "retry"
      BY DEF Idle
    <3> QED
      BY <1>0, <2>0, <2>1, <3>1, RetryingMoves
  <2>2. ASSUME NEW row \in tx[h].todo,
               tx' = [tx EXCEPT ![h] = Transaction(tx[h].kind, tx[h].step, tx[h].entries, tx[h].task,
                       tx[h].attempts, tx[h].acked, tx[h].todo \ {row}, tx[h].held \union {row})]
        PROVE  G
    <3> DEFINE r == Transaction(tx[h].kind, tx[h].step, tx[h].entries, tx[h].task,
                       tx[h].attempts, tx[h].acked, tx[h].todo \ {row}, tx[h].held \union {row})
    <3>1. r.kind = tx[h].kind /\ r.task = tx[h].task
      BY DEF Transaction
    <3>2. ~(r.kind = "retry" /\ r.task = v) \/ h \in Retrying(v)
      BY <2>0, <3>1 DEF Retrying
    <3> HIDE DEF r
    <3>3. tx' = [tx EXCEPT ![h] = r]
      BY <2>2 DEF r
    <3> QED
      BY <1>0, <2>0, <3>2, <3>3, RetryingMoves
  <2> QED
    BY <1>8, <1>0, <2>1, <2>2, LockTx, Zenon
<1>9. ASSUME NEW h \in Handlers, FindTasks(h)
      PROVE  G
  <2> DEFINE r == Transaction(tx[h].kind, "tasks", {e \in tx[h].entries : Unresolved(e)}, tx[h].task,
                   tx[h].attempts, tx[h].acked,
                   {TaskRow(t) : t \in PendingOf({e \in tx[h].entries : Unresolved(e)})}, tx[h].held)
  <2>1. tx' = [tx EXCEPT ![h] = r]
    BY <1>9, <1>0, FindTasksTx, Zenon
  <2>2. r.kind # "retry" /\ retries' = retries
    BY <1>9 DEF FindTasks, history, Transaction
  <2> QED
    BY <1>0, <2>1, <2>2, RetryingMoves
<1>10. ASSUME NEW h \in Handlers, FinishResolve(h)
      PROVE  G
  <2> DEFINE r == Idle
  <2>1. tx' = [tx EXCEPT ![h] = r]
    BY <1>10, <1>0 DEF FinishResolve, End
  <2>2. r.kind # "retry" /\ retries' = retries
    BY <1>10 DEF FinishResolve, history, Idle
  <2> QED
    BY <1>0, <2>1, <2>2, RetryingMoves
<1>11. ASSUME NEW h \in Handlers, FinishRetry(h)
      PROVE  G
  <2> DEFINE r == Idle
  <2>1. tx' = [tx EXCEPT ![h] = r]
    BY <1>11, <1>0 DEF FinishRetry, End
  <2>2. r.kind # "retry" /\ retries' = retries
    BY <1>11 DEF FinishRetry, history, Idle
  <2> QED
    BY <1>0, <2>1, <2>2, RetryingMoves
<1>12. ASSUME NEW w \in Workers, NEW t \in Tasks, Claim(w, t)
      PROVE  G
  <2> DEFINE r == Transaction("deliver", "check", {}, t, task[t].attempts, FALSE, {}, {TaskRow(t)})
  <2>1. tx' = [tx EXCEPT ![w] = r]
    BY <1>12, <1>0, ClaimTx, Zenon
  <2>2. r.kind # "retry" /\ retries' = retries
    BY <1>12 DEF Claim, history, Transaction
  <2> QED
    BY <1>0, <2>1, <2>2, RetryingMoves
<1>13. ASSUME NEW w \in Workers, CheckActive(w)
      PROVE  G
  <2>0. retries' = retries /\ w \in Sessions /\ tx[w].kind = "deliver"
    BY <1>13, <1>0 DEF CheckActive, history
  <2>1. CASE tx' = [tx EXCEPT ![w] = Idle]
    <3>1. Idle.kind # "retry"
      BY DEF Idle
    <3> QED
      BY <1>0, <2>0, <2>1, <3>1, RetryingMoves
  <2>2. CASE tx' = [tx EXCEPT ![w] = Transaction(tx[w].kind, "publish", tx[w].entries, tx[w].task,
                        tx[w].attempts, tx[w].acked, tx[w].todo, tx[w].held)]
    <3> DEFINE r == Transaction(tx[w].kind, "publish", tx[w].entries, tx[w].task, tx[w].attempts,
                              tx[w].acked, tx[w].todo, tx[w].held)
    <3>1. r.kind # "retry"
      BY <2>0 DEF Transaction
    <3> QED
      BY <1>0, <2>0, <2>2, <3>1, RetryingMoves
  <2> QED
    BY <1>13, <1>0, <2>1, <2>2, CheckTx, Zenon
<1>14. ASSUME NEW w \in Workers, Publish(w)
      PROVE  G
  <2>0. retries' = retries /\ w \in Sessions /\ tx[w].kind = "deliver"
    BY <1>14, <1>0 DEF Publish
  <2>1. PICK reached, acked \in BOOLEAN :
            tx' = [tx EXCEPT ![w] = Transaction(tx[w].kind, IF reached THEN "reached" ELSE "failed",
                          tx[w].entries, tx[w].task, tx[w].attempts, acked, tx[w].todo, tx[w].held)]
    BY <1>14, <1>0, PublishTx, Zenon
  <2> DEFINE r == Transaction(tx[w].kind, IF reached THEN "reached" ELSE "failed",
                          tx[w].entries, tx[w].task, tx[w].attempts, acked, tx[w].todo, tx[w].held)
  <2>2. r.kind # "retry"
    BY <2>0 DEF Transaction
  <2> HIDE DEF r
  <2>3. tx' = [tx EXCEPT ![w] = r]
    BY <2>1 DEF r
  <2> QED
    BY <1>0, <2>0, <2>2, <2>3, RetryingMoves
<1>15. ASSUME NEW w \in Workers, Record(w)
      PROVE  G
  <2> DEFINE r == Idle
  <2>1. tx' = [tx EXCEPT ![w] = r]
    BY <1>15, <1>0 DEF Record, End
  <2>2. r.kind # "retry" /\ retries' = retries
    BY <1>15 DEF Record, history, Idle
  <2> QED
    BY <1>0, <2>1, <2>2, RetryingMoves
<1>16. ASSUME NEW s \in Sessions, Crash(s)
      PROVE  G
  <2> DEFINE r == Idle
  <2>1. tx' = [tx EXCEPT ![s] = r]
    BY <1>16, <1>0 DEF Crash, End
  <2>2. r.kind # "retry" /\ retries' = retries
    BY <1>16 DEF Crash, history, Idle
  <2> QED
    BY <1>0, <2>1, <2>2, RetryingMoves
<1> QED
  BY <1>1, <1>2, <1>3, <1>4, <1>5, <1>6, <1>7, <1>8, <1>9, <1>10, <1>11, <1>12, <1>13,
     <1>14, <1>15, <1>16, Zenon DEF Next, HandlerStep, WorkerStep

\* Attempts are bounded: the last of them pauses a task, and a retry lets it be
\* tried once more.
LEMMA AttemptInvKept ==
    ASSUME Tables, TxInv, Counts, Working, AttemptInv, Next
    PROVE  AttemptInv'
<1>1. ASSUME NEW t \in Tasks
      PROVE  /\ Cardinality(Retrying(t)') <= retries'[t]
             /\ task'[t].attempts + Cardinality(Retrying(t)') <= MaxAttempts + retries'[t]
             /\ task'[t].status = "waiting"
                  => task'[t].attempts + Cardinality(Retrying(t)') < MaxAttempts + retries'[t]
  <2> DEFINE c == Cardinality(Retrying(t))
             d == Cardinality(Retrying(t)')
             G == /\ d <= retries'[t] /\ task'[t].attempts + d <= MaxAttempts + retries'[t]
                  /\ task'[t].status = "waiting" => task'[t].attempts + d < MaxAttempts + retries'[t]
  <2>0. /\ TaskStep(t, task'[t]) /\ TxTypes /\ MaxAttempts \in Nat \ {0}
        /\ Handlers \subseteq Sessions /\ Workers \subseteq Sessions
    BY TaskSteps, NotificationConstants DEF TxInv, Sessions
  <2>1. /\ c \in Nat /\ retries[t] \in Nat /\ task[t].attempts \in Nat
        /\ c <= retries[t] /\ task[t].attempts + c <= MaxAttempts + retries[t]
        /\ task[t].status = "waiting" => task[t].attempts + c < MaxAttempts + retries[t]
    BY RetryingFinite DEF AttemptInv, Counts, Counters, Tables, TaskRecords
  <2>2. d \in Nat
    <3>1. IsFiniteSet(Sessions) /\ Retrying(t)' \in SUBSET Sessions
      BY NotificationConstants, FS_Union DEF Sessions, Retrying
    <3> QED
      BY <3>1, FS_Subset, FS_CardinalityType
  <2>3. \/ retries'[t] = retries[t] /\ d <= c
        \/ task' = task /\ retries'[t] = retries[t] + 1 /\ d = c + 1
    BY RetryingSteps
  <2> HIDE DEF c, d
  <2>4. ASSUME task'[t] = task[t]
        PROVE  G
    BY <2>0, <2>1, <2>2, <2>3, <2>4
  <2>5. ASSUME retries'[t] = retries[t], d <= c, task'[t].attempts \in {0, task[t].attempts},
               task'[t].attempts = 0 \/ task'[t].status # "waiting"
        PROVE  G
    BY <2>0, <2>1, <2>2, <2>5
  <2>6. ASSUME New(t, task'[t]) \/ Hinted(t, task'[t]) \/ Gone(t, task'[t])
        PROVE  G
    <3>1. task'[t].attempts = 0 /\ (task'[t].status # task[t].status)
      <4>1. CASE New(t, task'[t]) \/ Hinted(t, task'[t])
        <5>1. PICK e, l : task'[t] = NewTask(e, l) /\ task[t].status = "none"
          BY <4>1, Zenon DEF New, Hinted
        <5> QED
          BY <5>1 DEF NewTask
      <4>2. CASE Gone(t, task'[t])
        <5>1. task[t].status # "purged" /\ task'[t] = Purged
          BY <4>2 DEF Gone
        <5> QED
          BY <5>1 DEF Purged, NoTask
      <4> QED
        BY <2>6, <4>1, <4>2
    <3>2. retries'[t] = retries[t] /\ d <= c
      BY <2>3, <3>1
    <3> QED
      BY <2>5, <3>1, <3>2
  <2>7. ASSUME Cut(t, task'[t]) \/ Dropped(t, task'[t])
        PROVE  G
    <3>1. task'[t].attempts = task[t].attempts /\ task'[t].status = "canceled"
      BY <2>7 DEF Cut, Dropped, Kept
    <3> QED
      BY <2>3, <2>4, <2>5, <3>1
  <2>8. ASSUME Again(t, task'[t])
        PROVE  G
    <3>1. PICK h \in Handlers : FinishRetry(h) /\ tx[h].task = t
      BY <2>8 DEF Again
    <3>2. h \in Sessions /\ h \in Retrying(t) /\ tx' = [tx EXCEPT ![h] = Idle] /\ Idle.kind # "retry"
      BY <2>0, <3>1 DEF FinishRetry, End, Retrying, Idle
    <3>3. d = c - 1
      BY <2>0, <3>2, RetryingMoves DEF c, d
    <3>4. retries'[t] = retries[t]
      BY <3>1 DEF FinishRetry, history
    <3>5. task'[t].attempts = task[t].attempts
      BY <2>8 DEF Again, Kept
    <3> QED
      BY <2>0, <2>1, <2>2, <3>3, <3>4, <3>5
  <2>9. ASSUME Tried(t, task'[t])
        PROVE  G
    <3>1. PICK w \in Workers : /\ Record(w) /\ tx[w].task = t /\ task'[t].attempts = tx[w].attempts + 1
                               /\ task'[t].status = Outcome(w)
      BY <2>9 DEF Tried
    <3>2. tx[w].kind = "deliver" /\ tx[w].step # "check" /\ w \in Sessions
      BY <2>0, <3>1 DEF Record
    <3>3. task[t].status = "waiting" /\ tx[w].attempts = task[t].attempts
      BY <3>1, <3>2 DEF Working
    <3>4. retries'[t] = retries[t] /\ d <= c
      BY <2>1, <2>3, <3>1, <3>3 DEF Record, history
    <3>5. task'[t].status = "waiting" => task[t].attempts + 1 < MaxAttempts
      BY <2>0, <2>1, <3>1, <3>3 DEF Outcome, Exhausted
    <3> QED
      BY <2>0, <2>1, <2>2, <3>1, <3>3, <3>4, <3>5
  <2> QED
    BY <2>0, <2>4, <2>6, <2>7, <2>8, <2>9 DEF TaskStep, c, d
<1> QED
  BY <1>1 DEF AttemptInv, Retrying

-----------------------------------------------------------------------------
(* Announcements.                                                            *)

\* The tasks are announced one by one, by the worker that claimed them.
LEMMA PublishedSteps ==
    ASSUME TxInv, Counts, Next, NEW v \in Tasks
    PROVE  \/ published'[v] = published[v]
           \/ \E w \in Workers : Publish(w) /\ tx[w].task = v
<1> DEFINE G == \/ published'[v] = published[v]
                \/ \E w \in Workers : Publish(w) /\ tx[w].task = v
<1>1. ASSUME NEW e \in Entries, NEW l \in Logs \union {None}, Create(e, l)
      PROVE  G
  BY <1>1 DEF Create, history
<1>2. ASSUME NEW e \in Entries, NEW l \in Logs, CreateAgain(e, l)
      PROVE  G
  BY <1>2 DEF CreateAgain, history
<1>3. ASSUME NEW e \in Entries, Archive(e)
      PROVE  G
  BY <1>3 DEF Archive, history
<1>4. ASSUME NEW e \in Entries, Expire(e)
      PROVE  G
  BY <1>4 DEF Expire, history
<1>5. ASSUME Purge
      PROVE  G
  BY <1>5 DEF Purge, history
<1>6. ASSUME NEW h \in Handlers, NEW S \in SUBSET Entries, StartResolve(h, S)
      PROVE  G
  BY <1>6 DEF StartResolve, history
<1>7. ASSUME NEW h \in Handlers, NEW t \in Tasks, StartRetry(h, t)
      PROVE  G
  BY <1>7 DEF StartRetry, history
<1>8. ASSUME NEW h \in Handlers, Lock(h)
      PROVE  G
  BY <1>8 DEF Lock, history
<1>9. ASSUME NEW h \in Handlers, FindTasks(h)
      PROVE  G
  BY <1>9 DEF FindTasks, history
<1>10. ASSUME NEW h \in Handlers, FinishResolve(h)
      PROVE  G
  BY <1>10 DEF FinishResolve, history
<1>11. ASSUME NEW h \in Handlers, FinishRetry(h)
      PROVE  G
  BY <1>11 DEF FinishRetry, history
<1>12. ASSUME NEW w \in Workers, NEW t \in Tasks, Claim(w, t)
      PROVE  G
  BY <1>12 DEF Claim, history
<1>13. ASSUME NEW w \in Workers, CheckActive(w)
      PROVE  G
  BY <1>13 DEF CheckActive, history
<1>14. ASSUME NEW w \in Workers, Publish(w)
      PROVE  G
  <2>1. CASE tx[w].task = v
    BY <1>14, <2>1
  <2>2. CASE tx[w].task # v
    BY <1>14, <2>2 DEF Publish, Counts, Counters
  <2> QED
    BY <2>1, <2>2
<1>15. ASSUME NEW w \in Workers, Record(w)
      PROVE  G
  BY <1>15 DEF Record, history
<1>16. ASSUME NEW s \in Sessions, Crash(s)
      PROVE  G
  BY <1>16 DEF Crash, history
<1> QED
  BY <1>1, <1>2, <1>3, <1>4, <1>5, <1>6, <1>7, <1>8, <1>9, <1>10, <1>11, <1>12, <1>13,
     <1>14, <1>15, <1>16, Zenon DEF Next, HandlerStep, WorkerStep

\* Announcements are never taken back.
LEMMA PublishedGrows ==
    ASSUME TxInv, Counts, Next, NEW v \in Tasks
    PROVE  published[v] \in Nat /\ published'[v] \in Nat /\ published'[v] >= published[v]
<1>1. Counts'
  BY CountsKept
<1>2. \A w \in Workers : Publish(w) => \E n \in {0, 1} : published' = [published EXCEPT ![tx[w].task] = @ + n]
  BY DEF Publish
<1>3. published \in [Tasks -> Nat] /\ published' \in [Tasks -> Nat]
  BY <1>1 DEF Counts, Counters
<1> QED
  BY <1>2, <1>3, PublishedSteps

\* A claimed task that was announced counts its announcement, and only one that
\* was announced is acknowledged.
AckInv == \A s \in Sessions : tx[s].kind = "deliver" =>
    /\ tx[s].step = "failed" => ~tx[s].acked
    /\ tx[s].step = "reached" => published[tx[s].task] >= 1

\* What PublicationsAccounted says of one task, and that an unused one was not tried.
PublishInv == \A t \in Tasks :
    /\ task[t].status = "none" => task[t].attempts = 0
    /\ task[t].status = "delivered" => published[t] >= 1
    /\ task[t].status # "purged" => published[t] <= task[t].attempts + Cardinality(InFlight(t)) + lost[t]

\* An announcement is acknowledged only if it reached Redis.
LEMMA AckInvKept ==
    ASSUME Tables, TxInv, Counts, AckInv, Next
    PROVE  AckInv'
<1>1. ASSUME NEW s \in Sessions, tx'[s].kind = "deliver"
      PROVE  /\ tx'[s].step = "failed" => ~tx'[s].acked
             /\ tx'[s].step = "reached" => published'[tx'[s].task] >= 1
  <2>0. TxStep(s, tx'[s]) /\ tx'[s] # Idle
    BY <1>1, TxSteps DEF Idle
  <2>1. CASE tx'[s] = tx[s]
    <3> DEFINE t == tx[s].task
    <3>1. t \in Tasks
      BY <1>1, <2>1, TaskOf
    <3>2. published'[t] >= published[t] /\ published[t] \in Nat /\ published'[t] \in Nat
      BY <3>1, PublishedGrows
    <3>3. tx[s].step = "failed" => ~tx[s].acked
      BY <1>1, <2>1, Zenon DEF AckInv
    <3>4. tx[s].step = "reached" => published'[t] >= 1
      BY <1>1, <2>1, <3>2 DEF AckInv
    <3> QED
      BY <2>1, <3>3, <3>4, Zenon
  <2>2. CASE Announced(s, tx'[s])
    <3> DEFINE t == tx[s].task
    <3>1. tx[s].kind = "deliver" /\ tx'[s].task = t /\ t \in Tasks
      BY <2>2, TaskOf DEF Announced, Publish, SameTask
    <3>2. tx'[s].step = "failed" => ~tx'[s].acked
      BY <2>2, "failed" # "reached", Zenon DEF Announced
    <3>3. tx'[s].step = "reached" => published'[t] >= 1
      BY <2>2, <3>1 DEF Announced, Counts, Counters
    <3> QED
      BY <3>1, <3>2, <3>3, Zenon
  <2>3. CASE Claimed(s, tx'[s]) \/ Checked(s, tx'[s])
    BY <2>3 DEF Claimed, Checked
  <2>4. CASE Began(s, tx'[s]) \/ Advanced(s, tx'[s]) \/ Found(s, tx'[s])
    BY <1>1, <2>4 DEF Began, Advanced, SameTask, Found
  <2> QED
    BY <2>0, <2>1, <2>2, <2>3, <2>4, Zenon DEF TxStep
<1> QED
  BY <1>1, Zenon DEF AckInv

\* There are finitely many workers, so their announcements can be counted.
LEMMA InFlightFinite ==
    ASSUME NEW t
    PROVE  IsFiniteSet(InFlight(t)) /\ Cardinality(InFlight(t)) \in Nat
<1>1. InFlight(t) \in SUBSET Workers
  BY DEF InFlight
<1> QED
  BY <1>1, NotificationConstants, FS_Subset, FS_CardinalityType

\* How the announcements in flight change with one transaction.
LEMMA InFlightMoves ==
    ASSUME TxTypes, NEW s \in Sessions, NEW r, tx' = [tx EXCEPT ![s] = r], NEW v
    PROVE  /\ r.step # "reached" /\ s \notin InFlight(v)
                 => Cardinality(InFlight(v)') = Cardinality(InFlight(v))
           /\ r.step # "reached" /\ s \in InFlight(v)
                 => Cardinality(InFlight(v)') = Cardinality(InFlight(v)) - 1
           /\ s \in Workers /\ r.step = "reached" /\ r.task # v /\ s \notin InFlight(v)
                 => Cardinality(InFlight(v)') = Cardinality(InFlight(v))
           /\ s \in Workers /\ r.step = "reached" /\ r.task = v /\ s \notin InFlight(v)
                 => Cardinality(InFlight(v)') = Cardinality(InFlight(v)) + 1
<1>1. tx'[s] = r /\ (\A u \in Sessions : u # s => tx'[u] = tx[u]) /\ Workers \subseteq Sessions
  BY DEF TxTypes, Sessions
<1>2. CASE r.step = "reached" /\ r.task = v /\ s \in Workers
  <2>1. InFlight(v)' = InFlight(v) \union {s}
    BY <1>1, <1>2 DEF InFlight
  <2> QED
    BY <1>2, <2>1, InFlightFinite, FS_AddElement
<1>3. CASE ~(r.step = "reached" /\ r.task = v)
  <2>1. InFlight(v)' = InFlight(v) \ {s}
    BY <1>1, <1>3 DEF InFlight
  <2> QED
    BY <1>3, <2>1, InFlightFinite, FS_RemoveElement
<1> QED
  BY <1>2, <1>3

\* Whatever is announced is in flight, and what ceases to be in flight is recorded
\* or lost.
LEMMA FlowSteps ==
    ASSUME Tables, TxInv, Counts, Working, Next, NEW v \in Tasks
    PROVE  \/ published'[v] + Cardinality(InFlight(v)) + lost[v]
                 <= published[v] + Cardinality(InFlight(v)') + lost'[v]
           \/ /\ published'[v] = published[v] /\ lost'[v] = lost[v]
              /\ Cardinality(InFlight(v)') >= Cardinality(InFlight(v)) - 1
              /\ task'[v].attempts = task[v].attempts + 1
<1> DEFINE c == Cardinality(InFlight(v))
           d == Cardinality(InFlight(v)')
           G == \/ published'[v] + c + lost[v] <= published[v] + d + lost'[v]
                \/ /\ published'[v] = published[v] /\ lost'[v] = lost[v] /\ d >= c - 1
                   /\ task'[v].attempts = task[v].attempts + 1
<1>0. /\ TxTypes /\ Workers \subseteq Sessions /\ Handlers \subseteq Sessions
      /\ c \in Nat /\ published[v] \in Nat /\ lost[v] \in Nat
      /\ \A s \in Sessions : tx[s].step = "reached" => tx[s].kind = "deliver"
  BY InFlightFinite DEF TxInv, Sessions, Counts, Counters, Claims, ClaimOf
<1>1. ASSUME NEW e \in Entries, NEW l \in Logs \union {None}, Create(e, l)
      PROVE  G
  <2>1. tx' = tx /\ published' = published /\ lost' = lost
    BY <1>1 DEF Create, history
  <2>2. d = c
    BY <2>1 DEF InFlight
  <2> QED
    BY <1>0, <2>1, <2>2
<1>2. ASSUME NEW e \in Entries, NEW l \in Logs, CreateAgain(e, l)
      PROVE  G
  <2>1. tx' = tx /\ published' = published /\ lost' = lost
    BY <1>2 DEF CreateAgain, history
  <2>2. d = c
    BY <2>1 DEF InFlight
  <2> QED
    BY <1>0, <2>1, <2>2
<1>3. ASSUME NEW e \in Entries, Archive(e)
      PROVE  G
  <2>1. tx' = tx /\ published' = published /\ lost' = lost
    BY <1>3 DEF Archive, history
  <2>2. d = c
    BY <2>1 DEF InFlight
  <2> QED
    BY <1>0, <2>1, <2>2
<1>4. ASSUME NEW e \in Entries, Expire(e)
      PROVE  G
  <2>1. tx' = tx /\ published' = published /\ lost' = lost
    BY <1>4 DEF Expire, history
  <2>2. d = c
    BY <2>1 DEF InFlight
  <2> QED
    BY <1>0, <2>1, <2>2
<1>5. ASSUME Purge
      PROVE  G
  <2>1. tx' = tx /\ published' = published /\ lost' = lost
    BY <1>5 DEF Purge, history
  <2>2. d = c
    BY <2>1 DEF InFlight
  <2> QED
    BY <1>0, <2>1, <2>2
<1>6. ASSUME NEW h \in Handlers, NEW S \in SUBSET Entries, StartResolve(h, S)
      PROVE  G
  <2> DEFINE r == Transaction("resolve", "inbox", S, None, 0, FALSE, {InboxRow(e) : e \in S}, {})
  <2>1. tx' = [tx EXCEPT ![h] = r]
    BY <1>6, <1>0, StartResolveTx, Zenon
  <2>2. r.step # "reached" /\ h \notin InFlight(v) /\ published' = published /\ lost' = lost
    BY <1>6, <1>0 DEF StartResolve, history, InFlight, Idle, Transaction
  <2> HIDE DEF r
  <2>3. d = c
    BY <1>0, <2>1, <2>2, InFlightMoves
  <2> QED
    BY <1>0, <2>2, <2>3
<1>7. ASSUME NEW h \in Handlers, NEW t \in Tasks, StartRetry(h, t)
      PROVE  G
  <2> DEFINE r == Transaction("retry", "locks", {}, t, 0, FALSE, RetryRows(t), {})
  <2>1. tx' = [tx EXCEPT ![h] = r]
    BY <1>7, <1>0, StartRetryTx, Zenon
  <2>2. r.step # "reached" /\ h \notin InFlight(v) /\ published' = published /\ lost' = lost
    BY <1>7, <1>0 DEF StartRetry, history, InFlight, Idle, Transaction
  <2> HIDE DEF r
  <2>3. d = c
    BY <1>0, <2>1, <2>2, InFlightMoves
  <2> QED
    BY <1>0, <2>2, <2>3
<1>8. ASSUME NEW h \in Handlers, Lock(h)
      PROVE  G
  <2>0. /\ published' = published /\ lost' = lost /\ h \in Sessions
        /\ \E row \in tx[h].todo : TRUE
    BY <1>8, <1>0 DEF Lock, history, FirstRow
  <2>1. tx[h].step # "reached" /\ h \notin InFlight(v)
    <3>1. tx[h].kind # "deliver"
      BY <2>0 DEF TxInv, Claims, ClaimOf
    <3> QED
      BY <1>0, <2>0, <3>1 DEF InFlight
  <2>2. CASE tx' = [tx EXCEPT ![h] = Idle]
    <3>0. Idle.step # "reached"
      BY DEF Idle
    <3>1. d = c
      BY <1>0, <2>0, <3>0, <2>1, <2>2, InFlightMoves
    <3> QED
      BY <1>0, <2>0, <3>1
  <2>3. ASSUME NEW row \in tx[h].todo,
               tx' = [tx EXCEPT ![h] = Transaction(tx[h].kind, tx[h].step, tx[h].entries, tx[h].task,
                       tx[h].attempts, tx[h].acked, tx[h].todo \ {row}, tx[h].held \union {row})]
        PROVE  G
    <3> DEFINE r == Transaction(tx[h].kind, tx[h].step, tx[h].entries, tx[h].task,
                       tx[h].attempts, tx[h].acked, tx[h].todo \ {row}, tx[h].held \union {row})
    <3>1. r.step # "reached"
      BY <2>1 DEF Transaction
    <3>2. tx' = [tx EXCEPT ![h] = r]
      BY <2>3
    <3> HIDE DEF r
    <3>3. d = c
      BY <1>0, <2>0, <2>1, <3>1, <3>2, InFlightMoves
    <3> QED
      BY <1>0, <2>0, <3>3
  <2> QED
    BY <1>8, <1>0, <2>2, <2>3, LockTx, Zenon
<1>9. ASSUME NEW h \in Handlers, FindTasks(h)
      PROVE  G
  <2> DEFINE r == Transaction(tx[h].kind, "tasks", {e \in tx[h].entries : Unresolved(e)}, tx[h].task,
                   tx[h].attempts, tx[h].acked,
                   {TaskRow(t) : t \in PendingOf({e \in tx[h].entries : Unresolved(e)})}, tx[h].held)
  <2>1. tx' = [tx EXCEPT ![h] = r]
    BY <1>9, <1>0, FindTasksTx, Zenon
  <2>2. r.step # "reached" /\ h \notin InFlight(v) /\ published' = published /\ lost' = lost
    BY <1>9, <1>0 DEF FindTasks, history, InFlight, Idle, Transaction
  <2> HIDE DEF r
  <2>3. d = c
    BY <1>0, <2>1, <2>2, InFlightMoves
  <2> QED
    BY <1>0, <2>2, <2>3
<1>10. ASSUME NEW h \in Handlers, FinishResolve(h)
      PROVE  G
  <2>1. tx' = [tx EXCEPT ![h] = Idle]
    BY <1>10, <1>0 DEF FinishResolve, End
  <2>2. Idle.step # "reached" /\ h \notin InFlight(v) /\ published' = published /\ lost' = lost
    BY <1>10, <1>0 DEF FinishResolve, history, InFlight, Idle
  <2>3. d = c
    BY <1>0, <2>1, <2>2, InFlightMoves
  <2> QED
    BY <1>0, <2>2, <2>3
<1>11. ASSUME NEW h \in Handlers, FinishRetry(h)
      PROVE  G
  <2>1. tx' = [tx EXCEPT ![h] = Idle]
    BY <1>11, <1>0 DEF FinishRetry, End
  <2>2. Idle.step # "reached" /\ h \notin InFlight(v) /\ published' = published /\ lost' = lost
    BY <1>11, <1>0 DEF FinishRetry, history, InFlight, Idle
  <2>3. d = c
    BY <1>0, <2>1, <2>2, InFlightMoves
  <2> QED
    BY <1>0, <2>2, <2>3
<1>12. ASSUME NEW w \in Workers, NEW t \in Tasks, Claim(w, t)
      PROVE  G
  <2> DEFINE r == Transaction("deliver", "check", {}, t, task[t].attempts, FALSE, {}, {TaskRow(t)})
  <2>1. tx' = [tx EXCEPT ![w] = r]
    BY <1>12, <1>0, ClaimTx, Zenon
  <2>2. r.step # "reached" /\ w \notin InFlight(v) /\ published' = published /\ lost' = lost
    BY <1>12, <1>0 DEF Claim, history, InFlight, Idle, Transaction
  <2> HIDE DEF r
  <2>3. d = c
    BY <1>0, <2>1, <2>2, InFlightMoves
  <2> QED
    BY <1>0, <2>2, <2>3
<1>13. ASSUME NEW w \in Workers, CheckActive(w)
      PROVE  G
  <2>0. /\ published' = published /\ lost' = lost /\ w \in Sessions
        /\ w \notin InFlight(v)
    BY <1>13, <1>0 DEF CheckActive, history, InFlight
  <2>1. CASE tx' = [tx EXCEPT ![w] = Idle]
    <3>0. Idle.step # "reached"
      BY DEF Idle
    <3>1. d = c
      BY <1>0, <2>0, <3>0, <2>1, InFlightMoves
    <3> QED
      BY <1>0, <2>0, <3>1
  <2>2. CASE tx' = [tx EXCEPT ![w] = Transaction(tx[w].kind, "publish", tx[w].entries, tx[w].task,
                        tx[w].attempts, tx[w].acked, tx[w].todo, tx[w].held)]
    <3> DEFINE r == Transaction(tx[w].kind, "publish", tx[w].entries, tx[w].task, tx[w].attempts,
                              tx[w].acked, tx[w].todo, tx[w].held)
    <3>1. r.step # "reached"
      BY DEF Transaction
    <3>2. tx' = [tx EXCEPT ![w] = r]
      BY <2>2
    <3> HIDE DEF r
    <3>3. d = c
      BY <1>0, <2>0, <3>1, <3>2, InFlightMoves
    <3> QED
      BY <1>0, <2>0, <3>3
  <2> QED
    BY <1>13, <1>0, <2>1, <2>2, CheckTx, Zenon
<1>14. ASSUME NEW w \in Workers, Publish(w)
      PROVE  G
  <2>0. /\ lost' = lost /\ w \in Sessions /\ w \notin InFlight(v)
    BY <1>14, <1>0 DEF Publish, InFlight
  <2>1. PICK reached, acked \in BOOLEAN :
            /\ published' = [published EXCEPT ![tx[w].task] = @ + IF reached THEN 1 ELSE 0]
            /\ tx' = [tx EXCEPT ![w] = Transaction(tx[w].kind, IF reached THEN "reached" ELSE "failed",
                          tx[w].entries, tx[w].task, tx[w].attempts, acked, tx[w].todo, tx[w].held)]
    BY <1>14, <1>0, PublishTx, Zenon
  <2> DEFINE r == Transaction(tx[w].kind, IF reached THEN "reached" ELSE "failed",
                          tx[w].entries, tx[w].task, tx[w].attempts, acked, tx[w].todo, tx[w].held)
  <2>2. r.task = tx[w].task /\ r.step = IF reached THEN "reached" ELSE "failed"
    BY DEF Transaction
  <2>3. tx' = [tx EXCEPT ![w] = r]
    BY <2>1
  <2> HIDE DEF r
  <2>4. CASE reached /\ tx[w].task = v
    <3>1. d = c + 1
      BY <1>0, <2>0, <2>2, <2>3, <2>4, InFlightMoves
    <3>2. published'[v] = published[v] + 1
      BY <2>1, <2>4 DEF Counts, Counters
    <3> QED
      BY <1>0, <2>0, <3>1, <3>2
  <2>5. CASE ~(reached /\ tx[w].task = v)
    <3>1. d = c
      BY <1>0, <2>0, <2>2, <2>3, <2>5, InFlightMoves
    <3>2. published'[v] = published[v]
      BY <1>0, <2>1, <2>5 DEF Counts, Counters
    <3> QED
      BY <1>0, <2>0, <3>1, <3>2
  <2> QED
    BY <2>4, <2>5
<1>15. ASSUME NEW w \in Workers, Record(w)
      PROVE  G
  <2>0. /\ published' = published /\ lost' = lost /\ w \in Sessions
        /\ tx[w].kind = "deliver" /\ tx' = [tx EXCEPT ![w] = Idle] /\ Idle.step # "reached"
    BY <1>15, <1>0 DEF Record, history, End, Idle
  <2>1. CASE w \notin InFlight(v)
    <3>1. d = c
      BY <1>0, <2>0, <2>1, InFlightMoves
    <3> QED
      BY <1>0, <2>0, <3>1
  <2>2. CASE w \in InFlight(v)
    <3>1. d = c - 1
      BY <1>0, <2>0, <2>2, InFlightMoves
    <3>2. tx[w].task = v /\ tx[w].attempts = task[v].attempts
      BY <2>0, <2>2 DEF InFlight, Working
    <3>3. task' = [task EXCEPT ![v].attempts = tx[w].attempts + 1, ![v].status = Outcome(w)]
      BY <1>15, <3>2, Zenon DEF Record, Outcome
    <3>4. task'[v].attempts = task[v].attempts + 1
      BY <3>2, <3>3 DEF Tables, TaskRecords
    <3> QED
      BY <1>0, <2>0, <3>1, <3>4
  <2> QED
    BY <2>1, <2>2
<1>16. ASSUME NEW s \in Sessions, Crash(s)
      PROVE  G
  <2>0. /\ published' = published /\ tx' = [tx EXCEPT ![s] = Idle] /\ Idle.step # "reached"
        /\ lost' = IF tx[s].step = "reached" THEN [lost EXCEPT ![tx[s].task] = @ + 1] ELSE lost
    BY <1>16 DEF Crash, End, Idle
  <2>1. CASE s \notin InFlight(v)
    <3>1. d = c
      BY <1>0, <2>0, <2>1, InFlightMoves
    <3>2. lost'[v] = lost[v] \/ lost'[v] = lost[v] + 1
      BY <2>0 DEF Counts, Counters
    <3> QED
      BY <1>0, <2>0, <3>1, <3>2
  <2>2. CASE s \in InFlight(v)
    <3>1. d = c - 1
      BY <1>0, <2>0, <2>2, InFlightMoves
    <3>2. lost'[v] = lost[v] + 1
      BY <2>0, <2>2 DEF InFlight, Counts, Counters
    <3> QED
      BY <1>0, <2>0, <3>1, <3>2
  <2> QED
    BY <2>1, <2>2
<1> QED
  BY <1>1, <1>2, <1>3, <1>4, <1>5, <1>6, <1>7, <1>8, <1>9, <1>10, <1>11, <1>12, <1>13,
     <1>14, <1>15, <1>16, Zenon
     DEF Next, HandlerStep, WorkerStep


\* Announcements stay accounted for.
LEMMA PublishInvKept ==
    ASSUME Tables, TxInv, Counts, Working, AckInv, PublishInv, Next
    PROVE  PublishInv'
<1>1. ASSUME NEW t \in Tasks
      PROVE  /\ task'[t].status = "none" => task'[t].attempts = 0
             /\ task'[t].status = "delivered" => published'[t] >= 1
             /\ task'[t].status # "purged"
                  => published'[t] <= task'[t].attempts + Cardinality(InFlight(t)') + lost'[t]
  <2> DEFINE c == Cardinality(InFlight(t))
             d == Cardinality(InFlight(t)')
             G == /\ task'[t].status = "none" => task'[t].attempts = 0
                  /\ task'[t].status = "delivered" => published'[t] >= 1
                  /\ task'[t].status # "purged" => published'[t] <= task'[t].attempts + d + lost'[t]
  <2>0. TaskStep(t, task'[t]) /\ task'[t] \in TaskRecords /\ Workers \subseteq Sessions
    BY TaskSteps DEF Sessions
  <2>1. /\ c \in Nat /\ published[t] \in Nat /\ published'[t] \in Nat /\ published'[t] >= published[t]
        /\ task[t].attempts \in Nat /\ task'[t].attempts \in Nat /\ lost[t] \in Nat
    BY <2>0, InFlightFinite, PublishedGrows DEF Counts, Counters, Tables, TaskRecords
  <2>2. d \in Nat /\ lost'[t] \in Nat
    <3>1. InFlight(t)' \in SUBSET Workers
      BY DEF InFlight
    <3>2. Counts'
      BY CountsKept
    <3> QED
      BY <3>1, <3>2, NotificationConstants, FS_Subset, FS_CardinalityType DEF Counts, Counters
  <2>3. /\ task[t].status = "none" => task[t].attempts = 0
        /\ task[t].status = "delivered" => published[t] >= 1
        /\ task[t].status # "purged" => published[t] <= task[t].attempts + c + lost[t]
    BY DEF PublishInv
  <2>4. \/ published'[t] + c + lost[t] <= published[t] + d + lost'[t]
        \/ /\ published'[t] = published[t] /\ lost'[t] = lost[t] /\ d >= c - 1
           /\ task'[t].attempts = task[t].attempts + 1
    BY FlowSteps
  <2> HIDE DEF c, d
  <2>5. ASSUME task[t].status # "purged", task'[t].attempts >= task[t].attempts
        PROVE  published'[t] <= task'[t].attempts + d + lost'[t]
    BY <2>1, <2>2, <2>3, <2>4, <2>5
  <2>6. ASSUME task'[t] = task[t]
        PROVE  G
    <3>1. /\ task'[t].status = "none" => task'[t].attempts = 0
          /\ task'[t].status = "delivered" => published'[t] >= 1
      BY <2>1, <2>3, <2>6
    <3>2. CASE task[t].status # "purged"
      BY <2>1, <2>5, <2>6, <3>1, <3>2
    <3>3. CASE task[t].status = "purged"
      BY <2>6, <3>1, <3>3
    <3> QED
      BY <3>2, <3>3
  <2>7. ASSUME New(t, task'[t]) \/ Hinted(t, task'[t])
        PROVE  G
    <3>1. PICK e, l : task'[t] = NewTask(e, l) /\ task[t].status = "none"
      BY <2>7, Zenon DEF New, Hinted
    <3>2. task'[t].status = "waiting" /\ task'[t].attempts = 0
      BY <3>1 DEF NewTask
    <3> QED
      BY <2>1, <2>3, <2>5, <3>1, <3>2
  <2>8. ASSUME Gone(t, task'[t])
        PROVE  G
    <3>1. task'[t].status = "purged"
      BY <2>8 DEF Gone, Purged, NoTask
    <3> QED
      BY <3>1
  <2>9. ASSUME Cut(t, task'[t]) \/ Dropped(t, task'[t]) \/ Again(t, task'[t])
        PROVE  G
    <3>1. task'[t].attempts = task[t].attempts /\ task'[t].status \in {"canceled", "waiting"}
      BY <2>9 DEF Cut, Dropped, Again, Kept
    <3>2. task[t].status # "purged"
      <4>1. Cut(t, task'[t]) \/ Again(t, task'[t]) => Live(t)
        BY DEF Cut, Again, Canceled
      <4>2. ASSUME NEW w \in Workers, CheckActive(w), tx[w].task = t PROVE Live(t)
        BY <2>0, <4>2 DEF CheckActive, Working
      <4> QED
        BY <2>9, <4>1, <4>2 DEF Dropped, Live
    <3> QED
      BY <2>1, <2>5, <3>1, <3>2
  <2>10. ASSUME Tried(t, task'[t])
         PROVE  G
    <3>1. PICK w \in Workers : /\ Record(w) /\ tx[w].task = t /\ task'[t].attempts = tx[w].attempts + 1
                               /\ task'[t].status = Outcome(w)
      BY <2>10 DEF Tried
    <3>2. /\ tx[w].kind = "deliver" /\ tx[w].step \in {"reached", "failed"} /\ w \in Sessions
      BY <2>0, <3>1 DEF Record
    <3>3. task[t].status = "waiting" /\ tx[w].attempts = task[t].attempts
      BY <3>1, <3>2 DEF Working
    <3>4. task'[t].status = "delivered" => published[t] >= 1
      BY <3>1, <3>2, <3>3 DEF Outcome, AckInv
    <3>5. task'[t].status # "none"
      BY <3>1, <3>3 DEF Outcome
    <3> QED
      BY <2>1, <2>5, <3>1, <3>3, <3>4, <3>5
  <2> QED
    BY <2>0, <2>6, <2>7, <2>8, <2>9, <2>10 DEF TaskStep, c, d
<1> QED
  BY <1>1 DEF PublishInv

-----------------------------------------------------------------------------
(* Theorems.                                                                 *)

\* The inductive invariant.
DeliveryInv ==
    /\ Tables /\ TxInv /\ Counts
    /\ LockInv /\ LogInv /\ AttemptInv /\ AckInv /\ PublishInv

\* It holds of an empty database.
LEMMA InitInv ==
    ASSUME Init
    PROVE  DeliveryInv
<1>1. Tables
  BY NewRows DEF Init, Tables, InboxRecords, Said
<1>2. \A s \in Sessions : tx[s] = Idle
  BY DEF Init
<1>3. /\ Idle.kind = "idle" /\ Idle.step = "done" /\ Idle.held = {}
  BY DEF Idle
<1>4. TxInv
  <2>1. TxTypes
    BY NewRows DEF Init, TxTypes
  <2>2. Claims
    BY <1>2, <1>3 DEF Claims, ClaimOf
  <2>3. Exclusive
    BY <1>2, <1>3 DEF Exclusive
  <2> QED
    BY <2>1, <2>2, <2>3 DEF TxInv
<1>5. Counts
  BY DEF Init, Counts, Counters
<1>6. \A t \in Tasks : task[t].status = "none" /\ task[t].entry = None /\ task[t].log = None
                       /\ task[t].attempts = 0
  BY DEF Init, NoTask
<1>7. LockInv
  BY <1>2, <1>3, <1>6 DEF LockInv, HasMessage, LiveTasksHaveReceipts, Working, Announcing, Resolving, Live
<1>8. LogInv
  BY <1>6 DEF LogInv, LogOwners, LogsWritten, LogsTellOutcome
<1>9. AttemptInv
  <2>1. \A t \in Tasks : Retrying(t) = {} /\ retries[t] = 0
    BY <1>2, <1>3 DEF Retrying, Init
  <2> QED
    BY <1>6, <2>1, FS_EmptySet, NotificationConstants DEF AttemptInv
<1>10. AckInv
  BY <1>2, <1>3 DEF AckInv
<1>11. PublishInv
  <2>1. \A t \in Tasks : InFlight(t) = {} /\ published[t] = 0 /\ lost[t] = 0
    BY <1>2, <1>3 DEF InFlight, Init, Sessions
  <2>2. \A t \in Tasks : Cardinality(InFlight(t)) = 0
    BY <2>1, FS_EmptySet
  <2> QED
    BY <1>6, <2>1, <2>2 DEF PublishInv
<1> QED
  BY <1>1, <1>4, <1>5, <1>7, <1>8, <1>9, <1>10, <1>11 DEF DeliveryInv

\* Nothing but a step can break it.
LEMMA StutterInv ==
    ASSUME DeliveryInv, UNCHANGED vars
    PROVE  DeliveryInv'
<1>1. /\ inbox' = inbox /\ task' = task /\ log' = log /\ tx' = tx /\ published' = published
      /\ lost' = lost /\ retries' = retries /\ crashes' = crashes
  BY DEF vars
<1>2. Tables' /\ TxInv' /\ Counts'
  BY <1>1 DEF DeliveryInv, Tables, TxInv, TxTypes, Claims, ClaimOf, Exclusive, Counts
<1>3. LockInv'
  BY <1>1, Zenon DEF DeliveryInv, LockInv, HasMessage, LiveTasksHaveReceipts, Working, Announcing, Resolving,
     Live, Inactive, Active
<1>4. LogInv'
  BY <1>1, Zenon DEF DeliveryInv, LogInv, LogOwners, LogsWritten, LogsTellOutcome
<1>5. AttemptInv'
  BY <1>1, Zenon DEF DeliveryInv, AttemptInv, Retrying
<1>6. AckInv' /\ PublishInv'
  BY <1>1, Zenon DEF DeliveryInv, AckInv, PublishInv, InFlight
<1> QED
  BY <1>2, <1>3, <1>4, <1>5, <1>6 DEF DeliveryInv

\* The inductive invariant: row locks exclude each other, a claimed task is as its
\* worker read it, resolutions have locked every live task of their messages, no
\* two tasks share a log, and attempts and announcements are within what is counted.
THEOREM Inductive == Spec => []DeliveryInv
<1>1. DeliveryInv /\ [Next]_vars => DeliveryInv'
  <2>1. ASSUME DeliveryInv, Next PROVE DeliveryInv'
    <3>1. Tables /\ TxInv /\ Counts /\ LockInv /\ LogInv /\ AttemptInv /\ AckInv /\ PublishInv /\ Working
      BY <2>1 DEF DeliveryInv, LockInv
    <3>2. Tables' /\ TxInv' /\ Counts'
      BY <2>1, <3>1, TablesKept, TxInvKept, CountsKept, Zenon
    <3>3. LockInv'
      BY <2>1, <3>1, HasMessageKept, ReceiptsKept, WorkingKept, AnnouncingKept, ResolvingKept, Zenon DEF LockInv
    <3>4. LogInv' /\ AttemptInv' /\ AckInv' /\ PublishInv'
      BY <2>1, <3>1, LogInvKept, AttemptInvKept, AckInvKept, PublishInvKept, Zenon
    <3> QED
      BY <3>2, <3>3, <3>4, Zenon DEF DeliveryInv
  <2> QED
    BY <2>1, StutterInv
<1> QED
  BY <1>1, InitInv, PTL DEF Spec

\* The tables and the transactions keep to their types.
THEOREM TypesCorrect == Spec => []TypeOK
<1>1. DeliveryInv => TypeOK
  <2> SUFFICES ASSUME DeliveryInv PROVE TypeOK
    OBVIOUS
  <2>1. Tables /\ TxTypes
    BY DEF DeliveryInv, TxInv
  <2>2. \A s \in Sessions : tx[s].task \in Tasks \union {None} /\ tx[s].entries \subseteq Entries
    BY <2>1, TxFields
  <2> QED
    BY <2>1, <2>2 DEF TypeOK, Tables, InboxRecords, TaskRecords, Said
<1> QED
  BY <1>1, Inductive, PTL

\* Automatic attempts stop, for any number of workers, crashes and races.
THEOREM AttemptsAreBounded == Spec => []AttemptsBounded
<1>1. DeliveryInv => AttemptsBounded
  <2> SUFFICES ASSUME DeliveryInv, NEW t \in Tasks
               PROVE  task[t].attempts <= MaxAttempts + retries[t]
    BY DEF AttemptsBounded
  <2>1. Cardinality(Retrying(t)) \in Nat /\ MaxAttempts \in Nat /\ task[t].attempts \in Nat /\ retries[t] \in Nat
    BY RetryingFinite, NotificationConstants DEF DeliveryInv, Tables, TaskRecords, Counts, Counters
  <2>2. task[t].attempts + Cardinality(Retrying(t)) <= MaxAttempts + retries[t]
    BY DEF DeliveryInv, AttemptInv
  <2> QED
    BY <2>1, <2>2
<1> QED
  BY <1>1, Inductive, PTL

\* Delivery is at least once, and every announcement is recorded, about to be, or
\* that of a transaction which broke off.
THEOREM PublicationsAreAccounted == Spec => []PublicationsAccounted
<1>1. DeliveryInv => PublicationsAccounted
  BY DEF DeliveryInv, PublishInv, PublicationsAccounted
<1> QED
  BY <1>1, Inductive, PTL

\* Logs tell what became of the tasks they belong to.
THEOREM LogsTellTheOutcome == Spec => []LogsTellOutcome
<1>1. DeliveryInv => LogsTellOutcome
  BY DEF DeliveryInv, LogInv
<1> QED
  BY <1>1, Inductive, PTL

\* Retention spares the messages that tasks still announce.
THEOREM ReceiptsOfLiveTasks == Spec => []LiveTasksHaveReceipts
<1>1. DeliveryInv => LiveTasksHaveReceipts
  BY DEF DeliveryInv, LockInv
<1> QED
  BY <1>1, Inductive, PTL

\* A resolved message is never announced, however its resolution and a worker that
\* had claimed its task overlap.
THEOREM ResolvedIsSilent == Spec => ResolvedNeverPublished
<1> DEFINE Silent == \A t \in Tasks : published'[t] > published[t] /\ task[t].entry # None
                        => "resolved" \notin inbox[task[t].entry].marks
<1>1. DeliveryInv /\ [Next]_vars => [Silent]_vars
  <2> SUFFICES ASSUME DeliveryInv, Next, NEW t \in Tasks, published'[t] > published[t],
                      task[t].entry # None
               PROVE  "resolved" \notin inbox[task[t].entry].marks
    BY DEF vars
  <2>1. published[t] \in Nat
    BY DEF DeliveryInv, Counts, Counters
  <2>2. PICK w \in Workers : Publish(w) /\ tx[w].task = t
    BY <2>1, PublishedSteps DEF DeliveryInv
  <2> QED
    BY <2>2 DEF DeliveryInv, LockInv, Announcing, Publish, Sessions
<1>2. Spec => [][Silent]_vars
  BY <1>1, Inductive, PTL DEF Spec
<1> QED
  BY <1>2 DEF ResolvedNeverPublished

-----------------------------------------------------------------------------
(* Lock order.                                                               *)

\* The order in which rows are locked.
Before(q, r) == IF q[1] = r[1] THEN q[2] < r[2] ELSE q[1] = "inbox"

\* A transaction holds rows that come before those it still has to lock; a
\* resolution that collects messages has locked nothing else.
InOrder(r) ==
    /\ \A q \in r.held, p \in r.todo : Before(q, p)
    /\ r.kind = "resolve" /\ r.step = "inbox" => \A q \in r.held \union r.todo : q[1] = "inbox"
LockOrder == \A h \in Handlers : InOrder(tx[h])

\* It is a strict order of the rows.
LEMMA BeforeOrder ==
    /\ \A q \in Rows : ~Before(q, q)
    /\ \A q, r, p \in Rows : Before(q, r) /\ Before(r, p) => Before(q, p)
    /\ \A S \in SUBSET Rows : \A q \in FirstRow(S) : q \in S /\ \A p \in S : p = q \/ Before(q, p)
<1>1. ASSUME NEW q \in Rows
      PROVE  q = <<q[1], q[2]>> /\ q[1] \in {"inbox", "task"} /\ q[2] \in Nat
  <2>1. Entries \subseteq Nat /\ Tasks \subseteq Nat
    BY NotificationConstants
  <2>2. CASE q \in {"inbox"} \X Entries
    <3>1. PICK e \in Entries : q = <<"inbox", e>>
      BY <2>2
    <3>2. q[1] = "inbox" /\ q[2] = e
      BY <3>1
    <3> QED
      BY <2>1, <3>1, <3>2
  <2>3. CASE q \in {"task"} \X Tasks
    <3>1. PICK t \in Tasks : q = <<"task", t>>
      BY <2>3
    <3>2. q[1] = "task" /\ q[2] = t
      BY <3>1
    <3> QED
      BY <2>1, <3>1, <3>2
  <2> QED
    BY <2>2, <2>3 DEF Rows
<1>2. \A q \in Rows : ~Before(q, q)
  BY <1>1 DEF Before
<1>3. ASSUME NEW q \in Rows, NEW r \in Rows, NEW p \in Rows, Before(q, r), Before(r, p)
      PROVE  Before(q, p)
  BY <1>1, <1>3 DEF Before
<1>4. ASSUME NEW S \in SUBSET Rows, NEW q \in FirstRow(S), NEW p \in S
      PROVE  q \in S /\ (p = q \/ Before(q, p))
  <2>1. q \in S /\ q \in Rows /\ p \in Rows /\ IF p[1] = q[1] THEN q[2] <= p[2] ELSE q[1] = "inbox"
    BY DEF FirstRow
  <2>2. p[1] = q[1] /\ p[2] = q[2] => p = q
    BY <1>1, <2>1
  <2> QED
    BY <1>1, <2>1, <2>2 DEF Before
<1>5. \A S \in SUBSET Rows : \A q \in FirstRow(S) : q \in S /\ \A p \in S : p = q \/ Before(q, p)
  BY <1>4 DEF FirstRow
<1> QED
  BY <1>2, <1>3, <1>5

\* A handler's transaction is replaced by one that locks in order.
LEMMA OrderUpdate ==
    ASSUME TxTypes, LockOrder, NEW s \in Sessions, NEW r, tx' = [tx EXCEPT ![s] = r],
           s \in Handlers => InOrder(r)
    PROVE  LockOrder'
<1>1. tx'[s] = r /\ (\A u \in Sessions : u # s => tx'[u] = tx[u])
  BY DEF TxTypes
<1> SUFFICES ASSUME NEW h \in Handlers PROVE InOrder(tx[h])'
  BY DEF LockOrder
<1>2. InOrder(tx[h]) /\ h \in Sessions
  BY DEF LockOrder, Sessions
<1>3. InOrder(tx'[h])
  BY <1>1, <1>2
<1> QED
  BY <1>3 DEF InOrder

\* The transaction that no session runs is in order.
LEMMA IdleInOrder == InOrder(Idle)
BY DEF InOrder, Idle

\* The row that is locked comes before those that are left.
LEMMA LockInOrder ==
    ASSUME TxInv, LockOrder, NEW h \in Handlers, Lock(h)
    PROVE  LockOrder'
<1>0. h \in Sessions /\ TxTypes /\ InOrder(tx[h]) /\ tx[h].todo \subseteq Rows /\ tx[h].held \subseteq Rows
  BY TxFields DEF Sessions, TxInv, LockOrder
<1>1. PICK row \in FirstRow(tx[h].todo) :
          \/ tx' = [tx EXCEPT ![h].todo = @ \ {row}, ![h].held = @ \union {row}]
          \/ End(h)
  BY DEF Lock
<1>2. CASE End(h)
  BY <1>0, <1>2, IdleInOrder, OrderUpdate DEF End
<1>3. CASE tx' = [tx EXCEPT ![h].todo = @ \ {row}, ![h].held = @ \union {row}]
  <2> DEFINE r == Transaction(tx[h].kind, tx[h].step, tx[h].entries, tx[h].task,
                    tx[h].attempts, tx[h].acked, tx[h].todo \ {row}, tx[h].held \union {row})
  <2>1. tx' = [tx EXCEPT ![h] = r]
    <3>1. tx' = [tx EXCEPT ![h] = [[tx[h] EXCEPT !.todo = @ \ {row}] EXCEPT !.held = @ \union {row}]]
      BY <1>0, <1>3, Zenon DEF TxTypes
    <3>2. ASSUME NEW x, x = [[tx[h] EXCEPT !.todo = @ \ {row}] EXCEPT !.held = @ \union {row}]
          PROVE  x = r
      BY <1>0, <3>2, tx[h] \in TxRecords DEF Transaction, TxRecords, TxTypes
    <3> QED
      BY <3>1, <3>2, Zenon
  <2>2. /\ row \in tx[h].todo /\ \A p \in tx[h].todo : p = row \/ Before(row, p)
        /\ \A q \in tx[h].held, p \in tx[h].todo : Before(q, p)
        /\ tx[h].kind = "resolve" /\ tx[h].step = "inbox"
              => \A q \in tx[h].held \union tx[h].todo : q[1] = "inbox"
    <3>1. row \in tx[h].todo /\ \A p \in tx[h].todo : p = row \/ Before(row, p)
      BY <1>0, BeforeOrder
    <3> QED
      BY <1>0, <3>1 DEF InOrder
  <2>3. InOrder(r)
    BY <2>2 DEF InOrder, Transaction
  <2> HIDE DEF r
  <2> QED
    BY <1>0, <2>1, <2>3, OrderUpdate
<1> QED
  BY <1>1, <1>2, <1>3

\* Every step keeps the lock order.
LEMMA OrderKept ==
    ASSUME Tables, TxInv, LockOrder, [Next]_vars
    PROVE  LockOrder'
<1>0. TxTypes /\ Workers \subseteq Sessions /\ Handlers \subseteq Sessions
      /\ \A w \in Workers : w \notin Handlers
  BY NotificationConstants DEF TxInv, Sessions
<1>1. ASSUME tx' = tx PROVE LockOrder'
  BY <1>1 DEF LockOrder, InOrder
<1>2. ASSUME NEW s \in Sessions, tx' = [tx EXCEPT ![s] = Idle] PROVE LockOrder'
  BY <1>0, <1>2, IdleInOrder, OrderUpdate
<1>3. ASSUME NEW w \in Workers, NEW r, tx' = [tx EXCEPT ![w] = r] PROVE LockOrder'
  BY <1>0, <1>3, OrderUpdate
<1>4. ASSUME NEW h \in Handlers, NEW S \in SUBSET Entries, StartResolve(h, S) PROVE LockOrder'
  <2> DEFINE r == Transaction("resolve", "inbox", S, None, 0, FALSE, {InboxRow(e) : e \in S}, {})
  <2>1. tx' = [tx EXCEPT ![h] = r]
    BY <1>0, <1>4, StartResolveTx, Zenon
  <2>2. InOrder(r)
    BY DEF InOrder, Transaction, InboxRow
  <2> HIDE DEF r
  <2> QED
    BY <1>0, <2>1, <2>2, OrderUpdate
<1>5. ASSUME NEW h \in Handlers, NEW t \in Tasks, StartRetry(h, t) PROVE LockOrder'
  <2> DEFINE r == Transaction("retry", "locks", {}, t, 0, FALSE, RetryRows(t), {})
  <2>1. tx' = [tx EXCEPT ![h] = r]
    BY <1>0, <1>5, StartRetryTx, Zenon
  <2>2. InOrder(r)
    BY DEF InOrder, Transaction
  <2> HIDE DEF r
  <2> QED
    BY <1>0, <2>1, <2>2, OrderUpdate
<1>6. ASSUME NEW h \in Handlers, FindTasks(h) PROVE LockOrder'
  <2> DEFINE T == {TaskRow(t) : t \in PendingOf({e \in tx[h].entries : Unresolved(e)})}
             r == Transaction(tx[h].kind, "tasks", {e \in tx[h].entries : Unresolved(e)}, tx[h].task,
                              tx[h].attempts, tx[h].acked, T, tx[h].held)
  <2>1. tx' = [tx EXCEPT ![h] = r]
    BY <1>0, <1>6, FindTasksTx, Zenon
  <2>2. tx[h].kind = "resolve" /\ tx[h].step = "inbox"
    BY <1>6 DEF FindTasks
  <2>3. \A q \in tx[h].held : q[1] = "inbox"
    BY <2>2 DEF LockOrder, InOrder
  <2>4. \A p \in T : p[1] = "task"
    <3>1. \A t : TaskRow(t)[1] = "task"
      BY DEF TaskRow
    <3> QED
      BY <3>1
  <2>5. InOrder(r)
    BY <2>3, <2>4 DEF InOrder, Transaction, Before
  <2> HIDE DEF r
  <2> QED
    BY <1>0, <2>1, <2>5, OrderUpdate
<1>7. ASSUME NEW w \in Workers, CheckActive(w) PROVE LockOrder'
  BY <1>0, <1>3, <1>7, CheckTx, Zenon
<1>8. ASSUME NEW w \in Workers, Publish(w) PROVE LockOrder'
  BY <1>0, <1>3, <1>8, PublishTx, Zenon
<1>9. ASSUME NEW w \in Workers, NEW t \in Tasks, Claim(w, t) PROVE LockOrder'
  BY <1>0, <1>3, <1>9, ClaimTx, Zenon
<1>10. CASE UNCHANGED vars
  BY <1>1, <1>10 DEF vars
<1>11. ASSUME NEW h \in Handlers, FinishResolve(h) \/ FinishRetry(h) PROVE LockOrder'
  <2>1. tx' = [tx EXCEPT ![h] = Idle]
    BY <1>11 DEF FinishResolve, FinishRetry, End
  <2> QED
    BY <1>0, <1>2, <2>1
<1>12. ASSUME NEW w \in Workers, Record(w) PROVE LockOrder'
  <2>1. tx' = [tx EXCEPT ![w] = Idle]
    BY <1>12 DEF Record, End
  <2> QED
    BY <1>0, <1>2, <2>1
<1>13. ASSUME NEW s \in Sessions, Crash(s) PROVE LockOrder'
  BY <1>2, <1>13 DEF Crash, End
<1>14. ASSUME NEW e \in Entries, NEW l \in Logs \union {None}, Create(e, l) PROVE LockOrder'
  BY <1>1, <1>14 DEF Create
<1>15. ASSUME NEW e \in Entries, NEW l \in Logs, CreateAgain(e, l) PROVE LockOrder'
  BY <1>1, <1>15 DEF CreateAgain
<1>16. ASSUME NEW e \in Entries, Archive(e) \/ Expire(e) PROVE LockOrder'
  BY <1>1, <1>16 DEF Archive, Expire
<1>17. ASSUME Purge PROVE LockOrder'
  BY <1>1, <1>17 DEF Purge
<1>18. ASSUME NEW h \in Handlers, Lock(h) PROVE LockOrder'
  BY <1>18, LockInOrder
<1> QED
  BY <1>4, <1>5, <1>6, <1>7, <1>8, <1>9, <1>10, <1>11, <1>12, <1>13, <1>14, <1>15, <1>16, <1>17,
     <1>18, Zenon DEF Next, HandlerStep, WorkerStep

\* Of sessions that all wait, one waits for a row that comes after every other's
\* wait: the row it waits for is held by a session that waits for a later row.
LEMMA NobodyWaitsAround ==
    ASSUME TxTypes, LockOrder
    PROVE  NoLockCycle
<1> SUFFICES ASSUME NEW C \in (SUBSET Handlers) \ {{}}, \A s \in C : \E r \in C : WaitsFor(s, r)
             PROVE  FALSE
  BY DEF NoLockCycle
<1> DEFINE Awaited(s) == CHOOSE row \in FirstRow(tx[s].todo) : \E r \in C : row \in tx[r].held
           After(s) == {u \in C : Before(Awaited(s), Awaited(u))}
           Bad == {After(s) : s \in C}
<1>1. ASSUME NEW s \in C
      PROVE  /\ Awaited(s) \in FirstRow(tx[s].todo) /\ \E r \in C : Awaited(s) \in tx[r].held
             /\ Awaited(s) \in tx[s].todo /\ Awaited(s) \in Rows
  <2>1. \E row \in FirstRow(tx[s].todo) : \E r \in C : row \in tx[r].held
    BY DEF WaitsFor
  <2>2. Awaited(s) \in FirstRow(tx[s].todo) /\ \E r \in C : Awaited(s) \in tx[r].held
    BY <2>1
  <2>3. s \in Sessions
    BY DEF Sessions
  <2> QED
    BY <2>2, <2>3, TxFields DEF FirstRow
<1> HIDE DEF Awaited
<1>2. ASSUME NEW s \in C
      PROVE  \E r \in C : After(r) \subseteq After(s) /\ After(r) # After(s)
  <2>1. PICK r \in C : Awaited(s) \in tx[r].held
    BY <1>1
  <2>2. Before(Awaited(s), Awaited(r))
    BY <1>1, <2>1 DEF LockOrder, InOrder
  <2>3. r \in After(s) /\ r \notin After(r)
    BY <1>1, <2>2, BeforeOrder
  <2>4. After(r) \subseteq After(s)
    <3> SUFFICES ASSUME NEW u \in C, Before(Awaited(r), Awaited(u)) PROVE Before(Awaited(s), Awaited(u))
      OBVIOUS
    <3>1. Awaited(s) \in Rows /\ Awaited(r) \in Rows /\ Awaited(u) \in Rows
      BY <1>1
    <3> QED
      BY <2>2, <3>1, BeforeOrder
  <2> QED
    BY <2>3, <2>4
<1> HIDE DEF After
<1>3. Bad # {}
  <2>1. PICK s \in C : TRUE
    OBVIOUS
  <2>2. After(s) \in Bad
    BY <2>1
  <2> QED
    BY <2>2
<1>4. \A s \in C : After(s) \subseteq C
  BY DEF After
<1>5. IsFiniteSet(C)
  BY NotificationConstants, FS_Subset
<1>6. Bad \subseteq SUBSET C
  BY <1>4
<1>7. PICK T \in Bad : IsFiniteSet(T) /\ \A U \in SUBSET T : U # T => U \notin Bad
  <2> HIDE DEF Bad
  <2> QED
    BY <1>3, <1>5, <1>6, FiniteMinimal
<1>8. PICK s \in C : T = After(s)
  BY <1>7
<1>9. PICK r \in C : After(r) \subseteq After(s) /\ After(r) # After(s)
  BY <1>2
<1> QED
  BY <1>7, <1>8, <1>9

\* Resolutions and retries lock rows in one order, so no set of them waits for
\* itself, however many there are and however they interleave.
THEOREM LocksNeverCycle == Spec => []NoLockCycle
<1>1. Init => LockOrder
  <2> SUFFICES ASSUME Init, NEW h \in Handlers PROVE InOrder(tx[h])
    BY DEF LockOrder
  <2>1. tx[h] = Idle
    BY DEF Init, Sessions
  <2> QED
    BY <2>1, IdleInOrder
<1>2. DeliveryInv /\ LockOrder /\ [Next]_vars => LockOrder'
  BY OrderKept DEF DeliveryInv
<1>3. DeliveryInv /\ LockOrder => NoLockCycle
  BY NobodyWaitsAround DEF DeliveryInv, TxInv
<1> QED
  BY <1>1, <1>2, <1>3, Inductive, PTL DEF Spec

=============================================================================
