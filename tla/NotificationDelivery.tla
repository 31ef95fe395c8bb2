-------------------------- MODULE NotificationDelivery --------------------------
(***************************************************************************)
(* The notification inbox and its outbox: messages stored with the business *)
(* transaction that causes them, one task per message (and per change of it) *)
(* that announces it over Redis, workers that claim tasks, and the            *)
(* resolution, retry and retention that interfere with them.                *)
(*                                                                         *)
(* Transactions are READ COMMITTED: a session locks rows one at a time and   *)
(* its writes are visible when it commits, in one action.  Transactions that *)
(* lock one row are one action that waits for it.  Log rows are only written  *)
(* under the lock of their task.  Due times are abstracted: a task may be due *)
(* whenever it waits, and a message is expired or not as the reader sees it.  *)
(***************************************************************************)
EXTENDS Naturals, FiniteSets

CONSTANTS
    Entries,       \* inbox rows, ordered by id, each of its own deduplication key
    Tasks,         \* outbox rows, ordered by id; hints beyond them are not modelled
    Logs,          \* rule execution logs
    RecipientOf,
    Expiring,      \* messages with an expiry date
    Workers,       \* delivery workers of the API instances
    Handlers,      \* concurrent resolutions and manual retries
    MaxAttempts,   \* failures after which a task is paused (12 in the code)
    MaxRetries,    \* bound: manual retries requested per task
    MaxCrashes,    \* bound: transactions that break off
    None

ASSUME NotificationConstants ==
    /\ Entries \subseteq Nat /\ Tasks \subseteq Nat
    /\ Expiring \subseteq Entries
    /\ Workers \intersect Handlers = {}
    /\ IsFiniteSet(Workers) /\ IsFiniteSet(Handlers)
    /\ MaxAttempts \in Nat \ {0} /\ MaxRetries \in Nat /\ MaxCrashes \in Nat
    /\ None \notin Entries \union Tasks \union Logs

VARIABLES
    inbox,      \* committed inbox row: present or not, and how it was closed
    task,       \* committed outbox row: status, message, attempts, log
    log,        \* committed execution status of each log
    tx,         \* the transaction each worker or handler runs, or Idle
    published,  \* history: announcements of each task that reached Redis
    lost,       \* history: of those, the ones whose transaction broke off
    retries,    \* history: manual retries requested of each task
    crashes     \* how many transactions broke off

vars == <<inbox, task, log, tx, published, lost, retries, crashes>>
tables == <<inbox, task, log>>
history == <<published, lost, retries, crashes>>

-----------------------------------------------------------------------------
(* Rows.                                                                     *)

\* How a message is closed; a read mark closes nothing and is left out.
Marks == {"archived", "resolved", "expired"}

\* activeSystemNotificationInboxEntriesForDeliveryQuery.
Active(e) == inbox[e].row = "present" /\ inbox[e].marks = {}
Unresolved(e) == inbox[e].row = "present" /\ "resolved" \notin inbox[e].marks

NoTask == [status |-> "none", entry |-> None, attempts |-> 0, log |-> None]
Purged == [NoTask EXCEPT !.status = "purged"]
NewTask(e, l) == [status |-> "waiting", entry |-> e, attempts |-> 0, log |-> l]

\* Neither delivered nor canceled: waiting, deferred, or paused after failures.
Live(t) == task[t].status \in {"waiting", "failed"}

Unused == {t \in Tasks : task[t].status = "none"}
First(S) == {t \in S : \A u \in S : t <= u}

\* enqueueSystemNotificationInboxRefreshWithinTransaction: n hints that belong to
\* no message, added to the outbox f.
WithHints(f, n) == [t \in Tasks |->
    IF t \in Unused /\ Cardinality({u \in Unused : u < t}) < n THEN NewTask(None, None) ELSE f[t]]

WithLog(f, l, status) == IF l = None THEN f ELSE [f EXCEPT ![l] = status]

InboxRow(e) == <<"inbox", e>>
TaskRow(t) == <<"task", t>>

\* Mutant: rows are locked in no order.
LockedAnyhow(S) == S
\* The row a session locks next: inbox rows before tasks, each in order of id.
FirstRow(S) == {r \in S : \A q \in S :
                   IF r[1] = q[1] THEN r[2] <= q[2] ELSE r[1] = "inbox"}

Idle == [kind |-> "idle", step |-> "done", entries |-> {}, task |-> None, attempts |-> 0,
         acked |-> FALSE, todo |-> {}, held |-> {}]

Sessions == Workers \union Handlers

\* Mutant: row locks are not exclusive.
AlwaysFree(row) == TRUE
\* No transaction holds the row.
Free(row) == \A s \in Sessions : row \notin tx[s].held

End(s) == tx' = [tx EXCEPT ![s] = Idle]

Init ==
    /\ inbox = [e \in Entries |-> [row |-> "none", marks |-> {}]]
    /\ task = [t \in Tasks |-> NoTask]
    /\ log = [l \in Logs |-> "none"]
    /\ tx = [s \in Sessions |-> Idle]
    /\ published = [t \in Tasks |-> 0]
    /\ lost = [t \in Tasks |-> 0]
    /\ retries = [t \in Tasks |-> 0]
    /\ crashes = 0

-----------------------------------------------------------------------------
(* Messages: creation, archiving, expiry and retention.                       *)

\* CreateSystemNotificationInboxEntryWithinTransaction, with the log that the rule
\* engine creates in the same transaction (or none).
Create(e, l) ==
    /\ inbox[e].row = "none"
    /\ l # None => log[l] = "none"
    /\ inbox' = [inbox EXCEPT ![e].row = "present"]
    /\ \E t \in First(Unused) : task' = [task EXCEPT ![t] = NewTask(e, l)]
    /\ log' = WithLog(log, l, "pending")
    /\ UNCHANGED <<tx, history>>

\* The same when the deduplication key is taken: nothing but the log is written.
CreateAgain(e, l) ==
    /\ inbox[e].row = "present"
    /\ log[l] = "none"
    /\ log' = WithLog(log, l, "skipped")
    /\ UNCHANGED <<inbox, task, tx, history>>

\* UpdateSystemNotificationInboxAccountState: one message is archived.
Archive(e) ==
    /\ inbox[e].row = "present" /\ Free(InboxRow(e))
    /\ "archived" \notin inbox[e].marks
    /\ inbox' = [inbox EXCEPT ![e].marks = @ \union {"archived"}]
    /\ task' = WithHints(task, 1)
    /\ UNCHANGED <<log, tx, history>>

Expire(e) ==
    /\ e \in Expiring
    /\ inbox[e].row = "present" /\ "expired" \notin inbox[e].marks
    /\ inbox' = [inbox EXCEPT ![e].marks = @ \union {"expired"}]
    /\ UNCHANGED <<task, log, tx, history>>

\* Mutant: retention forgets the tasks of a message.
PurgeableIgnoringTasks(e) ==
    inbox[e].row = "present" /\ inbox[e].marks # {}
\* Messages and tasks that PurgeRetainedSystemNotificationDeliveryAndInboxRecords
\* may remove, if they are old enough.
Purgeable(e) ==
    /\ inbox[e].row = "present" /\ inbox[e].marks # {}
    /\ \A t \in Tasks : Live(t) => task[t].entry # e

Purge == \E S \in SUBSET {e \in Entries : Purgeable(e) /\ Free(InboxRow(e))},
            R \in SUBSET {t \in Tasks : task[t].status \in {"delivered", "canceled"} /\ Free(TaskRow(t))} :
    /\ S # {} \/ R # {}
    /\ inbox' = [e \in Entries |-> IF e \in S THEN [inbox[e] EXCEPT !.row = "purged"] ELSE inbox[e]]
    /\ task' = [t \in Tasks |-> IF t \in R THEN Purged ELSE task[t]]
    /\ UNCHANGED <<log, tx, history>>

-----------------------------------------------------------------------------
(* Locks of handlers.                                                        *)

\* A retry gives up on a message that is not active any more.
GivesUp(h, row) == tx[h].kind = "retry" /\ row[1] = "inbox" /\ ~Active(row[2])

\* The next row is locked.
Lock(h) ==
    /\ \E row \in FirstRow(tx[h].todo) :
       /\ Free(row)
       /\ \/ /\ ~GivesUp(h, row)
             /\ tx' = [tx EXCEPT ![h].todo = @ \ {row}, ![h].held = @ \union {row}]
          \/ GivesUp(h, row) /\ End(h)
    /\ UNCHANGED <<tables, history>>

-----------------------------------------------------------------------------
(* ResolveSystemNotificationInboxEntriesWithinTransaction.                    *)

\* The caller's filter selects S; rows are locked in order of id.  A transaction
\* resolves once; callers that do so several times in one are outside.
StartResolve(h, S) ==
    /\ tx[h] = Idle
    /\ S # {} /\ \A e \in S : Unresolved(e)
    /\ tx' = [tx EXCEPT ![h] = [Idle EXCEPT !.kind = "resolve", !.step = "inbox", !.entries = S,
                 !.todo = {InboxRow(e) : e \in S}]]
    /\ UNCHANGED <<tables, history>>

\* Mutant: the tasks of resolved messages are left in the queue.
NothingPending(S) == {}
\* The tasks a resolution cancels.
PendingOf(S) == {t \in Tasks : Live(t) /\ task[t].entry \in S}

\* The messages are locked; of those still unresolved, the tasks are locked next.
FindTasks(h) ==
    /\ tx[h].kind = "resolve" /\ tx[h].step = "inbox" /\ tx[h].todo = {}
    /\ LET S == {e \in tx[h].entries : Unresolved(e)}
           T == PendingOf(S)
       IN tx' = [tx EXCEPT ![h].step = "tasks", ![h].entries = S,
                           ![h].todo = {TaskRow(t) : t \in T}]
    /\ UNCHANGED <<tables, history>>

Canceled(h) == {t \in Tasks : TaskRow(t) \in tx[h].held /\ Live(t)}

\* Mutant: the logs get a status their readers do not know.
LogsCanceled(T) ==
    [l \in Logs |-> IF \E t \in T : task[t].log = l THEN "canceled" ELSE log[l]]
\* Mutant: the logs of canceled tasks are not told.
LogsUntouched(T) == log
\* Logs after the tasks T were canceled.
LogsSkipped(T) ==
    [l \in Logs |-> IF \E t \in T : task[t].log = l THEN "skipped" ELSE log[l]]

FinishResolve(h) ==
    /\ tx[h].kind = "resolve" /\ tx[h].step = "tasks" /\ tx[h].todo = {}
    /\ LET S == tx[h].entries
           T == Canceled(h)
       IN /\ inbox' = [e \in Entries |->
                 IF e \in S THEN [inbox[e] EXCEPT !.marks = @ \union {"resolved"}] ELSE inbox[e]]
          /\ task' = WithHints([t \in Tasks |-> IF t \in T THEN [task[t] EXCEPT !.status = "canceled"]
                                                ELSE task[t]],
                               Cardinality({RecipientOf[e] : e \in S}))
          /\ log' = LogsSkipped(T)
    /\ End(h)
    /\ UNCHANGED history

-----------------------------------------------------------------------------
(* RetryOriginalSystemNotificationDeliveryQueueTask.                          *)

\* The rows a retry locks: the message of the task, if it has one, and the task.
RetryRows(t) ==
    {TaskRow(t)} \union (IF task[t].entry = None THEN {} ELSE {InboxRow(task[t].entry)})

StartRetry(h, t) ==
    /\ tx[h] = Idle
    /\ task[t].status \notin {"none", "purged"}
    /\ retries[t] < MaxRetries
    /\ retries' = [retries EXCEPT ![t] = @ + 1]
    /\ tx' = [tx EXCEPT ![h] = [Idle EXCEPT !.kind = "retry", !.step = "locks", !.task = t,
                                            !.todo = RetryRows(t)]]
    /\ UNCHANGED <<tables, published, lost, crashes>>

FinishRetry(h) ==
    /\ tx[h].kind = "retry" /\ tx[h].todo = {}
    /\ LET t == tx[h].task IN
       \/ /\ Live(t) /\ task[t].attempts > 0
          /\ task' = [task EXCEPT ![t].status = "waiting"]
          /\ log' = WithLog(log, task[t].log, "pending")
          /\ UNCHANGED inbox
       \/ /\ ~(Live(t) /\ task[t].attempts > 0)
          /\ UNCHANGED tables
    /\ End(h)
    /\ UNCHANGED history

-----------------------------------------------------------------------------
(* DeliverCommittedWorkflowNotifications.                                     *)

Inactive(t) == task[t].entry # None /\ ~Active(task[t].entry)

\* Mutant: paused tasks of inactive messages are not picked up.
ClaimableWaiting(t) == task[t].status = "waiting"
\* Mutant: a failed task is never claimed again.
ClaimableOnce(t) == Live(t) /\ (Inactive(t) \/ task[t].attempts = 0)
\* The rows of the claim's WHERE.
Claimable(t) == task[t].status = "waiting" \/ (Live(t) /\ Inactive(t))

\* SELECT ... FOR UPDATE SKIP LOCKED LIMIT 1, of any task that is due.
Claim(w, t) ==
    /\ tx[w] = Idle
    /\ Claimable(t) /\ Free(TaskRow(t))
    /\ tx' = [tx EXCEPT ![w] = [Idle EXCEPT !.kind = "deliver", !.step = "check", !.task = t,
                 !.attempts = task[t].attempts, !.held = {TaskRow(t)}]]
    /\ UNCHANGED <<tables, history>>

\* The message is looked at, without a lock: an inactive one is not announced.
CheckActive(w) ==
    /\ tx[w].kind = "deliver" /\ tx[w].step = "check"
    /\ LET t == tx[w].task IN
       \/ /\ ~Inactive(t)
          /\ tx' = [tx EXCEPT ![w].step = "publish"]
          /\ UNCHANGED tables
       \/ /\ Inactive(t)
          /\ task' = [task EXCEPT ![t].status = "canceled"]
          /\ log' = WithLog(log, task[t].log, "skipped")
          /\ UNCHANGED inbox
          /\ End(w)
    /\ UNCHANGED history

\* Redis has the hint or not; when it has, the worker may still see a timeout.
Publish(w) == \E reached, acked \in BOOLEAN :
    /\ tx[w].kind = "deliver" /\ tx[w].step = "publish"
    /\ acked => reached
    /\ published' = [published EXCEPT ![tx[w].task] = @ + IF reached THEN 1 ELSE 0]
    /\ tx' = [tx EXCEPT ![w].step = IF reached THEN "reached" ELSE "failed", ![w].acked = acked]
    /\ UNCHANGED <<tables, lost, retries, crashes>>

\* Mutant: a task is never paused.
NeverExhausted(attempts) == FALSE
\* So many failures pause a task.
Exhausted(attempts) == attempts >= MaxAttempts

Record(w) ==
    /\ tx[w].kind = "deliver" /\ tx[w].step \in {"reached", "failed"}
    /\ LET t == tx[w].task
           attempts == tx[w].attempts + 1
           acked == tx[w].acked
       IN /\ task' = [task EXCEPT ![t].attempts = attempts,
                        ![t].status = IF acked THEN "delivered"
                                      ELSE IF Exhausted(attempts) THEN "failed" ELSE @]
          /\ log' = WithLog(log, task[t].log, IF acked THEN "success" ELSE "failed")
    /\ End(w)
    /\ UNCHANGED <<inbox, history>>

\* A transaction breaks off: nothing it wrote is visible, but what was
\* published stays published.  The process and its connection end together: that
\* a connection is lost, and its row locks with it, while the process still
\* publishes is outside.
Crash(s) ==
    /\ tx[s] # Idle
    /\ crashes < MaxCrashes
    /\ crashes' = crashes + 1
    /\ lost' = IF tx[s].step = "reached" THEN [lost EXCEPT ![tx[s].task] = @ + 1] ELSE lost
    /\ End(s)
    /\ UNCHANGED <<tables, published, retries>>

HandlerStep(h) == Lock(h) \/ FindTasks(h) \/ FinishResolve(h) \/ FinishRetry(h)
WorkerStep(w) == CheckActive(w) \/ Publish(w) \/ Record(w)

Next ==
    \/ \E e \in Entries : \/ \E l \in Logs \union {None} : Create(e, l)
                          \/ \E l \in Logs : CreateAgain(e, l)
                          \/ Archive(e)
                          \/ Expire(e)
    \/ Purge
    \/ \E h \in Handlers : \/ \E S \in SUBSET Entries : StartResolve(h, S)
                           \/ \E t \in Tasks : StartRetry(h, t)
                           \/ HandlerStep(h)
    \/ \E w \in Workers : (\E t \in Tasks : Claim(w, t)) \/ WorkerStep(w)
    \/ \E s \in Sessions : Crash(s)

Spec == Init /\ [][Next]_vars

\* Each worker polls every two seconds and runs what it claimed; handlers run
\* their statements.  Nobody has to create, archive, resolve, retry or purge.
Fairness ==
    /\ \A w \in Workers : WF_vars(WorkerStep(w)) /\ WF_vars(\E t \in Tasks : Claim(w, t))
    /\ \A h \in Handlers : WF_vars(HandlerStep(h))
FairSpec == Spec /\ Fairness

-----------------------------------------------------------------------------
(* Properties.                                                               *)

TaskStatus == {"none", "waiting", "failed", "delivered", "canceled", "purged"}

\* Type correctness of the tables and the transactions.
TypeOK ==
    /\ inbox \in [Entries -> [row : {"none", "present", "purged"}, marks : SUBSET Marks]]
    /\ task \in [Tasks -> [status : TaskStatus, entry : Entries \union {None}, attempts : Nat,
                           log : Logs \union {None}]]
    /\ log \in [Logs -> {"none", "pending", "success", "failed", "skipped"}]
    /\ \A s \in Sessions : tx[s].task \in Tasks \union {None} /\ tx[s].entries \subseteq Entries

\* Automatic attempts stop: a task is tried MaxAttempts times, and once more for
\* each manual retry, whatever crashes and races happen.
AttemptsBounded == \A t \in Tasks : task[t].attempts <= MaxAttempts + retries[t]

InFlight(t) == {w \in Workers : tx[w].task = t /\ tx[w].step = "reached"}

\* Delivery is at least once and duplicates are explained: a delivered task was
\* announced, and every announcement is a recorded attempt of its task, or one
\* about to be recorded, or one whose transaction broke off.
PublicationsAccounted == \A t \in Tasks :
    /\ task[t].status = "delivered" => published[t] >= 1
    /\ task[t].status # "purged" =>
          published[t] <= task[t].attempts + Cardinality(InFlight(t)) + lost[t]

\* What a log says is what became of its task.
LogsTellOutcome == \A t \in Tasks : task[t].log # None =>
    LET said == log[task[t].log] IN
    /\ task[t].status = "waiting" => said \in {"pending", "failed"}
    /\ task[t].status = "failed" => said = "failed"
    /\ task[t].status = "delivered" => said = "success"
    /\ task[t].status = "canceled" => said = "skipped"

\* Retention never removes a message that a task still has to announce.
LiveTasksHaveReceipts == \A t \in Tasks :
    Live(t) /\ task[t].entry # None => inbox[task[t].entry].row = "present"

WaitsFor(s, r) == \E row \in FirstRow(tx[s].todo) : row \in tx[r].held
\* Resolution and retry lock inbox rows before outbox rows, each in order of id,
\* so no set of sessions waits for itself and none needs PostgreSQL's detector.
\* (Workers skip what is locked and never wait.)
NoLockCycle == ~ \E C \in (SUBSET Handlers) \ {{}} : \A s \in C : \E r \in C : WaitsFor(s, r)

\* Once a resolution is committed, its message is not announced any more.
ResolvedNeverPublished == [][\A t \in Tasks :
    published'[t] > published[t] /\ task[t].entry # None
        => "resolved" \notin inbox[task[t].entry].marks]_vars

\* Every task that waits is eventually delivered, canceled or paused.
TasksSettle == \A t \in Tasks : task[t].status = "waiting" ~> task[t].status # "waiting"

\* A message that is closed does not keep a task in the queue, not even a paused
\* one.
InactiveReleased == \A t \in Tasks : (Live(t) /\ Inactive(t)) ~> ~Live(t)

=============================================================================
