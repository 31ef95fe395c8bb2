# Verification of the ERP/MES system: issuance, shipments, notifications, scanning, attendance

This directory is a TLA+ development about this repository: the Go server
(`src/server`), the attendance gateway in front of it (`src/attendance-gateway`), and
the parts of the TypeScript client (`src/src`) that keep work of their own through
lost networks, reloads and expired sessions.  It models the
parts whose correctness depends on the order in which concurrent requests,
callbacks, retries, crashes and workers act, checks them with TLC on small
instances, and proves the safety properties and two refinements with
TLAPS for every value of the constants.

Contents: (1) the system and its parts, (2) the modules and how they correspond
to the code, (3) the runs, their bounds and fairness, (4) findings, (5) proofs,
(6) what is abstracted or not modelled, (7) what could follow.

`tlc -workers 2 -config X.cfg M` runs a configuration, `tlapm M_proofs.tla` checks
the proofs about module `M`.

## 1. The system

A Go server (Gin handlers, GORM over PostgreSQL, Redis for hints, WebSocket hub)
serves a React client.  All business state is in PostgreSQL.  An HTTP handler
runs one transaction per command; several API instances run the same handlers
and the same background workers, so everything below is concurrent.  Two
isolation regimes are in use:

* SERIALIZABLE for material issuance documents (a serialization conflict is
  rolled back and reported as `ErrBasisChanged`);
* READ COMMITTED with explicit row locks (`clause.Locking{Strength: "UPDATE"}`)
  everywhere else, with some reads made *without* a lock.

| Component | State | Operations | Hard behaviour | What makes it correct |
|---|---|---|---|---|
| Production material issuance (`production_material_issuance_*.go`) | documents with frozen source snapshots, active coverage of order lines, confirmed movements and allocations, command receipts | source review, dispatch, withdrawal, warehouse ISSUE / SUPPLEMENT / RETURN | stale reviewed basis, overlapping dispatches, withdrawal against confirmation, lost answers and retries, returns at original cost | one active document per line; the order keeps what was frozen; a command acts once and replays answer with its own receipt; quantity and value conserved |
| Sales order commands (`sales_transaction_service.go`, `sales_order_*.go`) | order header, version, status, lines | save, confirm, cancel, delete, customer change, derived status | edits of covered lines, status derived from unlocked reads | covered lines are protected; cancellation is final; status reflects deliveries |
| Inventory ledger and shipments (`inventory_command_service.go`, `sales_fulfillment_service.go`) | inventory records (quantity, value), shipments, delivered quantities | receipt, draft, patch, commit, void | five tables written under locks taken in different orders; unlocked checks | ledger balances; delivered quantities match shipments; which requests can deadlock is known |
| Workflow notification delivery (`workflow_notification_outbox_delivery_service.go`, `system_notification_*.go`) | inbox messages, outbox tasks, rule execution logs | create, archive, expire, resolve, retry, claim / publish / record, retention | several polling workers, publication outside of the transaction, crashes after publishing, manual retries | every announcement explained, attempts bounded, log tells the outcome, resolved messages silent, retention safe |
| Offline sync and stocktake (`offline-sync/`, `features/warehouse/stocktake/offline`) | rows and conflict records in IndexedDB, the engine's cycle flags | submit a scan or patch, flush by the engine or by a button, discard or retry a conflict | submissions and flushes settle the same row, lost answers, reloads between two writes, versions read earlier | stored work is sent or shown, never stuck; counted or taken twice only when an answer was lost or two senders held it |
| Production scan client (`features/scan-platform/services`) and request receipts (`production_execution_command_request_replay.go`) | keys of unsettled commands in memory and sessionStorage, requests in flight; receipts | execute, repeat, reload; execute or replay | timeouts with the request still under way, expired session, storage that is not there | a command has one key and is executed at most once |
| API client and session (`lib/api-client.ts`, `main.tsx`, `stores/auth-store.ts`) | circuit breaker, access token | every request; sign-in, sign-out, 401 | answers of earlier sessions, failures of unrelated requests | an open breaker admits again; an old answer does not end a new session |
| Approval requests (`approval_service.go`) | requests, levels, decisions, authorization codes | submit, decide, verify | concurrent decisions, expiry | not modelled |
| Attendance gateway (`src/attendance-gateway`) and ingestion (`attendance_event_service.go`) | queue and dead-letter files, attempts; rows of `attendance_events` | receive, send, enqueue, retry, bury; look for an event, insert it | stop or disk error between two file operations, lost or late answers, batches taken in part, full queue, a batch that keeps failing before others | an accepted punch is recorded or kept in a file; retries are bounded; waiting batches are taken in turn; the queue drains |
| Geometry parse queue (`vehicle_model_template_geometry_parser_worker.go`) | parse tasks | claim, run, retry, fail | crash of a worker that has claimed | not modelled |
| Cutting and outsourcing, purchasing, returns and exchanges, vouchers, numbering, search, exchange rates, label capture, middleware, PDA shell queue, screens | see `PROJECT.json` | | | not modelled, reasons in `PROJECT.json` |

Interactions.  A dispatch of an issuance document reads sales orders, their
lines and the released recipes and freezes them; from then on every sales-order
command consults the coverage table before it writes.  Warehouse confirmations
move stock between two custody categories of the inventory ledger.  Shipments
take from the same ledger, add to a line's delivered quantity and re-derive the
order's status, which in turn decides whether the order may be canceled or
dispatched.  Business transactions create inbox messages and outbox tasks inside
themselves (transactional outbox); workers publish them to Redis, which the
WebSocket hub fans out as refresh hints.  The gateway posts batches of punches to the ERP and keeps
what it could not deliver as files; its retry loop and its handlers share the store's
mutex, and nothing tells the ERP that a batch is a repetition but the punches in it.
In the client, every request goes through
`apiFetch`, so the breaker and the session couple all of them: a failed list query
can hold back a scan, and a query's 401 ends the session of a command.

## 2. Modules

| Module | What it models |
|---|---|
| `MaterialIssuance` | documents, coverage, receipts, movements, custody, and the order edits they hold off; one action per transaction |
| `MaterialIssuance_proofs`, `MaterialIssuanceSums_proofs` | theorems about `MaterialIssuance`; the second about what it adds up |
| `InventoryShipment` | shipments, draft patches, receipts, cancellations; one action per SQL statement that can interleave |
| `AtomicShipments` | the abstract promise `InventoryShipment` implements: every request acts at once or not at all |
| `InventoryShipment_proofs` | theorems about `InventoryShipment`, the refinement included |
| `NotificationDelivery` | inbox, outbox, logs; one action per interleavable statement of workers and handlers |
| `NotificationDelivery_proofs` | theorems about `NotificationDelivery` |
| `OfflineStocktake` | stored rows, submissions, flushes, the engine's cycles, the network, reloads and the server's versions; one action per piece of code between two awaits that matter |
| `OfflineStocktake_proofs` | theorems about `OfflineStocktake` |
| `ApiClient` | the breaker and the session of one page, as the ends of requests change them |
| `ScanCommands` | extends `ApiClient` with the scan client, its stored keys and the server's receipts |
| `CommandOnce` | the abstract promise `ScanCommands` implements: executed at most once, acknowledged only when executed |
| `ScanCommands_proofs` | theorems about `ScanCommands`, the refinement included |
| `AttendanceGateway` | handlers, file queue and retry loop of the gateway with the ERP's ingestion; one action per file operation or SQL statement |
| `AttendanceGateway_proofs` | theorems about `AttendanceGateway` |
| `FiniteSums` | lemmas about sums over finite sets, cited by the proofs that count or add up |
| `MCMaterialIssuance`, `MCInventoryShipment`, `MCNotificationDelivery`, `MCOfflineStocktake`, `MCScanCommands`, `MCAttendanceGateway` | values of the constants, symmetry and constraints for TLC |

Definitions beginning with a comment `Mutant` are plausible bugs of the
definition that follows them.  No specification uses them; replacing the
definition by one makes the property named in `PROJECT.json` fail, which shows
that the property depends on that piece of code.

### MaterialIssuance

Granularity.  Document commands run SERIALIZABLE, so concurrent executions are
equivalent to some order of whole transactions; order commands lock the order
row for their whole transaction, and coverage is checked inside of it.  Both are
therefore single actions, and what interleaves is what really does: requests of
many clients, the time between a review and the dispatch that trusts it, lost
answers and repeated commands.  A rejected request rolls back and is a stutter.

| Definition | Code |
|---|---|
| `ReviewSource`, `Reviewable`, `CurrentBasis` | source review and frozen basis service |
| `Dispatch`, `Withdraw`, `Complete`, `Replay` | document dispatch, withdrawal and idempotency service |
| `Confirm`, `AllocationAccepted`, `ReturnsOriginal`, `WithinStandard` | versioned warehouse confirmation service |
| `MovedValue`, `CanTransfer`, `CustodyTransfer` | custody transfer and original-cost return adapter |
| `CoverageAllows`, `WriteOrder` | active coverage order mutation guard, and the order commands that call it |
| `ConfirmOrder` ... `ProgressOrder` | `sales_transaction_service.go`, `order_master_service.go`, status derivation |
| `ReceiveStock` | `recordInboundTx` |

`cover` is the active-coverage table, `receipt` the command receipts keyed by
actor and command id, `moves` the confirmed movements in version order, `stock`
and `pending` the balances of the categories MATERIAL and
PRODUCTION_MATERIAL_PENDING_CONSUMPTION.  A recipe is a partial function of the
materials: a document has a row (`HasRow`) for each material its frozen basis lists, one
of quantity 0 included, which can be supplemented only.  `answer` (what a client has last
seen) and `received` (what came in) are history.

### InventoryShipment

A transaction is a record in `tx`: the request, the rows still to lock, the rows
held, and what it has read.  It locks one row per step (`Lock`), reads stock
under the lock but the shipment's status (`CheckDraft`) and the order
(`ReadOrder`) without, and publishes all of its writes in its last step
(`FinishCommit`, `FinishVoid`, `FinishCancel`).  `Rollback` may strike between any
two statements: crash, lost client, deadlock victim.  `ClientsSerialize` is an
assumption on the environment, not on the code: when TRUE, clients never have a
commit of a draft overlap another commit or a patch of that draft.  The runs say
which value they use.

`ActsAtomically` is the refinement of `AtomicShipments`.  Stock and deliveries are
mapped to themselves, the order's status to whether it is canceled, and all of `tx` is
hidden: the linearization point of a request is its last statement.  One thing is
mapped (`SeenShipments`): a draft that is voided while a commit of it runs stays a
draft until that commit ends.  If the commit is given up, the void takes effect
then; if it succeeds, the void never did (see the findings).

`WaitsFor` reads the lock queues of PostgreSQL from `tx`, and `Deadlocks` are the circles in
it.  A commit locks stock, shipment, line and order; a void the shipment, then stock, line
and order (`VoidRows`); a cancellation the order, then its lines (`CancelRows`).
`DeadlocksExplained` says which circles can close: only a cancellation that meets a delivery of
its own order and, where clients overlap two commits of a draft, the late commit and a void
of what the early one committed.  PostgreSQL breaks a circle by rolling a member back
(`Rollback`, which any transaction may suffer), and the code does not try again.

### NotificationDelivery

Workers claim a task with `FOR UPDATE SKIP LOCKED` (`Claim`), look at the message
without a lock (`CheckActive`), publish to Redis outside of the database
(`Publish`: the hint may arrive while the worker sees a failure), and record the
outcome (`Record`).  Resolution locks messages, then their tasks; manual retry
locks the message, then the task; retention deletes rows nobody holds (rows it
cannot have yet are left for a later pass).  `Crash` breaks any transaction off.

### OfflineStocktake

One browser tab; JavaScript interleaves only at awaits.  `delta` is the state of
each operation's row in `pendingDeltas` and `conflict` its record; a *sender* is a
submission (`submitScan`, `submitPatchItem`), or a flush of scans or patches by the
engine's adapter, or the flush behind the screen's button, which calls the adapter past
the engine.  `call` is the request a sender waits for, `ghosts` the requests that were given
up and may still be served.

| Definition | Code |
|---|---|
| `Submit`, `Store`, `SendNow`, `LeaveQueued`, `ScanSubmitted`, `PatchSubmitted` | `submitScan`, `submitPatchItem` |
| `Pause`, `StoreNow` | `useMutation` with its default networkMode |
| `ReadQueued`, `SendBatch`, `ScansFlushed`, `PatchFlushed` | `flushQueuedScansInternal`, `flushQueuedPatchesInternal` |
| `FlushAllAdapters`, `FinishCycle`, `GoOnline`, `StartedFlushes` | `offline-sync-engine.ts` |
| `ResolveConflict`, `ReadLatestItem`, `CloseForRetry` | `resolveConflict`, `retryConflictAfterRefresh` |
| `ShouldQueue`, `LoseAnswer`, `Blocked` | `shouldQueueOffline`, the ends of `apiFetch` |
| `Outcome`, `Apply` | the three handlers of `warehouse_master_service.go` |

An item's version is kept as the set `fresh` of the patches whose base version is
the present one; every write of the item empties it.  `doubtful` collects the
operations of which an answer was lost, or that two senders held at a time:
what the properties promise of the others.

### ApiClient, ScanCommands, CommandOnce

`memory` and `stored` are the map of unsettled keys in the page and in
sessionStorage (`storage` says whether the browser grants it), `awaits` the request
in flight of each content, `request` and `status` every request ever sent, because a request
that timed out may reach the server after any number of later ones.  A command is
<<content, n>>, the n-th time that an operator *means* this content: repeating a
content that no answer has settled is the same command, and a page without
sessionStorage that is reloaded forgets, so that what its operator scans next is
a new one.  `Receive` is the whole of `execute` after `apiFetch`: the breaker, the
session, the key and what the operator is told.  `Elsewhere` is the rest of the
application, which shares the breaker and the session.  `AtMostOnce` is the
refinement: `executed` and `told` of `ScanCommands` behave as `CommandOnce` says.

`doubtful` are the commands of which a request was given up (timeout, failed fetch, reload,
an answer that could not be read) or was answered 5xx although it was carried out.
`RefusedMeansNotExecuted` is about the others: a refusal comes with a rollback of what the
command wrote and of its receipt.  Of a command in doubt a refusal says little, and the code
cannot tell: the request that was given up may be carried out before or after another one of
the same key is refused, while `execute` releases the key on any refusal
(`production-scan-command-service.ts:206`).  Its operator is then told that nothing was done,
and a new confirmation is a new command.  `CommandOnce` allows this and no property excludes it.

### AttendanceGateway

The loop's work is `todo` (listed, not yet come to), `item` and `step`; a batch's handler
is at `handler[b]`.  `stored` are the batches with a file, `dead` the dead letters.
`requests` are those the ERP has: the one of the last sending may be awaited, others
(`Strays`) go on although their client gave up, so requests of one batch overlap.
`cut`, `sends` and `overtaken` (how often the loop came to another batch since it came to this
one, or since this one was stored) are history.

| Definition | Code |
|---|---|
| `Handle`, `Forward`, `EnqueueFails` | `HandleEvents` |
| `Enqueue`, `Room` | `Store.Enqueue`, under the mutex that `Rewriting` says the loop holds |
| `List`, `Retry`, `Retried`, `Advance` | `retryLoop`, `retryPending`: the files that are there, the oldest first |
| `ListPartly` | the directory, or some of the files, cannot be read in this pass |
| `Remove`, `RecordFailure`, `MoveToDead`, `Write` | the store's operations, a removal and a write each an action of its own |
| `FileFails`, `Restart` | a file operation that fails; the process stopped at any point and started again, perhaps with the device disabled |
| `Post`, `Ends`, `Abandon` | `erp.Client.post`: an answer, or the timeout, or the end of the context |
| `Look`, `Insert`, `Answer`, `Known` | `persistAttendanceEvent` and `IngestAttendanceEvents` |

`Near` relates the punches that the device's window takes for the same.  It is not
transitive, so what is recorded depends on the order of arrival; the properties promise that
a punch *or one near it* is recorded, which is all the ERP promises.

## 3. Runs

| Run | Question | Properties | Instance |
|---|---|---|---|
| `issuance_orders` | do coverage and replays survive order edits? | `CoverageExact` `FrozenSourceProtected` `AnswersMatchReceipts` | 1 order of 2 lines, 2 customers, 2 specs, 2 documents, 3 commands, 4 order versions; no stock |
| `issuance_warehouse` | do movements conserve and bound quantity and value? | `TypeOK` `VersionCountsHistory` `ReceiptsMatchEffects` `AllocationsBounded` `CustodyConserved` `PendingBacksOutstanding` | 2 lines, 2 recipes, 1 batch received twice at different costs, 2 documents, 4 commands |
| `shipments` | does the ledger balance, does each request act at once, and which can deadlock? | `TypeOK` `StockAccounted` `DeliveredAccounted` `DeadlocksExplained` `ActsAtomically` | 3 shipments of 1 line and 1 record, 3 handlers, `ClientsSerialize` |
| `shipment_double_commit` | is only a draft committed? (violated) | `CommitsOnlyDrafts` | clients may overlap |
| `shipment_lost_fulfilment` | does the status reflect deliveries over two lines? (violated) | `FulfilmentReflected` | 2 lines, 2 records, serialized clients |
| `notifications` | are announcements, logs, retention and the order of locks right? | `TypeOK` `AttemptsBounded` `PublicationsAccounted` `LogsTellOutcome` `LiveTasksHaveReceipts` `ResolvedNeverPublished` `NoLockCycle` | 1 message, 2 tasks, 1 log, 2 workers, 2 handlers, 1 crash; or 2 messages and 2 handlers alone |
| `notifications_end` | does the queue drain? | `TasksSettle` `InactiveReleased` | 1 message, 2 tasks, 1 worker, 1 handler, 1 crash, fairness |
| `offline_stocktake` | is stored work sent, shown, and not taken twice? | `TypeOK` `ScansAccounted` `DoubleCountOnlyInDoubt` `PatchTakenOnce` `ConflictRowsResolvable` `SyncingRowsAreSent` `ClosedPatchStaysOut` `AskedFlushSends` | 2 scans of one task, or a patch and its retry, 3 flushes, 2 faults, fairness |
| `scan_commands` | is a command executed at most once, and settled? | `OneKeyPerCommand` `RefusedMeansNotExecuted` `AtMostOnce` `CommandSettles` | 2 contents, 2 keys, threshold 2, 2 faults, with and without sessionStorage, fairness |
| `attendance_gateway` | are accepted punches kept, and retries bounded? | `TypeOK` `AcceptedAccounted` `SendsBounded` | 2 batches of 2 punches that share one, a queue of 1, 2 attempts, 2 faults, 1 stray request |
| `attendance_queue` | does a batch that fails hold up the others, and does the queue drain? | `TakenInTurn` `QueueDrains` | 3 batches of 1 punch, a queue of 2, 3 attempts, 1 fault, fairness |
| `session_old_answer` | does an old answer leave the new session alone? (violated) | `OldAnswersKeepSession` | 1 content, 2 keys, 2 faults |

Bounds, and why they are enough for the question asked:

* `MaxOrderVersion` = 4 in `issuance_orders`: confirm, dispatch, and two more edits
  (change and change back, or cancel and delete) fit.  Two lines and two documents
  give overlapping dispatches, partial withdrawals and re-dispatches; three
  commands give two effects and a reused id.  `Batches` is empty there, so the
  warehouse part is inert; it is the subject of the other run.
* `issuance_warehouse`: `MaxReceived` = 3 allows both receipts (2 for 2 and 1 for
  4), so the average cost changes between an issue and its return; `MaxAllocQty`
  and `MaxAllocs` = 2 allow partial and split allocations; four commands allow a
  dispatch and three movements, or two documents with one movement each.  `WarehouseFocus`
  bounds the run to orders that are only confirmed and to clients that lose all
  answers; replays and order edits are the other run's subject.
* Shipments: three handlers are needed for a commit, a void and a cancellation to
  meet, and for a circle of three; a line ordered 2 with drafts of 1 or 2 can be partly, fully and
  over-delivered.
* Notifications: `MaxAttempts` = 2 stands for the code's twelve (first failure,
  last failure and beyond, with a retry); `MaxRetries` = 1 and `OneMessage`
  bound manual retries to one task; `MaxCrashes` = 1.  `OneMessageOrLocks` splits the run:
  either only the first message is created and everything may happen to it, or two
  messages are, the second of which may expire, and only handlers act, which is where
  locks can be waited for (workers skip locked rows).
* `offline_stocktake`: `MaxFaults` = 2 bounds lost answers, refusals of the breaker, losses
  of the network and reloads together.  Two scans of one task make a bulk request, a patch
  and its retry a conflict, its closing and a second version.  Three constraints
  cut the product down: scans and patches are submitted in behaviours of their own (`Apart`;
  they meet only in the item's version, which `WriteElsewhere` moves as well), the second patch
  only as a retry of the first (`RetryOnly`), and two faults only among the steps of one
  operation (`FewerFaults`).  `applied` counts to 2, which is what the properties tell
  apart.  The proofs of the safety properties need none of the three constraints.
* `scan_commands`: two keys allow two commands of one content or one of each of two;
  `MaxFaults` = 2 allows a lost answer followed by a reload, an expired session or a second
  failure, and opens the breaker at `Threshold` = 2 (10 in production builds).  Requests are bounded by
  `MaxKeys * (MaxFaults + 1)`, more than the faults let any run send.
* `attendance_gateway`: `MaxFaults` = 2 bounds restarts and failing file operations
  together, so a stop may follow a disk error; two attempts give a first and a last failure.
  The queue of one file makes the second batch meet a full queue and a file that is being
  rewritten; a longer one is the other run's subject. One stray request is enough to overlap with
  an awaited one of the same batch or of the other.
* `attendance_queue`: with three batches and two files the loop always may have one in hand,
  one listed behind it, and one that comes in behind both. Three attempts let the oldest fail,
  keep its place, and fail again before it is given up, so the bound of `TakenInTurn` is reached (with
  1 for 2 the run fails). What the ERP makes of punches, late requests and a second
  fault are the other run's subject; of `TakenInTurn` all this is proved.
* Symmetry permutes documents, commands, handlers, workers or shipments, and only
  in runs without liveness.  `CHECK_DEADLOCK FALSE`: every system here stops
  once the bounds are used up and every document, shipment, task, scan, command or
  batch is final.

Fairness.

* `notifications_end`: weak fairness of the claim (the worker polls every two
  seconds), of the worker's steps (each has a timeout) and of the handlers'
  statements.  Nobody has to create, archive, resolve, retry or purge.  A run of
  endless crashes is excluded by `MaxCrashes`, not by fairness.
* `offline_stocktake`: weak fairness of each flush (its callbacks run, and its
  request ends, by an answer or the timeout of `apiFetch`) and of `FinishCycle`.  Nothing is
  assumed of submissions, of the user, or of the network coming back.
* `attendance_queue`: weak fairness of the retry loop's own steps: its ticker fires, and
  each request ends, by an answer or the client's timeout.  Nothing is assumed of the ERP, the
  device and the handlers; a run of endless faults is excluded by `MaxFaults`.
* `scan_commands`: a promise to an operator who repeats what is not settled.  Weak
  fairness of `Round` (repeat, serve, receive) per content, of the breaker's time
  (`Unlock`), of signing in again (`Return`) and of the page that leaves for the
  sign-in page (`Leave`).  That the server does not fail for ever is `MaxFaults`,
  not fairness.

## 4. Findings

These are properties the repository states itself; the runs give the schedule.

1. `shipment_double_commit`.  `commitShipmentRecordTx` checks the status without a
   lock and later sets COMMITTED unconditionally: two overlapping commits of one
   draft both succeed and deduct the stock twice.
2. `shipment_lost_fulfilment`.  `RecalculateSalesOrderStatusTx` reads the order's
   lines without a lock: the last two shipments, of different lines, each miss the
   other's delivery and the order stays InProgress although all is delivered.

3. `session_old_answer`.  The QueryCache resets the session on a 401 of any query
   (`main.tsx:174`), while the comment in `handleUnauthorizedSession` says that such a response
   "belongs to that older session".  Sign out, sign in, and a query of the
   first session that is answered late ends the second.

Observed while modelling, without a run of its own:

* The stocktake adapter's header says every scan is stored first and that its
  opId prevents duplicate syncing.  `useMutation` keeps its default networkMode, so in an
  offline browser a mutation is paused before anything is stored (`Pause`); a
  reload then loses it (state "lost").  The opId is never sent, so the server cannot tell a
  repetition: `DoubleCountOnlyInDoubt` says exactly when a scan may count twice.
* `apiFetch` words a failed fetch "[NETWORK_ERROR] ...", which `shouldQueueOffline`
  does not match: while `navigator.onLine` is true, a network error drops a scan (the user
  is told) and turns a patch into a conflict.
* A reload while rows are "syncing" strands them (`orphans`): no flush reads that state.
* Queued work is sent again by the "online" event, a start or a button only, although the
  messages promise it will be when the network recovers: a timeout alone starts no flush.
* A scan key outlives a sign-out, so another user of the tab who confirms the same content
  is answered with the first one's receipt.

* A stop of the gateway, or a disk error, between `RecordFailure`'s removal of a queue
  file and its new version loses the batch (`cut`), and the error is ignored
  (`gateway.go:369`).  `main` waits for the HTTP server at shutdown, not for the retry
  loop or the bridge, so any stop may fall there.
* A punch that no employee matches is stored with an empty string in `employee_id`, a uuid
  column (`attendance_event_service.go:397`); tests use SQLite, which takes it.  If
  PostgreSQL refuses it, its batch fails until it is a dead letter; the model allows this
  (an error at any time).
* A status report that waited in the queue is sent again when newer ones have been, and
  overwrites them at the ERP; a new batch overtakes queued ones as well, which does no harm.

* A draft that is voided while a commit of it waits for the stock record is committed all
  the same: the void locks and re-reads the row, but the commit writes COMMITTED without a
  condition (`inventory_command_service.go:697`).  Who voided it was told that it is void.
  `SeenShipments` says what this comes to: the void did not happen.  The ledger still balances.

The passing shipment run assumes `ClientsSerialize` because of the first finding; because
of the second it does not check `FulfilmentReflected`.

## 5. Proofs

Every safety invariant and action property that a passing run checks is stated by a
theorem, and so are both refinements.  Theorems that no run checks are marked as
proved only.

`MaterialIssuance_proofs` and, for `AllocationsAreBounded` and `PendingIsBacked`,
`MaterialIssuanceSums_proofs` prove, for every value of the constants that satisfies
`ConstantsAssumption`:

| Theorem | Statement |
|---|---|
| `TypeCorrect` | `Spec => []TypeOK`: in particular no custody balance is ever negative |
| `CoverageIsExact` | `Spec => []CoverageExact` |
| `FrozenSourcesProtected` | `Spec => []FrozenSourceProtected` |
| `VersionsCountHistory` | `Spec => []VersionCountsHistory` |
| `CustodyIsConserved` | `Spec => []CustodyConserved` |
| `AnswersAreReceipts` | `Spec => []AnswersMatchReceipts` |
| `ReceiptsNameEffects` | `NoneIsNoReceipt` implies `Spec => []ReceiptsMatchEffects` |
| `AllocationsAreBounded` | `Spec => []AllocationsBounded` |
| `PendingIsBacked` | `Spec => []PendingBacksOutstanding` |
| `HistoryIsAppendOnly` | `Spec => HistoryAppendOnly`; proved only, no run checks it |

The argument is a chain of inductive invariants.  `TypeInv` (types of orders,
documents, receipts and stock; stronger than `TypeOK`, because it says that
`moves` are sequences of a set and what the parts of a receipt are) is inductive
by itself: that no balance goes negative rests on `CanTransfer`, and that
movements are well typed on `ConfirmMoves`.  Relative to `TypeInv`,
`CoverageExact` is inductive: a dispatch takes only uncovered lines and a
withdrawal requires that the coverage it removes is all of its own.  Relative to
both, `FrozenSourceProtected` is inductive: when a line becomes covered, the
re-review has just compared the basis with the current order (`BasisUnchanged`),
and afterwards every order command passes `CoverageAllows`, whose `basis` is
that of the document that `CoverageExact` names.  `VersionCountsHistory`,
`CustodyConserved` and `AnswersMatchReceipts` are inductive relative to `TypeInv`, and
`ReceiptsMatchEffects` relative to `VersionCountsHistory` as well, once it says that
the effect a receipt names is one of a document that exists (`ReceiptsInv`).  Lemmas
about single actions (`OrderCommandWrites`, `DispatchFreezes`, `CustodyTransferTypes`,
`ConfirmMoves`, `DocumentSteps`) say once what an action does and are cited by every
invariant that needs it.

The two sums follow histories: a confirmation appends one movement, and each quantity
that is summed (`Part`, `LeftOf`, `DueOf`, `DueValue`) grows by what the movement carries or
shrinks by what it returns.  `AllocInv` says that every return points at an allocation
that was issued before and takes no more than is left of it (`Traced`), and that a row
is within its requirement (`RowsWithin`); it comes from `ReturnsOriginal` and
`WithinStandard`.  `PendingInv` adds that each movement has one unit cost per batch
(`Costed`), which `Exact` makes an integer: a return at the original's unit cost
takes from the pending value precisely what its issue put there, whatever the average has
become.  `FiniteSums` has what both need: a sum over a finite set changes by the change
of one term, or by those of finitely many (`SumSpread`).  Its lemmas are inductions
over finite sets, written as minimal counterexamples because the library states of sets,
not of operators, that the order of finite subsets is well founded.

Assumptions: those on the constants, and for `ReceiptsNameEffects` that `None` is no
receipt.  Documents are finitely many, which the sum over them presupposes, and so are the
allocations of a request; nothing is assumed about the number of orders, lines, commands
or batches.

`InventoryShipment_proofs` proves, for every value of the constants that satisfies
`ShipmentConstants` (an order has finitely many lines; any number of handlers), and
whether or not clients serialize their requests:

| Theorem | Statement |
|---|---|
| `Inductive` | `Spec => []IInv`, the inductive invariant of the module |
| `TypesCorrect` | `Spec => []TypeOK`: no balance and no delivered quantity is negative |
| `CancellationIsFinal` | `Spec => CancelIsFinal`; no run checks it by itself, `ActsAtomically` contains it |
| `UpdatesAreNotLost` | `Spec => []NoLostUpdate`; proved only, no run checks it |
| `LocksAreExclusive` | `Spec => []LocksExclusive`; proved only, no run checks it |
| `LocksTakeTurns` | `Spec => []LockTurns`, the invariant behind the next; proved only |
| `DeadlocksAreExplained` | `Spec => []DeadlocksExplained`; the run checks it where clients serialize, so the late commit is in the proof alone |

`IInv` says of every transaction which rows it holds or has yet to lock
(`LineRowsOK`, `StockOK`), and what it has read that still holds.  A commit or void
locks the row of its line before it reads the order; a cancellation ends holding the
rows of all lines.  As locks are exclusive, no order is canceled between the read and
the write of the status derived from it (`ReadHolds`), which is `CancellationIsFinal`.
In the same way the lock of the stock record keeps the balance read under it current
(`BalanceHolds`), and a commit that went on found enough there; that the cost of a part
is at most the value of the whole (`CostIsBounded`) does the rest of `TypesCorrect`.

`LockTurns` says of every transaction which rows it can hold while it waits for which: each
request locks its rows in turn, and the order row only after all else, or first.  So take a
circle without one of the two pairs.  Nobody in it waits for an order: only a cancellation
holds one and goes on waiting.  Hence nobody waits for a line, whose holder would wait
for its order; hence nobody for a shipment, whose holder is a void of it (then the waiter is
the late commit, which `ClientsSerialize` excludes by `ShipmentHolds`) or waits for a line; and
hence nobody for a stock record, whose holder would wait for one of these.  It rests on the
assumption that `None` is no order status.

And under the hypothesis `ClientsSerialize`:

| Theorem | Statement |
|---|---|
| `LedgerInductive` | `Spec => []LedgerInv`, the inductive invariant of the ledger |
| `LedgerBalances` | `Spec => []StockAccounted` |
| `DeliveriesBalance` | `Spec => []DeliveredAccounted` |
| `ImplementsAtomic` | `Spec => ActsAtomically`: `InventoryShipment` implements `AtomicShipments` |

The hypothesis is needed: the first finding is a behaviour without it that breaks all
three.  It gives `OneCommit`, and with that the record a commit has read is the stored
one, but for a void of the draft in between (`ShipmentHolds`), so that a shipment is added
to the committed ones once; a void holds the row of its shipment from the start.  The sums
then change by one term (`OutGrows`), with stock and deliveries by the same amount
because the balance read under the lock is current.  That a void takes no more from a line
than it has delivered (`DeliveredEnough`) follows from the sum, which is why the code's
guard against negative quantities is never needed.  For the refinement one lemma per
kind of step says which abstract step it is: the last statement of a commit, void or
cancellation is `Commit`, `Void` or `Cancel`, single-row transactions are themselves, and
all other statements stutter, but that giving up a commit whose draft was voided is
`VoidDraft`.  `AtomicShipments` leaves out two things on purpose: which status an order has
beyond canceled (the second finding), and that an order with deliveries is not canceled.
The code does not guarantee the latter: with two lines, a stale Done lets the void of
one line write Pending while the other line is being delivered, and a cancellation that
began on that Pending goes through after the delivery.

`ScanCommands_proofs` proves, for every value of the constants that satisfies
`ClientConstants` and `ScanConstants`:

| Theorem | Statement |
|---|---|
| `Inductive` | `Spec => []IInv`, the inductive invariant of the module |
| `TypesCorrect` | `Spec => []TypeOK`; proved only, no run checks it |
| `OneKey` | `Spec => []OneKeyPerCommand` |
| `RefusedNotExecuted` | `Spec => []RefusedMeansNotExecuted` |
| `ImplementsOnce` | `Spec => AtMostOnce`: `ScanCommands` implements `CommandOnce` |

`OneKeyPerCommand` is not inductive: that a second key is not drawn rests on what
memory and sessionStorage hold.  `KeyInv` adds that without storage nothing is
stored and with it memory agrees with what is stored (`StorageAgrees`: a reload
then loses nothing), that a remembered key is the key of the open command
(`PendingOwned`) and that the open command's key is remembered (`KeyPending`).
The refinement needs more than the keys: a request carries a key that was drawn
(`RequestsKeyed`), the awaited one the current key (`AwaitedCurrent`), a receipt
exists exactly for an executed command (`ReceiptsExecuted`), only a request that
was executed is answered with success (`OkReceipted`), and a key left behind
after a refusal was refused for certain or is marked doubtful (`OpenUntold`,
`StraysDoubtful`, `ReceiptsTold`).  One lemma per action says what it keeps of each
part.  Under the mapping `Run` is `Execute`, the answer that settles a command is
`Acknowledge` or `Refuse`, and all other steps stutter: repetitions, reloads,
timeouts, the breaker, sign-out and sign-in are invisible to who gave the command.

`AttendanceGateway_proofs` proves, for every value of the constants that satisfies
`GatewayConstants`:

| Theorem | Statement |
|---|---|
| `Inductive` | `Spec => []IInv`, the inductive invariant of the module |
| `TypesCorrect` | `Spec => []TypeOK`, the limit of the queue included |
| `AcceptedAreAccounted` | `Spec => []AcceptedAccounted` |
| `SendsAreBounded` | `Spec => []SendsBounded` |
| `BatchesTakenInTurn` | `Spec => []TakenInTurn` |

`Files` says at which steps of the loop the batch in hand still has its file, `Unqueued` that
a batch whose handler is not done never had one; together they keep a rewritten file's
place (`LimitKept`).  `Passed` says that what a request has gone past is recorded and that
only one that has gone past all its events is answered "ok": so an answer "ok", of the
first sending or of a retry, means a recorded batch (`OkRecorded`), whatever other requests
of it do.  `Counted` charges every sending but the first to a noted failure, to the one
that is under way, or to a fault; a batch that is queued has room for one more failure.
`Turns` bounds what `overtaken` counts by where the loop is: of two batches in the queue, the
second has let the first pass once if the first is not to come (any more) in this pass, and
once more if the second still is; a file that a pass did not list, or that a restart took out of
it, is one fault.  A file keeps its place when it is rewritten, so an older batch goes first in
every pass, but never twice in one.

`NotificationDelivery_proofs` proves, for every value of the constants that satisfies
`NotificationConstants` (finitely many workers and handlers, any number of rows):

| Theorem | Statement |
|---|---|
| `Inductive` | `Spec => []DeliveryInv`, the inductive invariant of the module |
| `TypesCorrect` | `Spec => []TypeOK` |
| `AttemptsAreBounded` | `Spec => []AttemptsBounded` |
| `PublicationsAreAccounted` | `Spec => []PublicationsAccounted` |
| `LogsTellTheOutcome` | `Spec => []LogsTellOutcome` |
| `ReceiptsOfLiveTasks` | `Spec => []LiveTasksHaveReceipts` |
| `ResolvedIsSilent` | `Spec => ResolvedNeverPublished` |
| `LocksNeverCycle` | `Spec => []NoLockCycle` |

Everything rests on the row locks (`TxInv`: what two sessions hold is disjoint, and a
claimed task is held).  Three lemmas say once what a step does to a task, to a message
and to a transaction (`TaskSteps`, `InboxSteps`, `TxSteps`), and every invariant is proved
from them.  From the locks follows `Undisturbed`: a claimed task changes by its worker's
hand only, so it is still as the worker read it (`Working`).  A resolution that found its
tasks has locked, or is going to lock, every live task of its messages (`Resolving`), because
none can be added or revived behind its back; when it commits it holds them all, so no worker
can be about to announce one (`Announcing`).  That is `ResolvedIsSilent`, and it holds
although the worker looks at the message without a lock.  `LogOwners` (no two tasks share a
log) makes each write of a log the business of one task.  `AttemptInv` charges an attempt
beyond the limit to a manual retry, counting those still under way, and `PublishInv` charges
every announcement to a recorded attempt, to one in flight or to a broken transaction.
`LocksNeverCycle` rests on an invariant of its own, `LockOrder`: the rows a transaction
holds come before those it has still to lock, messages before tasks and each by number.  In
a set of sessions that wait for each other, which is finite as the handlers are, one waits
for a row that no awaited row comes after (again a minimal counterexample); but the session
that holds that row waits for a later one.

`OfflineStocktake_proofs` proves, for every value of the constants that satisfies
`OfflineConstants` and `NoneIsNoAnswer`, without any of the run's constraints:

| Theorem | Statement |
|---|---|
| `StocktakeInductive` | `Spec => []StocktakeInv`, the inductive invariant of the module |
| `StocktakeTypes` | `Spec => []TypeOK` |
| `StoredScansAreAccounted` | `Spec => []ScansAccounted` |
| `DoubleCountsAreInDoubt` | `Spec => []DoubleCountOnlyInDoubt` |
| `PatchesAreTakenOnce` | `Spec => []PatchTakenOnce` |
| `ConflictsAreResolvable` | `Spec => []ConflictRowsResolvable` |
| `SyncingRowsAreCarried` | `Spec => []SyncingRowsAreSent` |
| `ClosedPatchesStayOut` | `Spec => ClosedPatchStaysOut` |

The core is `Undoubted`: an operation of which no answer was lost and that no two senders
had in hand is held by at most one sender, no late request carries it, the server has taken
it at most once, and once taken all that is left of it is the answer that says so
(`Answered`).  Every step keeps an operation undoubted or puts it into `doubtful`.  To say so
needs what each kind of sender may have in hand (`SendersInv`: an engine flush exists only
while a cycle runs, a submission carries its own operation only) and that of an operation
not yet stored there is no trace (`EarlyInv`).  A patch taken is not of the item's current
version any more (`VersionInv`), whoever sends it again: that is `PatchesAreTakenOnce`, in
doubt or not.

Only model-checked: liveness (`TasksSettle`, `InactiveReleased`, `QueueDrains`,
`AskedFlushSends`, `CommandSettles`), which needs fairness and ENABLED and is out of the
prover's reach.

## 6. Abstractions, and what is not modelled

* Costs are integers, and `Confirm` only moves amounts whose average cost is exact
  (`Exact`); in `InventoryShipment` the division truncates, and what the shipment
  carries is what the record lost.  Drift of floats and their tolerances is outside.
* `Preload`'s two SELECTs in `RecalculateSalesOrderStatusTx` are taken as one.
* Line status columns, vouchers, audit rows, names, dates and amounts of money are
  left out; Pending stands for Scheduling too.
* Production plans, which also block a cancellation, are outside: any Pending
  order may have none.  Facts that move a derived status may happen at any time.
* `InventoryShipment`: status columns of lines are not modelled, nor is the update of other
  lines whose status differs (`sales_fulfillment_service.go:45-50`), which locks
  their rows after the order's: with the status left behind by production progress a commit
  or void may wait for a line of its order that another one holds.  `DeadlocksExplained` speaks of the
  three requests of the module: transfers, which lock two stock records, and other
  writers of orders are outside of it.
* Read marks of messages are left out: they change a date and queue a refresh
  hint.  Archiving is of one message.  Refresh hints beyond the set `Tasks` are not
  modelled.  Due times and expiry dates are nondeterministic.
* `NotificationDelivery`: a process and its connection end together (`Crash`).  A connection
  that is lost alone frees the row lock while the process may still publish: then a hint may
  follow a resolution.  A transaction resolves once (`StartResolve`); business transactions that
  do so for several sources lock messages and tasks in alternation, and `NoLockCycle` does
  not cover them, nor rows of other tables that they hold.
* `Reserved` reservations are a constant, per category and batch: the adapter subtracts them from
  either source, and no code writes that state.
* `OfflineStocktake`: the sync metadata, the summary and its banner are derived
  for display and left out; `clearConflict` and `submitPdaScan` have no caller.  That
  IndexedDB itself refuses a write is left out, as is a database shared by tabs of
  different builds.  After a reload at most one of the page's requests goes on, where the code
  lets any number: all their operations are doubtful, of which the properties promise
  the same.  A failed fetch that a browser words otherwise than Chrome is queued as a timeout
  is, and stands for one (`ShouldQueue`).  The PDA shell keeps its own queue, which no code here drains.
* `ScanCommands`: no caller passes an idempotency key of its own, so keys are always
  those of the tab.  One tab cannot send one key with two fingerprints, so the
  server's conflict answer is unreachable and left out.  A tab duplicated by the
  browser copies sessionStorage and with it the keys; storage that can be read but
  not written is outside.
* `ApiClient`: an error that is taken for a 401 by its words (`api-client.ts:432`) counts as one;
  the CSRF exchange, caller cancellation (no modelled caller uses it)
  and the separate breaker scope of searches are left out.
* `AttendanceGateway`: a status report takes the way of a batch without events; the health
  columns it writes, counters and HTTP pages are left out, and so is the bridge process, whose
  death costs what it had not handed over.  Validation refuses a batch before it is counted
  as received.  A failure to list or to read is over with the next pass (`ListPartly`);
  that a file is unreadable for ever, and then kept and counted for ever, is not modelled.  All batches are of one device: devices share the
  queue's limit and nothing else.  Mutual exclusion of the store is Go's mutex.
* Parts not modelled, with the reason for each, are in `PROJECT.json`.  Redis,
  PostgreSQL and the WebSocket hub appear only through what the server observes.

## 7. What could follow

Everything described above is complete: nothing in the modules is a stub.  What
the next steps would add, the most important first:

1. `CustodyLedger`, an abstract specification of a batch whose quantity and value
   move between places, and `MaterialIssuance` shown to implement it.
2. `Approval`: levels, concurrent decisions, authorization codes used once.
3. `GeometryParseQueue`: claims, retries and the crash of a worker.
4. The other stock writers in `InventoryShipment`: transfers (opposite lock
   orders), creation of records, bulk sync.
5. An abstract promise of `AttendanceGateway` (an accepted batch is ingested or kept) and of
   `NotificationDelivery`, shown to be implemented as those of scans and shipments are.
