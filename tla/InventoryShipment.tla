--------------------------- MODULE InventoryShipment ---------------------------
(***************************************************************************)
(* Shipments against sales orders: commit and void of a shipment, patches   *)
(* of a draft, inbound receipts and order cancellation, statement by        *)
(* statement, as the READ COMMITTED transactions of many HTTP handlers.      *)
(*                                                                         *)
(* A transaction reads committed state, takes row locks one at a time, keeps *)
(* what it read, and makes its writes visible all at once when it ends; a    *)
(* rollback (crash, lost connection, refusal, deadlock victim) leaves        *)
(* nothing but released locks.  Transactions that lock a single row are one  *)
(* action that waits for that row.  A line's own status column is left out:  *)
(* each writer here sets it with the delivered quantity it follows from, so   *)
(* that a delivery finds no other line to correct (production progress, not   *)
(* modelled, may leave one).  So are vouchers, audit rows, and the inbox rows *)
(* that a change of the order's status locks behind the order's own.          *)
(***************************************************************************)
EXTENDS Naturals, Sequences, FiniteSets, FiniteSetsExt, SequencesExt

CONSTANTS
    Orders, Lines, OrderOf,       \* sales orders, their lines, owner of a line
    Ordered,                      \* ordered quantity of a line
    Shipments, LineOf, BatchOf,   \* shipment records, the line and stock record of each
    Batches,
    Quantities,                   \* quantities a draft may carry
    Receipts, MaxReceived,        \* possible inbound records; bound on their total
    Handlers,                     \* concurrently served requests
    ClientsSerialize,             \* clients never overlap two requests to commit or edit one draft
    None

ASSUME ShipmentConstants ==
    /\ IsFiniteSet(Lines)
    /\ OrderOf \in [Lines -> Orders]
    /\ Ordered \in [Lines -> Nat \ {0}]
    /\ LineOf \in [Shipments -> Lines]
    /\ BatchOf \in [Shipments -> Batches]
    /\ Quantities \subseteq Nat \ {0}
    /\ Receipts \subseteq [qty : Nat, value : Nat]
    /\ MaxReceived \in Nat
    /\ ClientsSerialize \in BOOLEAN
    /\ None \notin {"Pending", "InProgress", "Done", "Canceled"}

VARIABLES
    stock,        \* committed inventory record of each batch: qty, value
    received,     \* history: inbound quantity and value of each batch
    shipment,     \* committed shipment record: status, qty, cogs
    delivered,    \* committed delivered_qty of each line
    orderStatus,  \* committed status of each order
    tx            \* the transaction each handler runs, or Idle

vars == <<stock, received, shipment, delivered, orderStatus, tx>>
tables == <<stock, received, shipment, delivered, orderStatus>>

-----------------------------------------------------------------------------
(* Rows, locks and transactions.                                             *)

StockRow(b) == <<"stock", b>>
ShipmentRow(s) == <<"shipment", s>>
LineRow(l) == <<"line", l>>
OrderRow(o) == <<"order", o>>

LinesOf(o) == {l \in Lines : OrderOf[l] = o}

Zero == [qty |-> 0, value |-> 0]

\* kind: what the request is; target: its shipment (or its order, for a cancel);
\* qty: the shipment quantity it read; balance: the stock it read under lock;
\* todo: rows still to lock, in order; held: rows locked; next: the order status
\* it computed (None before it read the order).
Begin(kind, step, target, qty, todo, held, next) ==
    [kind |-> kind, step |-> step, target |-> target, qty |-> qty, balance |-> Zero,
     todo |-> todo, held |-> held, next |-> next]
Idle == Begin("idle", "done", None, 0, <<>>, {}, None)

Running(kind, target) == \E h \in Handlers : tx[h].kind = kind /\ tx[h].target = target

\* clause.Locking{Strength: "UPDATE"} and every UPDATE statement wait for this.
Free(row) == \A h \in Handlers : row \notin tx[h].held

\* A rollback: whatever the transaction wrote was never visible.
Drop(h) == tx' = [tx EXCEPT ![h] = Idle] /\ UNCHANGED tables

Init ==
    /\ stock = [b \in Batches |-> Zero]
    /\ received = [b \in Batches |-> Zero]
    /\ shipment = [s \in Shipments |-> [status |-> "none", qty |-> 0, cogs |-> 0]]
    /\ delivered = [l \in Lines |-> 0]
    /\ orderStatus = [o \in Orders |-> "Pending"]
    /\ tx = [h \in Handlers |-> Idle]

-----------------------------------------------------------------------------
(* Single-row transactions.                                                  *)

\* recordInboundTx under RecordInbound: one inventory record, locked.
ReceiveStock(b) == \E r \in Receipts :
    /\ Free(StockRow(b))
    /\ received[b].qty + r.qty <= MaxReceived
    /\ stock' = [stock EXCEPT ![b] = [qty |-> @.qty + r.qty, value |-> @.value + r.value]]
    /\ received' = [received EXCEPT ![b] = [qty |-> @.qty + r.qty, value |-> @.value + r.value]]
    /\ UNCHANGED <<shipment, delivered, orderStatus, tx>>

CreateDraft(s) == \E q \in Quantities :
    /\ shipment[s].status = "none"
    /\ shipment' = [shipment EXCEPT ![s] = [status |-> "DRAFT", qty |-> q, cogs |-> 0]]
    /\ UNCHANGED <<stock, received, delivered, orderStatus, tx>>

\* PatchShipmentDraftRecord: the row is locked, re-read and must be a draft.
PatchDraft(s) == \E q \in Quantities \ {shipment[s].qty} :
    /\ Free(ShipmentRow(s))
    /\ shipment[s].status = "DRAFT"
    /\ ClientsSerialize => ~Running("commit", s)
    /\ shipment' = [shipment EXCEPT ![s].qty = q]
    /\ UNCHANGED <<stock, received, delivered, orderStatus, tx>>

\* VoidShipment of a draft touches no other row.
VoidDraft(s) ==
    /\ Free(ShipmentRow(s))
    /\ shipment[s].status = "DRAFT"
    /\ shipment' = [shipment EXCEPT ![s].status = "VOID"]
    /\ UNCHANGED <<stock, received, delivered, orderStatus, tx>>

-----------------------------------------------------------------------------
(* Requests that lock several rows.                                          *)

\* CommitShipment reads the shipment outside of the transaction; that record is
\* the one it commits.
StartCommit(h, s) ==
    /\ tx[h] = Idle
    /\ shipment[s].status = "DRAFT"
    /\ ClientsSerialize => ~Running("commit", s)
    /\ tx' = [tx EXCEPT ![h] = Begin("commit", "check", s, shipment[s].qty,
                <<StockRow(BatchOf[s]), ShipmentRow(s), LineRow(LineOf[s])>>, {}, None)]
    /\ UNCHANGED tables

\* commitShipmentRecordTx re-reads the status, without a lock.
CheckDraft(h) ==
    /\ tx[h].kind = "commit" /\ tx[h].step = "check"
    /\ \/ /\ shipment[tx[h].target].status = "DRAFT"
          /\ tx' = [tx EXCEPT ![h].step = "lock"]
          /\ UNCHANGED tables
       \/ /\ shipment[tx[h].target].status # "DRAFT"
          /\ Drop(h)

\* Mutant: a void takes the delivery back before it locks the stock record.
VoidRowsLineFirst(s) == <<LineRow(LineOf[s]), StockRow(BatchOf[s])>>
\* What a void locks after the shipment: stock and line in the order of a commit.
VoidRows(s) == <<StockRow(BatchOf[s]), LineRow(LineOf[s])>>

\* VoidShipment of a committed shipment: the row is locked first, then re-read.
StartVoid(h, s) ==
    /\ tx[h] = Idle
    /\ Free(ShipmentRow(s))
    /\ shipment[s].status = "COMMITTED"
    /\ tx' = [tx EXCEPT ![h] = Begin("void", "lock", s, shipment[s].qty,
                VoidRows(s), {ShipmentRow(s)}, None)]
    /\ UNCHANGED tables

\* Mutant: a cancellation leaves the order's lines alone.
NoCancelRows(o) == <<>>
\* Cancelling an order also updates every line of it.
CancelRows(o) == SetToSeq({LineRow(l) : l \in LinesOf(o)})

\* ORDER_CANCEL locks the order row, checks the status, then updates the lines.
StartCancel(h, o) ==
    /\ tx[h] = Idle
    /\ Free(OrderRow(o))
    /\ orderStatus[o] = "Pending"
    /\ tx' = [tx EXCEPT ![h] =
                Begin("cancel", "lock", o, 0, CancelRows(o), {OrderRow(o)}, "Canceled")]
    /\ UNCHANGED tables

\* Mutant: some stock is taken for enough.
AnyStock(h, b) == stock[b].qty > 0
\* What a commit asks of the stock record it has just locked.
Enough(h, b) == stock[b].qty >= tx[h].qty

\* The next row is locked; a stock record is read under that lock.
Lock(h) ==
    /\ tx[h].step = "lock" /\ tx[h].todo # <<>>
    /\ LET row == Head(tx[h].todo)
           locked == [tx[h] EXCEPT !.todo = Tail(@), !.held = @ \union {row}] IN
       /\ Free(row)
       /\ \/ /\ row[1] # "stock"
             /\ tx' = [tx EXCEPT ![h] = locked]
             /\ UNCHANGED tables
          \/ /\ row[1] = "stock"
             /\ tx[h].kind = "commit" => Enough(h, row[2])
             /\ tx' = [tx EXCEPT ![h] = [locked EXCEPT !.balance = stock[row[2]]]]
             /\ UNCHANGED tables
          \/ /\ row[1] = "stock" /\ tx[h].kind = "commit" /\ ~Enough(h, row[2])
             /\ Drop(h)

-----------------------------------------------------------------------------
(* Fulfilment: the order status a commit or a void derives from deliveries.  *)

\* Mutant: a void forgets rollbackShipmentFromSalesOrderTx's delivered_qty.
DeliveredWithoutRollback(h) ==
    LET l == LineOf[tx[h].target] IN
    IF tx[h].kind = "commit" THEN [delivered EXCEPT ![l] = @ + tx[h].qty] ELSE delivered

\* delivered_qty as h's transaction sees it: its own update included.
Delivered(h) ==
    LET l == LineOf[tx[h].target]
        q == tx[h].qty
    IN [delivered EXCEPT ![l] =
          IF tx[h].kind = "commit" THEN @ + q ELSE IF @ >= q THEN @ - q ELSE 0]

HasDelivery(o, d) == \E l \in LinesOf(o) : d[l] > 0
AllDelivered(o, d) == \A l \in LinesOf(o) : d[l] >= Ordered[l]

\* recalculateSalesOrderStatus.
NextStatus(o, d) ==
    IF orderStatus[o] = "Canceled" THEN "Canceled"
    ELSE IF AllDelivered(o, d) THEN "Done"
    ELSE IF HasDelivery(o, d) \/ orderStatus[o] = "InProgress" THEN "InProgress"
    ELSE "Pending"

\* RecalculateSalesOrderStatusTx: order and lines are read without a lock (the
\* two SELECTs of Preload are taken as one); the order row is written, hence
\* locked, only when its status is to change.  Status columns of lines are left out.
ReadOrder(h) ==
    /\ tx[h].kind \in {"commit", "void"}
    /\ tx[h].step = "lock" /\ tx[h].todo = <<>> /\ tx[h].next = None
    /\ LET o == OrderOf[LineOf[tx[h].target]]
           status == NextStatus(o, Delivered(h))
       IN tx' = [tx EXCEPT ![h].next = status,
                           ![h].todo = IF status = orderStatus[o] THEN <<>> ELSE <<OrderRow(o)>>]
    /\ UNCHANGED tables

\* The order status a transaction writes: only under the lock of the order row.
WriteStatus(h, o) ==
    orderStatus' = IF OrderRow(o) \in tx[h].held
                   THEN [orderStatus EXCEPT ![o] = tx[h].next] ELSE orderStatus

Finished(h) == tx[h].step = "lock" /\ tx[h].todo = <<>> /\ tx[h].next # None

\* The cost of q at the average cost of the stock record (an integer here).
CostOf(q, balance) == (q * balance.value) \div balance.qty

FinishCommit(h) ==
    /\ tx[h].kind = "commit" /\ Finished(h)
    /\ LET s == tx[h].target
           q == tx[h].qty
           balance == tx[h].balance
           cogs == CostOf(q, balance)
       IN /\ stock' = [stock EXCEPT ![BatchOf[s]] =
                          [qty |-> balance.qty - q, value |-> balance.value - cogs]]
          /\ shipment' = [shipment EXCEPT ![s].status = "COMMITTED", ![s].cogs = cogs]
          /\ delivered' = Delivered(h)
          /\ WriteStatus(h, OrderOf[LineOf[s]])
    /\ tx' = [tx EXCEPT ![h] = Idle]
    /\ UNCHANGED received

\* Mutant: the stock comes back at today's average cost.
VoidedAtAverage(s, q, balance) ==
    [qty |-> balance.qty + q,
     value |-> balance.value + IF balance.qty = 0 THEN shipment[s].cogs ELSE CostOf(q, balance)]
\* The stock comes back at the cost it was shipped at.
Voided(s, q, balance) ==
    [qty |-> balance.qty + q, value |-> balance.value + shipment[s].cogs]

FinishVoid(h) ==
    /\ tx[h].kind = "void" /\ Finished(h)
    /\ LET s == tx[h].target IN
       /\ stock' = [stock EXCEPT ![BatchOf[s]] = Voided(s, tx[h].qty, tx[h].balance)]
       /\ shipment' = [shipment EXCEPT ![s].status = "VOID"]
       /\ delivered' = Delivered(h)
       /\ WriteStatus(h, OrderOf[LineOf[s]])
    /\ tx' = [tx EXCEPT ![h] = Idle]
    /\ UNCHANGED received

FinishCancel(h) ==
    /\ tx[h].kind = "cancel" /\ Finished(h)
    /\ WriteStatus(h, tx[h].target)
    /\ tx' = [tx EXCEPT ![h] = Idle]
    /\ UNCHANGED <<stock, received, shipment, delivered>>

-----------------------------------------------------------------------------
(* The database and the machines it runs on.                                 *)

\* A transaction is rolled back: the handler crashed, its client went away, its
\* connection broke, or PostgreSQL picked it to break a deadlock.
Rollback(h) == tx[h] # Idle /\ Drop(h)

Step(h) == CheckDraft(h) \/ ReadOrder(h) \/ FinishCommit(h) \/ FinishVoid(h) \/ FinishCancel(h)

Next ==
    \/ \E b \in Batches : ReceiveStock(b)
    \/ \E s \in Shipments : CreateDraft(s) \/ PatchDraft(s) \/ VoidDraft(s)
    \/ \E h \in Handlers, s \in Shipments : StartCommit(h, s) \/ StartVoid(h, s)
    \/ \E h \in Handlers, o \in Orders : StartCancel(h, o)
    \/ \E h \in Handlers : Step(h) \/ Lock(h) \/ Rollback(h)

Spec == Init /\ [][Next]_vars

-----------------------------------------------------------------------------
(* Properties.                                                               *)

Balance == [qty : Nat, value : Nat]

\* Type correctness: no balance and no delivered quantity is ever negative.
TypeOK ==
    /\ stock \in [Batches -> Balance]
    /\ received \in [Batches -> Balance]
    /\ shipment \in [Shipments -> [status : {"none", "DRAFT", "COMMITTED", "VOID"}, qty : Nat, cogs : Nat]]
    /\ delivered \in [Lines -> Nat]
    /\ orderStatus \in [Orders -> {"Pending", "InProgress", "Done", "Canceled"}]
    /\ \A h \in Handlers : tx[h].kind \in {"idle", "commit", "void", "cancel"}

CommittedOf(S) == {s \in S : shipment[s].status = "COMMITTED"}

\* The ledger balances: what was received is in stock or left with a committed
\* shipment, in quantity and, at the cost it was shipped at, in value.  Commits
\* and voids of different shipments, receipts and crashes at any statement
\* interleave over the same stock record.
StockAccounted == \A b \in Batches :
    LET out == CommittedOf({s \in Shipments : BatchOf[s] = b}) IN
    /\ stock[b].qty + MapThenSumSet(LAMBDA s : shipment[s].qty, out) = received[b].qty
    /\ stock[b].value + MapThenSumSet(LAMBDA s : shipment[s].cogs, out) = received[b].value

\* A line's delivered quantity is what its committed shipments carry.
DeliveredAccounted == \A l \in Lines :
    delivered[l] = MapThenSumSet(LAMBDA s : shipment[s].qty,
                                 CommittedOf({s \in Shipments : LineOf[s] = l}))

\* An order that is not canceled is Done exactly when every line is delivered,
\* and at least InProgress once something is.
FulfilmentReflected == \A o \in Orders : orderStatus[o] # "Canceled" =>
    /\ orderStatus[o] = "Done" <=> AllDelivered(o, delivered)
    /\ HasDelivery(o, delivered) => orderStatus[o] # "Pending"

\* A cancellation is final, although commits and voids write a status they
\* derived from an unlocked read of the order.
CancelIsFinal == [][\A o \in Orders :
    orderStatus[o] = "Canceled" => orderStatus'[o] = "Canceled"]_vars

\* What others see of the shipments: a draft that was voided while a commit of it
\* runs is a draft until that commit ends.  The commit has passed its check or will
\* refuse; if it goes through, it is the void that never was.
SeenShipments == [s \in Shipments |->
    IF shipment[s].status = "VOID" /\ Running("commit", s)
    THEN [shipment[s] EXCEPT !.status = "DRAFT"] ELSE shipment[s]]
CanceledOrders == {o \in Orders : orderStatus[o] = "Canceled"}

Atomic == INSTANCE AtomicShipments WITH
    stock <- stock, shipment <- SeenShipments, delivered <- delivered, canceled <- CanceledOrders

\* Commits, voids, receipts and cancellations act as if each were one step, though
\* they read, lock and check statement by statement and others run in between.
ActsAtomically == Atomic!Spec

\* Only a draft is committed.
CommitsOnlyDrafts == [][\A h \in Handlers :
    FinishCommit(h) => shipment[tx[h].target].status = "DRAFT"]_vars

\* h waits for a row that g holds.
WaitsFor(h, g) ==
    /\ h # g /\ tx[h].step = "lock" /\ tx[h].todo # <<>>
    /\ Head(tx[h].todo) \in tx[g].held
Deadlocks == {C \in SUBSET Handlers : C # {} /\ \A g \in C : \E f \in C : WaitsFor(g, f)}

\* g locks the order and then its lines, h a line and then its order.
OrderBeforeLine(g, h) ==
    /\ tx[g].kind = "cancel" /\ tx[h].kind \in {"commit", "void"}
    /\ OrderOf[LineOf[tx[h].target]] = tx[g].target
\* g locks stock and then the shipment, h the shipment and then stock.
StockBeforeShipment(g, h) ==
    tx[g].kind = "commit" /\ tx[h].kind = "void" /\ tx[g].target = tx[h].target

\* Requests deadlock for one of two reasons only: a cancellation meets a delivery of
\* the same order or, where clients overlap two commits of a draft, the late commit
\* meets a void of the shipment.  Commits and voids of other shipments, whatever
\* stock, lines and orders they share, never wait for one another in a circle,
\* though each locks up to four rows and a void begins with the shipment.
DeadlocksExplained == \A C \in Deadlocks : \E g, h \in C :
    OrderBeforeLine(g, h) \/ (~ClientsSerialize /\ StockBeforeShipment(g, h))

=============================================================================
