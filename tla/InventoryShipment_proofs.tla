---------------------- MODULE InventoryShipment_proofs ----------------------
(***************************************************************************)
(* Theorems about InventoryShipment: type correctness (no balance and no     *)
(* delivered quantity is ever negative), row locks are exclusive, and a      *)
(* cancellation is final.  The last rests on the line rows: a commit or void *)
(* locks the row of its line before it reads the order, a cancellation locks *)
(* every line row of the order before it ends, so neither overtakes the      *)
(* other between that read and the write of the status it derived.           *)
(* Where clients serialize their commits of a draft, the ledger balances and   *)
(* the transactions implement AtomicShipments.  Commits and voids lock stock,  *)
(* shipment, line and order in turn, but for the void's first row, so that     *)
(* they never wait for one another in a circle.                              *)
(***************************************************************************)
EXTENDS InventoryShipment, FiniteSums

Statuses == {"Pending", "InProgress", "Done", "Canceled"}
Rows == {StockRow(b) : b \in Batches} \union {ShipmentRow(s) : s \in Shipments}
          \union {LineRow(l) : l \in Lines} \union {OrderRow(o) : o \in Orders}
Txs == [kind : {"idle", "commit", "void", "cancel"}, step : {"check", "lock", "done"},
        target : {None} \union Shipments \union Orders, qty : Nat, balance : Balance,
        todo : Seq(Rows), held : SUBSET Rows, next : {None} \union Statuses]

\* The order of the line a commit or a void delivers.
OrderOfTx(t) == OrderOf[LineOf[t.target]]
\* t changes what a line has delivered.
Delivers(t) == t.kind \in {"commit", "void"}

\* t has yet to lock the row.
Ahead(t, row) == \E i \in 1..Len(t.todo) : t.todo[i] = row

\* A commit or a void holds, or has yet to lock, the row of its line, and holds
\* it once it has read the order; a cancellation, the rows of all lines.
LineRowsOK(t) ==
    /\ Delivers(t) => /\ t.target \in Shipments
                      /\ LineRow(LineOf[t.target]) \in t.held \/ Ahead(t, LineRow(LineOf[t.target]))
                      /\ t.next # None => LineRow(LineOf[t.target]) \in t.held
    /\ t.kind = "cancel" =>
          /\ t.target \in Orders /\ t.next = "Canceled"
          /\ \A l \in LinesOf(t.target) : LineRow(l) \in t.held \/ Ahead(t, LineRow(l))

\* A commit or a void holds its stock record or has yet to lock it, and asks for
\* no other; a commit that has locked it read enough stock in it.
StockOK(t) ==
    /\ t.kind = "commit" => /\ t.qty > 0
                            /\ Ahead(t, StockRow(BatchOf[t.target])) \/ t.balance.qty >= t.qty
    /\ Delivers(t) => StockRow(BatchOf[t.target]) \in t.held \/ Ahead(t, StockRow(BatchOf[t.target]))
    /\ \A b \in Batches : Ahead(t, StockRow(b)) => Delivers(t) /\ b = BatchOf[t.target]

\* The balance that a commit or a void read is the committed one while it holds
\* the stock record.
BalanceHolds(t) == Delivers(t) /\ StockRow(BatchOf[t.target]) \in t.held =>
    t.balance = stock[BatchOf[t.target]]

\* What a commit or a void has read of the order still holds: canceled or not.
ReadHolds(t) == Delivers(t) /\ t.next # None =>
    (t.next = "Canceled" <=> orderStatus[OrderOfTx(t)] = "Canceled")

\* The clauses of a transaction that concern it alone.
TxOK(t) == t \in Txs /\ LineRowsOK(t) /\ StockOK(t)

\* No transaction that holds a stock record works on a balance another has
\* replaced.
NoLostUpdate == \A h \in Handlers : BalanceHolds(tx[h])

\* No row is locked by two transactions.
LocksExclusive == \A g, h \in Handlers : g # h => tx[g].held \intersect tx[h].held = {}

\* A draft carries a quantity.
DraftsCarry == \A s \in Shipments : shipment[s].status = "DRAFT" => shipment[s].qty > 0

\* The inductive invariant.
IInv ==
    /\ TypeOK
    /\ tx \in [Handlers -> Txs]
    /\ \A h \in Handlers : TxOK(tx[h])
    /\ \A h \in Handlers : ReadHolds(tx[h])
    /\ NoLostUpdate
    /\ LocksExclusive
    /\ DraftsCarry

-----------------------------------------------------------------------------
(* Lemmas about the operators.                                               *)

\* The sequence of a finite set has the set's elements.
LEMMA SequenceOf ==
    ASSUME NEW S, IsFiniteSet(S)
    PROVE  SetToSeq(S) \in Seq(S) /\ \A x \in S : \E i \in 1..Len(SetToSeq(S)) : SetToSeq(S)[i] = x
<1> DEFINE n == Cardinality(S)
           f == SetToSeq(S)
<1>1. n \in Nat /\ ExistsBijection(1..n, S)
  BY FS_CardinalityType
<1>2. PICK g \in Bijection(1..n, S) : TRUE
  BY <1>1 DEF ExistsBijection
<1>3. g \in [1..n -> S] /\ IsInjective(g)
  BY <1>2 DEF Bijection, Injection, IsInjective
<1>4. f \in [1..n -> S] /\ IsInjective(f)
  BY <1>3 DEF SetToSeq
<1>5. f \in Injection(1..n, S)
  BY <1>4 DEF Injection, IsInjective
<1>6. IsFiniteSet(1..n) /\ Cardinality(1..n) = n
  BY <1>1, FS_Interval
<1>7. f \in Surjection(1..n, S)
  BY <1>5, <1>6, FS_Injection
<1>8. Len(f) = n /\ f \in Seq(S)
  BY <1>1, <1>4
<1> QED
  BY <1>7, <1>8 DEF Surjection

\* The cost of a part of a stock record is a part of its value.
LEMMA CostIsBounded ==
    ASSUME NEW q \in Nat, NEW balance \in Balance, q > 0, balance.qty >= q
    PROVE  CostOf(q, balance) \in Nat /\ CostOf(q, balance) <= balance.value
<1> DEFINE v == balance.value
           b == balance.qty
           d == (q * v) \div b
<1>1. v \in Nat /\ b \in Nat /\ b > 0 /\ q <= b
  BY DEF Balance
<1> HIDE DEF v, b
<1>2. q * v \in Nat /\ q * v <= b * v
  BY <1>1
<1>3. d \in Nat /\ b * d <= q * v
  BY <1>1, <1>2
<1> HIDE DEF d
<1>4. b * d <= b * v
  BY <1>1, <1>2, <1>3
<1>5. d <= v
  BY <1>1, <1>3, <1>4
<1> QED
  BY <1>3, <1>5 DEF CostOf, d, b, v

\* Locking the row at the head leaves every other row held or ahead.
LEMMA HeadLocked ==
    ASSUME NEW todo \in Seq(Rows), todo # <<>>, NEW row,
           \E i \in 1..Len(todo) : todo[i] = row
    PROVE  row = Head(todo) \/ \E i \in 1..Len(Tail(todo)) : Tail(todo)[i] = row
<1>1. PICK i \in 1..Len(todo) : todo[i] = row
  OBVIOUS
<1>2. CASE i = 1
  BY <1>1, <1>2
<1>3. CASE i # 1
  <2>1. i - 1 \in 1..Len(Tail(todo)) /\ Tail(todo)[i - 1] = todo[i]
    BY <1>3
  <2> QED
    BY <1>1, <2>1
<1> QED
  BY <1>2, <1>3

-----------------------------------------------------------------------------
(* The inductive invariant.                                                  *)

\* A transaction that has begun nothing meets every clause.
LEMMA IdleOK == TxOK(Idle) /\ ReadHolds(Idle) /\ BalanceHolds(Idle) /\ Idle.held = {} /\ Idle.kind = "idle"
<1>1. <<>> \in Seq(Rows)
  OBVIOUS
<1>2. Idle \in Txs
  BY <1>1 DEF Idle, Begin, Txs, Zero, Balance
<1> QED
  BY <1>2 DEF Idle, Begin, TxOK, LineRowsOK, StockOK, ReadHolds, BalanceHolds, Delivers, Ahead

\* The tables keep the invariant, and one handler's transaction becomes t: what
\* is left to show is t's own clauses.
LEMMA OneTx ==
    ASSUME IInv, NEW h \in Handlers, NEW t, TxOK(t), tx' = [tx EXCEPT ![h] = t],
           UNCHANGED tables, ReadHolds(t), BalanceHolds(t),
           \A g \in Handlers \ {h} : tx[g].held \intersect t.held = {}
    PROVE  IInv'
<1>1. tx' \in [Handlers -> Txs] /\ tx'[h] = t /\ \A g \in Handlers \ {h} : tx'[g] = tx[g]
  BY DEF IInv, TxOK
<1>2. TypeOK'
  <2>1. t.kind \in {"idle", "commit", "void", "cancel"}
    BY DEF TxOK, Txs
  <2> QED
    BY <1>1, <2>1 DEF IInv, TypeOK, tables
<1>3. \A g \in Handlers : TxOK(tx'[g])
  BY <1>1 DEF IInv
<1>4. \A g \in Handlers : ReadHolds(tx[g])' <=> ReadHolds(tx'[g])
  BY DEF ReadHolds, tables, Delivers, OrderOfTx
<1>5. \A g \in Handlers : ReadHolds(tx[g])'
  BY <1>1, <1>4 DEF IInv
<1>8. NoLostUpdate'
  <2>1. \A g \in Handlers : BalanceHolds(tx[g])' <=> BalanceHolds(tx'[g])
    BY DEF BalanceHolds, tables, Delivers
  <2> QED
    BY <1>1, <2>1 DEF IInv, NoLostUpdate
<1>6. LocksExclusive'
  BY <1>1 DEF IInv, LocksExclusive
<1>7. DraftsCarry'
  BY DEF IInv, DraftsCarry, tables
<1> QED
  BY <1>1, <1>2, <1>3, <1>5, <1>6, <1>7, <1>8 DEF IInv, TxOK, LineRowsOK, StockOK, Delivers, Ahead

\* A transaction that ends, with the order statuses left canceled or not as they
\* were for those who read them.
LEMMA TxEnds ==
    ASSUME IInv, NEW h \in Handlers, tx' = [tx EXCEPT ![h] = Idle],
           stock' \in [Batches -> Balance], received' = received,
           shipment' \in [Shipments -> [status : {"none", "DRAFT", "COMMITTED", "VOID"}, qty : Nat, cogs : Nat]],
           \A s \in Shipments : shipment'[s].status = "DRAFT" =>
              shipment[s].status = "DRAFT" /\ shipment'[s].qty = shipment[s].qty,
           delivered' \in [Lines -> Nat],
           orderStatus' \in [Orders -> Statuses],
           \A g \in Handlers \ {h} : Delivers(tx[g]) /\ tx[g].next # None =>
              (orderStatus'[OrderOfTx(tx[g])] = "Canceled" <=> orderStatus[OrderOfTx(tx[g])] = "Canceled"),
           \A g \in Handlers \ {h} : Delivers(tx[g]) /\ StockRow(BatchOf[tx[g].target]) \in tx[g].held =>
              stock'[BatchOf[tx[g].target]] = stock[BatchOf[tx[g].target]]
    PROVE  IInv'
<1>1. tx' \in [Handlers -> Txs] /\ tx'[h] = Idle /\ \A g \in Handlers \ {h} : tx'[g] = tx[g]
  BY IdleOK DEF IInv, TxOK
<1>2. TypeOK'
  BY <1>1, IdleOK DEF IInv, TypeOK, Statuses
<1>3. \A g \in Handlers : TxOK(tx'[g])
  BY <1>1, IdleOK DEF IInv
<1>4. \A g \in Handlers : ReadHolds(tx[g])'
  BY <1>1, IdleOK DEF IInv, ReadHolds, Delivers, OrderOfTx
<1>5. NoLostUpdate'
  BY <1>1, IdleOK DEF IInv, NoLostUpdate, BalanceHolds, Delivers
<1>6. LocksExclusive'
  BY <1>1, IdleOK DEF IInv, LocksExclusive
<1>7. DraftsCarry'
  BY DEF IInv, DraftsCarry
<1> QED
  BY <1>1, <1>2, <1>3, <1>4, <1>5, <1>6, <1>7 DEF IInv, TxOK, LineRowsOK, StockOK, Delivers, Ahead

\* Single-row transactions.
LEMMA SingleRow ==
    ASSUME IInv, \/ \E b \in Batches : ReceiveStock(b)
                 \/ \E s \in Shipments : CreateDraft(s) \/ PatchDraft(s) \/ VoidDraft(s)
    PROVE  IInv'
<1>1. UNCHANGED <<delivered, orderStatus, tx>>
  BY DEF ReceiveStock, CreateDraft, PatchDraft, VoidDraft
<1>2. /\ stock' \in [Batches -> Balance] /\ received' \in [Batches -> Balance]
      /\ shipment' \in [Shipments -> [status : {"none", "DRAFT", "COMMITTED", "VOID"}, qty : Nat, cogs : Nat]]
      /\ DraftsCarry'
  <2>1. ASSUME NEW b \in Batches, ReceiveStock(b) PROVE <1>2!:
    <3>1. PICK r \in Receipts :
            /\ stock' = [stock EXCEPT ![b] = [qty |-> @.qty + r.qty, value |-> @.value + r.value]]
            /\ received' = [received EXCEPT ![b] = [qty |-> @.qty + r.qty, value |-> @.value + r.value]]
            /\ UNCHANGED shipment
      BY <2>1 DEF ReceiveStock
    <3>2. r.qty \in Nat /\ r.value \in Nat
      BY ShipmentConstants
    <3> QED
      BY <3>1, <3>2 DEF IInv, TypeOK, Balance, DraftsCarry
  <2>2. ASSUME NEW s \in Shipments, CreateDraft(s) \/ PatchDraft(s) \/ VoidDraft(s) PROVE <1>2!:
    <3>1. \A q \in Quantities : q \in Nat /\ q > 0
      BY ShipmentConstants
    <3>2. UNCHANGED <<stock, received>>
      BY <2>2 DEF CreateDraft, PatchDraft, VoidDraft
    <3>3. CASE CreateDraft(s)
      BY <3>1, <3>2, <3>3 DEF CreateDraft, IInv, TypeOK, DraftsCarry
    <3>4. CASE PatchDraft(s)
      BY <3>1, <3>2, <3>4 DEF PatchDraft, IInv, TypeOK, DraftsCarry
    <3>5. CASE VoidDraft(s)
      BY <3>2, <3>5 DEF VoidDraft, IInv, TypeOK, DraftsCarry
    <3> QED
      BY <2>2, <3>3, <3>4, <3>5
  <2> QED
    BY <2>1, <2>2
<1>4. NoLostUpdate'
  <2>1. ASSUME NEW g \in Handlers, Delivers(tx[g]), StockRow(BatchOf[tx[g].target]) \in tx[g].held
        PROVE  stock'[BatchOf[tx[g].target]] = stock[BatchOf[tx[g].target]]
    <3>1. BatchOf[tx[g].target] \in Batches
      BY <2>1, ShipmentConstants DEF IInv, TxOK, LineRowsOK
    <3>2. ASSUME NEW b \in Batches, ReceiveStock(b) PROVE b # BatchOf[tx[g].target]
      BY <2>1, <3>2 DEF ReceiveStock, Free
    <3> QED
      BY <3>1, <3>2 DEF ReceiveStock, CreateDraft, PatchDraft, VoidDraft, IInv, TypeOK
  <2> QED
    BY <1>1, <2>1 DEF IInv, NoLostUpdate, BalanceHolds, Delivers
<1>3. \A g \in Handlers : TxOK(tx[g])' /\ ReadHolds(tx[g])'
  BY <1>1 DEF IInv, TxOK, LineRowsOK, StockOK, ReadHolds, Delivers, OrderOfTx, Ahead
<1> QED
  BY <1>1, <1>2, <1>3, <1>4 DEF IInv, TypeOK, LocksExclusive

\* A request begins.
LEMMA Starts ==
    ASSUME IInv, NEW h \in Handlers,
           \/ \E s \in Shipments : StartCommit(h, s) \/ StartVoid(h, s)
           \/ \E o \in Orders : StartCancel(h, o)
    PROVE  IInv'
<1>1. ASSUME NEW s \in Shipments, StartCommit(h, s) PROVE IInv'
  <2> DEFINE t == Begin("commit", "check", s, shipment[s].qty,
                <<StockRow(BatchOf[s]), ShipmentRow(s), LineRow(LineOf[s])>>, {}, None)
  <2>1. t = [kind |-> "commit", step |-> "check", target |-> s, qty |-> shipment[s].qty, balance |-> Zero,
             todo |-> <<StockRow(BatchOf[s]), ShipmentRow(s), LineRow(LineOf[s])>>, held |-> {}, next |-> None]
    BY DEF Begin
  <2> HIDE DEF t
  <2>2. LineOf[s] \in Lines /\ BatchOf[s] \in Batches /\ shipment[s].qty \in Nat /\ shipment[s].qty > 0
    BY <1>1, ShipmentConstants DEF IInv, TypeOK, DraftsCarry, StartCommit
  <2>3. /\ t.todo \in Seq(Rows) /\ Len(t.todo) = 3
        /\ t.todo[1] = StockRow(BatchOf[s]) /\ t.todo[3] = LineRow(LineOf[s])
        /\ \A b : StockRow(b) # ShipmentRow(s) /\ StockRow(b) # LineRow(LineOf[s])
        /\ t.todo[2] = ShipmentRow(s)
    BY <2>1, <2>2 DEF Rows, StockRow, ShipmentRow, LineRow
  <2>4. t \in Txs
    BY <2>1, <2>2, <2>3 DEF Txs, Zero, Balance
  <2>5. /\ Ahead(t, LineRow(LineOf[s])) /\ Ahead(t, StockRow(BatchOf[s]))
        /\ \A b \in Batches : Ahead(t, StockRow(b)) => b = BatchOf[s]
    <3>1. \A b : StockRow(b) = StockRow(BatchOf[s]) => b = BatchOf[s]
      BY DEF StockRow
    <3>2. \A i \in 1..3 : i = 1 \/ i = 2 \/ i = 3
      OBVIOUS
    <3> QED
      BY <2>3, <3>1, <3>2 DEF Ahead
  <2>6. TxOK(t) /\ ReadHolds(t) /\ BalanceHolds(t) /\ t.held = {}
    BY <2>1, <2>2, <2>4, <2>5 DEF TxOK, LineRowsOK, StockOK, ReadHolds, BalanceHolds, Delivers
  <2> QED
    BY <1>1, <2>6, OneTx DEF StartCommit, t
<1>2. ASSUME NEW s \in Shipments, StartVoid(h, s) PROVE IInv'
  <2> DEFINE t == Begin("void", "lock", s, shipment[s].qty, VoidRows(s), {ShipmentRow(s)}, None)
  <2>1. t = [kind |-> "void", step |-> "lock", target |-> s, qty |-> shipment[s].qty, balance |-> Zero,
             todo |-> <<StockRow(BatchOf[s]), LineRow(LineOf[s])>>, held |-> {ShipmentRow(s)}, next |-> None]
    BY DEF Begin, VoidRows
  <2> HIDE DEF t
  <2>2. LineOf[s] \in Lines /\ BatchOf[s] \in Batches /\ shipment[s].qty \in Nat
    BY ShipmentConstants DEF IInv, TypeOK
  <2>3. /\ t.todo \in Seq(Rows) /\ Len(t.todo) = 2 /\ t.todo[2] = LineRow(LineOf[s])
        /\ t.todo[1] = StockRow(BatchOf[s]) /\ \A b : StockRow(b) # LineRow(LineOf[s])
        /\ t.held \subseteq Rows /\ \A b : StockRow(b) # ShipmentRow(s)
    BY <2>1, <2>2 DEF Rows, StockRow, ShipmentRow, LineRow
  <2>4. t \in Txs
    BY <2>1, <2>2, <2>3 DEF Txs, Zero, Balance
  <2>5. /\ Ahead(t, LineRow(LineOf[s])) /\ Ahead(t, StockRow(BatchOf[s]))
        /\ \A b \in Batches : Ahead(t, StockRow(b)) => b = BatchOf[s]
    BY <2>3 DEF Ahead, StockRow
  <2>6. TxOK(t) /\ ReadHolds(t) /\ BalanceHolds(t)
    BY <2>1, <2>2, <2>3, <2>4, <2>5 DEF TxOK, LineRowsOK, StockOK, ReadHolds, BalanceHolds, Delivers
  <2>7. \A g \in Handlers : tx[g].held \intersect t.held = {}
    BY <1>2, <2>1 DEF StartVoid, Free
  <2> QED
    BY <1>2, <2>6, <2>7, OneTx DEF StartVoid, t
<1>3. ASSUME NEW o \in Orders, StartCancel(h, o) PROVE IInv'
  <2> DEFINE rows == {LineRow(l) : l \in LinesOf(o)}
             t == Begin("cancel", "lock", o, 0, CancelRows(o), {OrderRow(o)}, "Canceled")
  <2>1. t = [kind |-> "cancel", step |-> "lock", target |-> o, qty |-> 0, balance |-> Zero,
             todo |-> CancelRows(o), held |-> {OrderRow(o)}, next |-> "Canceled"]
    BY DEF Begin
  <2> HIDE DEF t, rows
  <2>2. IsFiniteSet(rows)
    <3>1. IsFiniteSet(LinesOf(o))
      BY ShipmentConstants, FS_Subset DEF LinesOf
    <3> DEFINE f == [l \in LinesOf(o) |-> LineRow(l)]
    <3>2. f \in Surjection(LinesOf(o), rows)
      BY DEF Surjection, rows
    <3> QED
      BY <3>1, <3>2, FS_Surjection
  <2>3. /\ CancelRows(o) \in Seq(rows)
        /\ \A x \in rows : \E i \in 1..Len(CancelRows(o)) : CancelRows(o)[i] = x
    BY <2>2, SequenceOf DEF CancelRows, rows
  <2>4. rows \subseteq Rows /\ {OrderRow(o)} \subseteq Rows
    BY DEF Rows, LinesOf, rows
  <2>5. CancelRows(o) \in Seq(Rows)
    BY <2>3, <2>4
  <2>6. t \in Txs
    BY <2>1, <2>4, <2>5 DEF Txs, Zero, Balance, Statuses
  <2>7. \A l \in LinesOf(o) : Ahead(t, LineRow(l))
    BY <2>1, <2>3 DEF Ahead, rows
  <2>10. \A b \in Batches : ~Ahead(t, StockRow(b))
    BY <2>1, <2>3 DEF Ahead, rows, StockRow, LineRow
  <2>8. TxOK(t) /\ ReadHolds(t) /\ BalanceHolds(t)
    BY <2>1, <2>6, <2>7, <2>10 DEF TxOK, LineRowsOK, StockOK, ReadHolds, BalanceHolds, Delivers
  <2>9. \A g \in Handlers : tx[g].held \intersect t.held = {}
    BY <1>3, <2>1 DEF StartCancel, Free
  <2> QED
    BY <1>3, <2>8, <2>9, OneTx DEF StartCancel, t
<1> QED
  BY <1>1, <1>2, <1>3

\* A transaction reads on, locks a row, or is rolled back.
LEMMA Proceeds ==
    ASSUME IInv, NEW h \in Handlers, CheckDraft(h) \/ ReadOrder(h) \/ Lock(h) \/ Rollback(h)
    PROVE  IInv'
<1>1. ASSUME Drop(h) PROVE IInv'
  BY <1>1, IdleOK, OneTx DEF Drop
<1>2. /\ tx[h] \in Txs /\ TxOK(tx[h]) /\ ReadHolds(tx[h]) /\ BalanceHolds(tx[h])
      /\ \A g \in Handlers \ {h} : tx[g].held \intersect tx[h].held = {}
  BY DEF IInv, LocksExclusive, NoLostUpdate
<1>3. ASSUME CheckDraft(h) PROVE IInv'
  <2> DEFINE t == [tx[h] EXCEPT !.step = "lock"]
  <2>1. CASE Drop(h)
    BY <1>1, <2>1
  <2>2. CASE tx' = [tx EXCEPT ![h].step = "lock"] /\ UNCHANGED tables
    <3>1. tx' = [tx EXCEPT ![h] = t]
      BY <2>2 DEF IInv
    <3>2. /\ t \in Txs /\ t.kind = tx[h].kind /\ t.target = tx[h].target /\ t.qty = tx[h].qty
          /\ t.balance = tx[h].balance /\ t.todo = tx[h].todo /\ t.held = tx[h].held /\ t.next = tx[h].next
      BY <1>2 DEF Txs
    <3> HIDE DEF t
    <3>3. TxOK(t) /\ ReadHolds(t) /\ BalanceHolds(t)
      BY <1>2, <3>2 DEF TxOK, LineRowsOK, StockOK, ReadHolds, BalanceHolds, Delivers, OrderOfTx, Ahead
    <3> QED
      BY <1>2, <2>2, <3>1, <3>2, <3>3, OneTx
  <2> QED
    BY <1>3, <2>1, <2>2 DEF CheckDraft
<1>4. ASSUME ReadOrder(h) PROVE IInv'
  <2> DEFINE o == OrderOf[LineOf[tx[h].target]]
             status == NextStatus(o, Delivered(h))
             t == [tx[h] EXCEPT !.next = status,
                                !.todo = IF status = orderStatus[o] THEN <<>> ELSE <<OrderRow(o)>>]
  <2>1. o \in Orders /\ Delivers(tx[h]) /\ tx[h].todo = <<>> /\ tx[h].target \in Shipments
    BY <1>2, <1>4, ShipmentConstants DEF ReadOrder, Delivers, TxOK, LineRowsOK
  <2>2. tx' = [tx EXCEPT ![h] = t] /\ UNCHANGED tables
    BY <1>4 DEF ReadOrder, IInv
  <2>3. status \in Statuses /\ (status = "Canceled" <=> orderStatus[o] = "Canceled")
    BY DEF NextStatus, Statuses
  <2> HIDE DEF status
  <2>4. <<>> \in Seq(Rows) /\ <<OrderRow(o)>> \in Seq(Rows)
    BY <2>1 DEF Rows
  <2>5. /\ t \in Txs /\ t.kind = tx[h].kind /\ t.target = tx[h].target /\ t.qty = tx[h].qty
        /\ t.balance = tx[h].balance /\ t.held = tx[h].held /\ t.next = status
        /\ t.todo \in {<<>>, <<OrderRow(o)>>}
    BY <1>2, <2>3, <2>4 DEF Txs
  <2> HIDE DEF t
  <2>6. \A row : ~Ahead(tx[h], row)
    BY <2>1 DEF Ahead
  <2>8. \A b \in Batches : ~Ahead(t, StockRow(b))
    BY <2>5 DEF Ahead, StockRow, OrderRow
  <2>7. TxOK(t) /\ ReadHolds(t) /\ BalanceHolds(t)
    BY <1>2, <2>1, <2>3, <2>5, <2>6, <2>8
    DEF TxOK, LineRowsOK, StockOK, ReadHolds, BalanceHolds, Delivers, OrderOfTx
  <2> QED
    BY <1>2, <2>2, <2>5, <2>7, OneTx
<1>5. ASSUME Lock(h) PROVE IInv'
  <2> DEFINE row == Head(tx[h].todo)
             t == [tx[h] EXCEPT !.todo = Tail(@), !.held = @ \union {row}]
             u == [t EXCEPT !.balance = stock[row[2]]]
  <2>1. tx[h].todo # <<>> /\ Free(row)
    BY <1>5 DEF Lock
  <2>2. /\ tx[h].todo \in Seq(Rows) /\ row \in Rows /\ Tail(tx[h].todo) \in Seq(Rows)
        /\ tx[h].held \union {row} \subseteq Rows
    BY <1>2, <2>1 DEF Txs
  <2>3. \A r : Ahead(tx[h], r) => r = row \/ \E i \in 1..Len(Tail(tx[h].todo)) : Tail(tx[h].todo)[i] = r
    BY <2>1, <2>2, HeadLocked DEF Ahead
  <2>4. /\ t \in Txs /\ t.kind = tx[h].kind /\ t.target = tx[h].target /\ t.qty = tx[h].qty
        /\ t.balance = tx[h].balance /\ t.todo = Tail(tx[h].todo) /\ t.held = tx[h].held \union {row}
        /\ t.next = tx[h].next
    BY <1>2, <2>2 DEF Txs
  <2>5. \A g \in Handlers \ {h} : tx[g].held \intersect t.held = {}
    BY <1>2, <2>1, <2>4 DEF Free
  <2>6. \A r : /\ Ahead(tx[h], r) => r = row \/ Ahead(t, r)
               /\ Ahead(t, r) => Ahead(tx[h], r)
               /\ r = row => Ahead(tx[h], r)
    <3>1. \A r : Ahead(tx[h], r) => r = row \/ Ahead(t, r)
      BY <2>3, <2>4 DEF Ahead
    <3>2. ASSUME NEW r, Ahead(t, r) PROVE Ahead(tx[h], r)
      <4>1. PICK i \in 1..Len(Tail(tx[h].todo)) : Tail(tx[h].todo)[i] = r
        BY <2>4, <3>2 DEF Ahead
      <4>2. i + 1 \in 1..Len(tx[h].todo) /\ tx[h].todo[i + 1] = r
        BY <2>1, <2>2, <4>1
      <4> QED
        BY <4>2 DEF Ahead
    <3>3. 1 \in 1..Len(tx[h].todo) /\ tx[h].todo[1] = row
      BY <2>1, <2>2
    <3> QED
      BY <3>1, <3>2, <3>3 DEF Ahead
  <2>7. LineRowsOK(t) /\ ReadHolds(t)
    BY <1>2, <2>4, <2>6 DEF TxOK, LineRowsOK, ReadHolds, Delivers, OrderOfTx
  <2>8. CASE row[1] # "stock" /\ tx' = [tx EXCEPT ![h] = t] /\ UNCHANGED tables
    <3>1. \A b \in Batches : row # StockRow(b)
      BY <2>8 DEF StockRow
    <3>2. Delivers(tx[h]) => BatchOf[tx[h].target] \in Batches
      BY <1>2, ShipmentConstants DEF TxOK, LineRowsOK, Delivers
    <3>3. StockOK(t) /\ BalanceHolds(t)
      BY <1>2, <2>4, <2>6, <3>1, <3>2 DEF TxOK, StockOK, BalanceHolds, Delivers
    <3> QED
      BY <2>4, <2>5, <2>7, <2>8, <3>3, OneTx DEF TxOK
  <2>9. CASE /\ row[1] = "stock" /\ tx' = [tx EXCEPT ![h] = u] /\ UNCHANGED tables
             /\ tx[h].kind = "commit" => Enough(h, row[2])
    <3>1. row[2] \in Batches /\ stock[row[2]] \in Balance /\ row = StockRow(row[2])
      BY <2>2, <2>9 DEF Rows, StockRow, ShipmentRow, LineRow, OrderRow, IInv, TypeOK
    <3>2. /\ u \in Txs /\ u.kind = t.kind /\ u.target = t.target /\ u.qty = t.qty
          /\ u.balance = stock[row[2]] /\ u.todo = t.todo /\ u.held = t.held /\ u.next = t.next
      <4> HIDE DEF t
      <4> QED
        BY <2>4, <3>1 DEF Txs
    <3> HIDE DEF u, t
    <3>5. Delivers(tx[h]) /\ row[2] = BatchOf[tx[h].target]
      BY <1>2, <2>6, <3>1 DEF TxOK, StockOK
    <3>6. \A r : Ahead(u, r) <=> Ahead(t, r)
      BY <3>2 DEF Ahead
    <3>3. StockOK(u) /\ BalanceHolds(u)
      BY <1>2, <2>4, <2>6, <2>9, <3>1, <3>2, <3>5, <3>6 DEF TxOK, StockOK, BalanceHolds, Enough, Delivers
    <3>4. LineRowsOK(u) /\ ReadHolds(u)
      BY <2>7, <3>2 DEF LineRowsOK, ReadHolds, Delivers, OrderOfTx, Ahead
    <3> QED
      BY <2>5, <2>9, <3>2, <3>3, <3>4, OneTx DEF TxOK
  <2>10. CASE Drop(h)
    BY <1>1, <2>10
  <2> QED
    BY <1>5, <2>8, <2>9, <2>10 DEF Lock
<1> QED
  BY <1>1, <1>3, <1>4, <1>5 DEF Rollback

\* What a commit, a void or a cancellation writes keeps a cancellation, and an
\* order that another transaction has read is canceled after the step exactly
\* when it was before.
LEMMA StatusWritten ==
    ASSUME IInv, NEW h \in Handlers, Finished(h), tx[h].kind # "idle",
           WriteStatus(h, IF tx[h].kind = "cancel" THEN tx[h].target ELSE OrderOfTx(tx[h]))
    PROVE  /\ orderStatus' \in [Orders -> Statuses]
           /\ \A o \in Orders : orderStatus[o] = "Canceled" => orderStatus'[o] = "Canceled"
           /\ \A g \in Handlers \ {h} : Delivers(tx[g]) /\ tx[g].next # None =>
                (orderStatus'[OrderOfTx(tx[g])] = "Canceled" <=> orderStatus[OrderOfTx(tx[g])] = "Canceled")
<1>1. /\ tx[h] \in Txs /\ TxOK(tx[h]) /\ ReadHolds(tx[h]) /\ tx[h].todo = <<>> /\ tx[h].next # None
      /\ tx[h].next \in Statuses /\ tx[h].kind \in {"commit", "void", "cancel"}
      /\ orderStatus \in [Orders -> Statuses]
  BY DEF IInv, Txs, Finished, TypeOK, Statuses
<1>2. CASE Delivers(tx[h])
  <2>1. OrderOfTx(tx[h]) \in Orders
    BY <1>1, <1>2, ShipmentConstants DEF TxOK, LineRowsOK, OrderOfTx
  <2>2. tx[h].kind # "cancel"
    BY <1>2 DEF Delivers
  <2>3. orderStatus' \in [Orders -> Statuses]
    BY <1>1, <2>1, <2>2 DEF WriteStatus
  <2>4. \A o \in Orders : orderStatus'[o] = "Canceled" <=> orderStatus[o] = "Canceled"
    BY <1>1, <1>2, <2>1, <2>2 DEF WriteStatus, ReadHolds
  <2>5. \A g \in Handlers : Delivers(tx[g]) => OrderOfTx(tx[g]) \in Orders
    BY ShipmentConstants DEF IInv, TxOK, LineRowsOK, OrderOfTx
  <2> QED
    BY <2>3, <2>4, <2>5
<1>3. CASE tx[h].kind = "cancel"
  <2>1. tx[h].target \in Orders /\ tx[h].next = "Canceled"
    BY <1>1, <1>3 DEF TxOK, LineRowsOK
  <2>2. \A l \in LinesOf(tx[h].target) : LineRow(l) \in tx[h].held
    BY <1>1, <1>3 DEF TxOK, LineRowsOK, Ahead
  <2>3. orderStatus' \in [Orders -> Statuses]
    BY <1>1, <1>3, <2>1 DEF WriteStatus
  <2>4. \A o \in Orders : o # tx[h].target => orderStatus'[o] = orderStatus[o]
    BY <1>1, <1>3, <2>1 DEF WriteStatus
  <2>5. orderStatus[tx[h].target] = "Canceled" => orderStatus'[tx[h].target] = "Canceled"
    BY <1>1, <1>3, <2>1 DEF WriteStatus
  <2>6. ASSUME NEW g \in Handlers \ {h}, Delivers(tx[g]), tx[g].next # None
        PROVE  OrderOfTx(tx[g]) \in Orders /\ OrderOfTx(tx[g]) # tx[h].target
    <3>1. /\ LineOf[tx[g].target] \in Lines /\ OrderOfTx(tx[g]) \in Orders
          /\ LineRow(LineOf[tx[g].target]) \in tx[g].held
      BY <2>6, ShipmentConstants DEF IInv, TxOK, LineRowsOK, OrderOfTx
    <3>2. LineRow(LineOf[tx[g].target]) \notin tx[h].held
      BY <3>1 DEF IInv, LocksExclusive
    <3> QED
      BY <2>2, <3>1, <3>2 DEF LinesOf, OrderOfTx
  <2> QED
    BY <2>3, <2>4, <2>5, <2>6
<1> QED
  BY <1>1, <1>2, <1>3 DEF Delivers

\* A transaction that has locked all it asked for writes and ends.
LEMMA Finishes ==
    ASSUME IInv, NEW h \in Handlers, FinishCommit(h) \/ FinishVoid(h) \/ FinishCancel(h)
    PROVE  IInv' /\ \A o \in Orders : orderStatus[o] = "Canceled" => orderStatus'[o] = "Canceled"
<1>1. /\ Finished(h) /\ tx[h].kind # "idle" /\ tx' = [tx EXCEPT ![h] = Idle] /\ received' = received
      /\ WriteStatus(h, IF tx[h].kind = "cancel" THEN tx[h].target ELSE OrderOfTx(tx[h]))
  BY DEF FinishCommit, FinishVoid, FinishCancel, OrderOfTx
<1>2. /\ orderStatus' \in [Orders -> Statuses]
      /\ \A o \in Orders : orderStatus[o] = "Canceled" => orderStatus'[o] = "Canceled"
      /\ \A g \in Handlers \ {h} : Delivers(tx[g]) /\ tx[g].next # None =>
           (orderStatus'[OrderOfTx(tx[g])] = "Canceled" <=> orderStatus[OrderOfTx(tx[g])] = "Canceled")
  BY <1>1, StatusWritten
<1>3. TxOK(tx[h]) /\ tx[h] \in Txs /\ tx[h].todo = <<>>
  BY <1>1 DEF IInv, Finished, TxOK
<1> DEFINE s == tx[h].target
           q == tx[h].qty
           balance == tx[h].balance
           Records == [status : {"none", "DRAFT", "COMMITTED", "VOID"}, qty : Nat, cogs : Nat]
           Goal == /\ stock' \in [Batches -> Balance]
                   /\ shipment' \in [Shipments -> Records]
                   /\ \A z \in Shipments : shipment'[z].status = "DRAFT" =>
                        shipment[z].status = "DRAFT" /\ shipment'[z].qty = shipment[z].qty
                   /\ delivered' \in [Lines -> Nat]
                   /\ stock' # stock => /\ Delivers(tx[h]) /\ BatchOf[s] \in Batches
                                        /\ \A b \in Batches \ {BatchOf[s]} : stock'[b] = stock[b]
<1>4. /\ q \in Nat /\ balance \in Balance /\ balance.qty \in Nat /\ balance.value \in Nat
      /\ stock \in [Batches -> Balance] /\ shipment \in [Shipments -> Records] /\ delivered \in [Lines -> Nat]
  BY <1>3 DEF Txs, Balance, IInv, TypeOK
<1>5. ASSUME Delivers(tx[h]) PROVE /\ s \in Shipments /\ BatchOf[s] \in Batches /\ LineOf[s] \in Lines
                                   /\ Delivered(h) \in [Lines -> Nat]
  <2>1. s \in Shipments /\ BatchOf[s] \in Batches /\ LineOf[s] \in Lines
    BY <1>3, <1>5, ShipmentConstants DEF TxOK, LineRowsOK
  <2> QED
    BY <1>4, <2>1 DEF Delivered
<1>6. ASSUME FinishCommit(h) PROVE Goal
  <2>1. q > 0 /\ balance.qty >= q
    BY <1>3, <1>6 DEF FinishCommit, TxOK, StockOK, Ahead
  <2>2. CostOf(q, balance) \in Nat /\ CostOf(q, balance) <= balance.value
    BY <1>4, <2>1, CostIsBounded
  <2> DEFINE left == [qty |-> balance.qty - q, value |-> balance.value - CostOf(q, balance)]
  <2>3. left \in Balance
    BY <1>4, <2>1, <2>2 DEF Balance
  <2>4. /\ stock' = [stock EXCEPT ![BatchOf[s]] = left]
        /\ shipment' = [shipment EXCEPT ![s].status = "COMMITTED", ![s].cogs = CostOf(q, balance)]
        /\ delivered' = Delivered(h)
    BY <1>6 DEF FinishCommit
  <2>5. Delivers(tx[h])
    BY <1>6 DEF FinishCommit, Delivers
  <2> HIDE DEF left
  <2>6. stock' \in [Batches -> Balance] /\ delivered' \in [Lines -> Nat]
    BY <1>4, <1>5, <2>3, <2>4, <2>5
  <2>7. shipment' \in [Shipments -> Records]
    BY <1>4, <1>5, <2>2, <2>4, <2>5
  <2>8. \A z \in Shipments : shipment'[z].status = "DRAFT" =>
          shipment[z].status = "DRAFT" /\ shipment'[z].qty = shipment[z].qty
    BY <1>4, <1>5, <2>4, <2>5
  <2>9. \A b \in Batches \ {BatchOf[s]} : stock'[b] = stock[b]
    BY <1>4, <2>4
  <2> QED
    BY <1>5, <2>5, <2>6, <2>7, <2>8, <2>9
<1>7. ASSUME FinishVoid(h) PROVE Goal
  <2>1. Delivers(tx[h])
    BY <1>7 DEF FinishVoid, Delivers
  <2>2. /\ stock' = [stock EXCEPT ![BatchOf[s]] = Voided(s, q, balance)]
        /\ shipment' = [shipment EXCEPT ![s].status = "VOID"]
        /\ delivered' = Delivered(h)
    BY <1>7 DEF FinishVoid
  <2>3. Voided(s, q, balance) \in Balance
    BY <1>4, <1>5, <2>1 DEF Voided, Balance
  <2>4. stock' \in [Batches -> Balance] /\ delivered' \in [Lines -> Nat]
    BY <1>4, <1>5, <2>1, <2>2, <2>3
  <2>5. shipment' \in [Shipments -> Records]
    BY <1>4, <1>5, <2>1, <2>2
  <2>6. \A z \in Shipments : shipment'[z].status = "DRAFT" =>
          shipment[z].status = "DRAFT" /\ shipment'[z].qty = shipment[z].qty
    BY <1>4, <1>5, <2>1, <2>2
  <2>7. \A b \in Batches \ {BatchOf[s]} : stock'[b] = stock[b]
    BY <1>4, <2>2
  <2> QED
    BY <1>5, <2>1, <2>4, <2>5, <2>6, <2>7
<1>8. ASSUME FinishCancel(h) PROVE Goal
  BY <1>4, <1>8 DEF FinishCancel
<1>9. Goal
  BY <1>6, <1>7, <1>8
<1>10. ASSUME NEW g \in Handlers \ {h}, Delivers(tx[g]), StockRow(BatchOf[tx[g].target]) \in tx[g].held
       PROVE  stock'[BatchOf[tx[g].target]] = stock[BatchOf[tx[g].target]]
  <2>1. BatchOf[tx[g].target] \in Batches
    BY <1>10, ShipmentConstants DEF IInv, TxOK, LineRowsOK
  <2>2. Delivers(tx[h]) => StockRow(BatchOf[s]) \in tx[h].held
    BY <1>3 DEF TxOK, StockOK, Ahead
  <2>3. Delivers(tx[h]) => BatchOf[tx[g].target] # BatchOf[s]
    BY <1>10, <2>2 DEF IInv, LocksExclusive
  <2> QED
    BY <1>9, <2>1, <2>3
<1>11. IInv'
  <2> HIDE DEF Goal
  <2>1. Goal
    BY <1>9
  <2> QED
    BY <1>1, <1>2, <1>10, <2>1, TxEnds DEF Goal
<1> QED
  BY <1>2, <1>11

-----------------------------------------------------------------------------
(* The theorems.                                                             *)

\* The invariant is inductive.
THEOREM Inductive == Spec => []IInv
<1>1. Init => IInv
  <2> SUFFICES ASSUME Init PROVE IInv
    OBVIOUS
  <2>1. tx \in [Handlers -> Txs] /\ \A h \in Handlers : tx[h] = Idle
    BY IdleOK DEF Init, TxOK
  <2>2. TypeOK
    BY <2>1, IdleOK DEF Init, TypeOK, Zero, Balance
  <2> QED
    BY <2>1, <2>2, IdleOK DEF Init, IInv, LocksExclusive, NoLostUpdate, DraftsCarry
<1>2. IInv /\ [Next]_vars => IInv'
  <2> SUFFICES ASSUME IInv, [Next]_vars PROVE IInv'
    OBVIOUS
  <2>1. CASE UNCHANGED vars
    BY <2>1 DEF vars, IInv, TypeOK, TxOK, LineRowsOK, StockOK, ReadHolds, Delivers, OrderOfTx, Ahead,
                LocksExclusive, NoLostUpdate, BalanceHolds, DraftsCarry
  <2>2. CASE Next
    <3>1. CASE \/ \E b \in Batches : ReceiveStock(b)
               \/ \E s \in Shipments : CreateDraft(s) \/ PatchDraft(s) \/ VoidDraft(s)
      BY <3>1, SingleRow
    <3>2. ASSUME NEW h \in Handlers, \/ \E s \in Shipments : StartCommit(h, s) \/ StartVoid(h, s)
                                    \/ \E o \in Orders : StartCancel(h, o)
          PROVE  IInv'
      BY <3>2, Starts
    <3>3. ASSUME NEW h \in Handlers, Step(h) \/ Lock(h) \/ Rollback(h) PROVE IInv'
      BY <3>3, Proceeds, Finishes DEF Step
    <3> QED
      BY <2>2, <3>1, <3>2, <3>3 DEF Next
  <2> QED
    BY <2>1, <2>2
<1> QED
  BY <1>1, <1>2, PTL DEF Spec

\* No balance and no delivered quantity is ever negative, whatever commits, voids
\* and receipts interleave and wherever they are rolled back.
THEOREM TypesCorrect == Spec => []TypeOK
<1>1. IInv => TypeOK
  BY DEF IInv
<1> QED
  BY <1>1, Inductive, PTL

\* Two transactions never hold the same row.
THEOREM LocksAreExclusive == Spec => []LocksExclusive
<1>1. IInv => LocksExclusive
  BY DEF IInv
<1> QED
  BY <1>1, Inductive, PTL

\* The balance a commit or a void writes back is derived from the committed one:
\* no receipt, commit or void of the same stock record is overwritten.
THEOREM UpdatesAreNotLost == Spec => []NoLostUpdate
<1>1. IInv => NoLostUpdate
  BY DEF IInv
<1> QED
  BY <1>1, Inductive, PTL

\* A canceled order stays canceled, although commits and voids write a status
\* they derived from an unlocked read of it.
THEOREM CancellationIsFinal == Spec => CancelIsFinal
<1> DEFINE Final == \A o \in Orders : orderStatus[o] = "Canceled" => orderStatus'[o] = "Canceled"
<1>1. IInv /\ [Next]_vars => [Final]_vars
  <2> SUFFICES ASSUME IInv, Next, ~UNCHANGED orderStatus PROVE Final
    BY DEF vars
  <2>1. PICK h \in Handlers : FinishCommit(h) \/ FinishVoid(h) \/ FinishCancel(h)
    BY DEF Next, ReceiveStock, CreateDraft, PatchDraft, VoidDraft, StartCommit, StartVoid, StartCancel,
           Step, CheckDraft, ReadOrder, Lock, Rollback, Drop, tables
  <2> QED
    BY <2>1, Finishes
<1> QED
  BY <1>1, Inductive, PTL DEF Spec, CancelIsFinal

-----------------------------------------------------------------------------
(* The ledger.                                                               *)

\* What the shipments of a set carry, and what they cost.
QtyOf(r, S) == MapThenSumSet(LAMBDA s : r[s].qty, S)
CogsOf(r, S) == MapThenSumSet(LAMBDA s : r[s].cogs, S)

Qtys(r, S) == [s \in S |-> r[s].qty]
Costs(r, S) == [s \in S |-> r[s].cogs]

\* The committed ones among a set of shipments.
OutOf(r, S) == {s \in S : r[s].status = "COMMITTED"}

Records == [Shipments -> [status : {"none", "DRAFT", "COMMITTED", "VOID"}, qty : Nat, cogs : Nat]]

\* Quantities are a sum of a function.
LEMMA QtySum ==
    ASSUME NEW S, NEW T \in SUBSET S, NEW r
    PROVE  QtyOf(r, T) = SumOf(Qtys(r, S), T)
<1> DEFINE f == Qtys(r, S)
           A(iter) == iter = [s \in SUBSET T |-> IF s = {} THEN 0 ELSE r[Pick(s)].qty + iter[s \ {Pick(s)}]]
<1>1. QtyOf(r, T) = (CHOOSE iter : A(iter))[T]
  BY DEF QtyOf, MapThenSumSet, MapThenFoldSet, Pick
<1>2. \A s \in SUBSET T : s # {} => f[Pick(s)] = r[Pick(s)].qty
  BY DEF Pick, Qtys
<1> HIDE DEF f
<1>3. ASSUME NEW iter PROVE A(iter) <=> Sums(iter, f, T)
  <2>1. [s \in SUBSET T |-> IF s = {} THEN 0 ELSE r[Pick(s)].qty + iter[s \ {Pick(s)}]]
        = [s \in SUBSET T |-> IF s = {} THEN 0 ELSE f[Pick(s)] + iter[s \ {Pick(s)}]]
    BY <1>2
  <2> QED
    BY <2>1 DEF Sums
<1> HIDE DEF A
<1>4. (CHOOSE iter : A(iter)) = (CHOOSE iter : Sums(iter, f, T))
  BY <1>3, Zenon
<1> QED
  BY <1>1, <1>4, SumIsFold DEF f, Fold

\* Costs are a sum of a function.
LEMMA CogsSum ==
    ASSUME NEW S, NEW T \in SUBSET S, NEW r
    PROVE  CogsOf(r, T) = SumOf(Costs(r, S), T)
<1> DEFINE f == Costs(r, S)
           A(iter) == iter = [s \in SUBSET T |-> IF s = {} THEN 0 ELSE r[Pick(s)].cogs + iter[s \ {Pick(s)}]]
<1>1. CogsOf(r, T) = (CHOOSE iter : A(iter))[T]
  BY DEF CogsOf, MapThenSumSet, MapThenFoldSet, Pick
<1>2. \A s \in SUBSET T : s # {} => f[Pick(s)] = r[Pick(s)].cogs
  BY DEF Pick, Costs
<1> HIDE DEF f
<1>3. ASSUME NEW iter PROVE A(iter) <=> Sums(iter, f, T)
  <2>1. [s \in SUBSET T |-> IF s = {} THEN 0 ELSE r[Pick(s)].cogs + iter[s \ {Pick(s)}]]
        = [s \in SUBSET T |-> IF s = {} THEN 0 ELSE f[Pick(s)] + iter[s \ {Pick(s)}]]
    BY <1>2
  <2> QED
    BY <2>1 DEF Sums
<1> HIDE DEF A
<1>4. (CHOOSE iter : A(iter)) = (CHOOSE iter : Sums(iter, f, T))
  BY <1>3, Zenon
<1> QED
  BY <1>1, <1>4, SumIsFold DEF f, Fold

\* The sums depend on the committed records alone.
LEMMA OutSame ==
    ASSUME NEW r, NEW rr, NEW G, IsFiniteSet(OutOf(r, G)),
           \A s \in G : /\ rr[s].status = "COMMITTED" <=> r[s].status = "COMMITTED"
                        /\ r[s].status = "COMMITTED" => rr[s].qty = r[s].qty /\ rr[s].cogs = r[s].cogs
    PROVE  /\ OutOf(rr, G) = OutOf(r, G)
           /\ QtyOf(rr, OutOf(rr, G)) = QtyOf(r, OutOf(r, G))
           /\ CogsOf(rr, OutOf(rr, G)) = CogsOf(r, OutOf(r, G))
<1> DEFINE T == OutOf(r, G)
<1>1. OutOf(rr, G) = T
  BY DEF OutOf
<1>2. \A s \in T : rr[s].qty = r[s].qty /\ rr[s].cogs = r[s].cogs
  BY DEF OutOf
<1> HIDE DEF T
<1>3. Qtys(rr, T) = Qtys(r, T) /\ Costs(rr, T) = Costs(r, T)
  BY <1>2 DEF Qtys, Costs
<1>4. T \in SUBSET T
  OBVIOUS
<1>5. QtyOf(rr, T) = QtyOf(r, T) /\ CogsOf(rr, T) = CogsOf(r, T)
  BY <1>3, <1>4, QtySum, CogsSum
<1> QED
  BY <1>1, <1>5 DEF T

\* A shipment that becomes committed adds its quantity and cost to those of its
\* group, and to no other.  Read backwards: what one takes that is voided.
LEMMA OutGrows ==
    ASSUME NEW r \in Records, NEW rr \in Records, NEW G \in SUBSET Shipments, NEW s \in Shipments,
           IsFiniteSet(OutOf(r, Shipments)),
           r[s].status # "COMMITTED", rr[s].status = "COMMITTED",
           \A z \in Shipments \ {s} : rr[z] = r[z]
    PROVE  /\ IsFiniteSet(OutOf(rr, Shipments))
           /\ QtyOf(r, OutOf(r, G)) \in Nat /\ CogsOf(r, OutOf(r, G)) \in Nat
           /\ QtyOf(rr, OutOf(rr, G)) = QtyOf(r, OutOf(r, G)) + (IF s \in G THEN rr[s].qty ELSE 0)
           /\ CogsOf(rr, OutOf(rr, G)) = CogsOf(r, OutOf(r, G)) + (IF s \in G THEN rr[s].cogs ELSE 0)
<1>1. /\ OutOf(rr, Shipments) = OutOf(r, Shipments) \union {s}
      /\ OutOf(rr, G) = IF s \in G THEN OutOf(r, G) \union {s} ELSE OutOf(r, G)
      /\ s \notin OutOf(r, G) /\ OutOf(r, G) \subseteq OutOf(r, Shipments)
      /\ OutOf(rr, G) \in SUBSET Shipments /\ OutOf(r, G) \in SUBSET Shipments
  BY DEF OutOf
<1>2. IsFiniteSet(OutOf(rr, Shipments)) /\ IsFiniteSet(OutOf(r, G))
  BY <1>1, FS_AddElement, FS_Subset
<1> DEFINE q == Qtys(r, Shipments)
           qq == Qtys(rr, Shipments)
           c == Costs(r, Shipments)
           cc == Costs(rr, Shipments)
           T == OutOf(r, G)
<1>3. /\ \A z \in Shipments : q[z] \in Nat /\ qq[z] \in Nat /\ c[z] \in Nat /\ cc[z] \in Nat
      /\ \A z \in T : q[z] = qq[z] /\ c[z] = cc[z]
      /\ qq[s] = rr[s].qty /\ cc[s] = rr[s].cogs
  BY <1>1 DEF Records, Qtys, Costs
<1>4. /\ QtyOf(r, T) = SumOf(q, T) /\ CogsOf(r, T) = SumOf(c, T)
      /\ QtyOf(rr, OutOf(rr, G)) = SumOf(qq, OutOf(rr, G))
      /\ CogsOf(rr, OutOf(rr, G)) = SumOf(cc, OutOf(rr, G))
  BY <1>1, QtySum, CogsSum
<1> HIDE DEF q, qq, c, cc, T
<1>5. IsFiniteSet(T) /\ T \in SUBSET Shipments /\ s \notin T /\ \A z \in T : z \in Shipments
  BY <1>1, <1>2 DEF T
<1>6. SumOf(q, T) = SumOf(qq, T) /\ SumOf(c, T) = SumOf(cc, T)
  BY <1>3, <1>5, SumSame
<1>7. SumOf(q, T) \in Int /\ SumOf(q, T) >= 0 /\ SumOf(c, T) \in Int /\ SumOf(c, T) >= 0
  BY <1>3, <1>5, SumType
<1>8. SumOf(qq, T \union {s}) = qq[s] + SumOf(qq, T) /\ SumOf(cc, T \union {s}) = cc[s] + SumOf(cc, T)
  <2>1. \A x \in T \union {s} : qq[x] \in Int /\ cc[x] \in Int
    BY <1>3, <1>5
  <2> QED
    BY <1>5, <2>1, SumAdd
<1>9. QtyOf(r, T) \in Nat /\ CogsOf(r, T) \in Nat
  BY <1>4, <1>7
<1>10. CASE s \in G
  <2>1. OutOf(rr, G) = T \union {s}
    BY <1>1, <1>10 DEF T
  <2>2. /\ QtyOf(rr, OutOf(rr, G)) = qq[s] + QtyOf(r, T)
        /\ CogsOf(rr, OutOf(rr, G)) = cc[s] + CogsOf(r, T)
    BY <1>4, <1>6, <1>8, <2>1
  <2>3. qq[s] \in Nat /\ cc[s] \in Nat
    BY <1>3
  <2> QED
    BY <1>2, <1>3, <1>9, <1>10, <2>2, <2>3 DEF T
<1>11. CASE s \notin G
  <2>1. OutOf(rr, G) = T
    BY <1>1, <1>11 DEF T
  <2>2. QtyOf(rr, OutOf(rr, G)) = QtyOf(r, T) /\ CogsOf(rr, OutOf(rr, G)) = CogsOf(r, T)
    BY <1>4, <1>6, <2>1
  <2> QED
    BY <1>2, <1>9, <1>11, <2>2 DEF T
<1> QED
  BY <1>10, <1>11

OfBatch(b) == {s \in Shipments : BatchOf[s] = b}
OfLine(l) == {s \in Shipments : LineOf[s] = l}

\* StockAccounted and DeliveredAccounted in these words.
StockBalances == \A b \in Batches :
    /\ stock[b].qty + QtyOf(shipment, OutOf(shipment, OfBatch(b))) = received[b].qty
    /\ stock[b].value + CogsOf(shipment, OutOf(shipment, OfBatch(b))) = received[b].value
DeliveryBalances == \A l \in Lines :
    delivered[l] = QtyOf(shipment, OutOf(shipment, OfLine(l)))

\* The record that a commit read is the stored one but for a draft that was voided,
\* and a void holds the record it read.
ShipmentHolds(t) ==
    /\ t.kind = "commit" => /\ shipment[t.target].status \in {"DRAFT", "VOID"}
                            /\ shipment[t.target].qty = t.qty
    /\ t.kind = "void" => /\ shipment[t.target].status = "COMMITTED"
                          /\ shipment[t.target].qty = t.qty
                          /\ ShipmentRow(t.target) \in t.held

\* What clients promise: one commit of a draft at a time.
OneCommit == \A g, h \in Handlers :
    g # h /\ tx[g].kind = "commit" /\ tx[h].kind = "commit" => tx[g].target # tx[h].target

LedgerInv ==
    /\ IsFiniteSet(OutOf(shipment, Shipments))
    /\ StockBalances /\ DeliveryBalances
    /\ \A h \in Handlers : ShipmentHolds(tx[h])
    /\ OneCommit

\* The words are the same.
LEMMA LedgerWords ==
    /\ StockBalances <=> StockAccounted
    /\ DeliveryBalances <=> DeliveredAccounted
BY DEF StockBalances, DeliveryBalances, StockAccounted, DeliveredAccounted, QtyOf, CogsOf,
       OutOf, OfBatch, OfLine, CommittedOf

\* A step that leaves committed shipments, stock and deliveries alone keeps the sums.
LEMMA SumsKept ==
    ASSUME LedgerInv, stock' = stock, received' = received, delivered' = delivered,
           \A s \in Shipments :
              /\ shipment'[s].status = "COMMITTED" <=> shipment[s].status = "COMMITTED"
              /\ shipment[s].status = "COMMITTED" =>
                    shipment'[s].qty = shipment[s].qty /\ shipment'[s].cogs = shipment[s].cogs
    PROVE  IsFiniteSet(OutOf(shipment, Shipments))' /\ StockBalances' /\ DeliveryBalances'
<1>1. \A G \in SUBSET Shipments : /\ OutOf(shipment', G) = OutOf(shipment, G)
                                 /\ QtyOf(shipment', OutOf(shipment', G)) = QtyOf(shipment, OutOf(shipment, G))
                                 /\ CogsOf(shipment', OutOf(shipment', G)) = CogsOf(shipment, OutOf(shipment, G))
  <2> TAKE G \in SUBSET Shipments
  <2>1. IsFiniteSet(OutOf(shipment, G))
    <3>1. OutOf(shipment, G) \in SUBSET OutOf(shipment, Shipments)
      BY DEF OutOf
    <3> QED
      BY <3>1, FS_Subset DEF LedgerInv
  <2> QED
    BY <2>1, OutSame
<1>2. /\ Shipments \in SUBSET Shipments
      /\ \A b \in Batches : OfBatch(b) \in SUBSET Shipments
      /\ \A l \in Lines : OfLine(l) \in SUBSET Shipments
  BY DEF OfBatch, OfLine
<1>3. IsFiniteSet(OutOf(shipment', Shipments))
  BY <1>1, <1>2 DEF LedgerInv
<1>4. StockBalances'
  BY <1>1, <1>2 DEF LedgerInv, StockBalances
<1>5. DeliveryBalances'
  BY <1>1, <1>2 DEF LedgerInv, DeliveryBalances
<1> QED
  BY <1>3, <1>4, <1>5

\* A commit takes from the stock and gives to the line what the shipment then adds.
LEMMA CommitBalances ==
    ASSUME IInv, IInv', LedgerInv, NEW h \in Handlers, FinishCommit(h)
    PROVE  IsFiniteSet(OutOf(shipment, Shipments))' /\ StockBalances' /\ DeliveryBalances'
<1> DEFINE s == tx[h].target
           q == tx[h].qty
           cogs == CostOf(q, tx[h].balance)
<1>1. /\ tx[h] \in Txs /\ TxOK(tx[h]) /\ BalanceHolds(tx[h]) /\ tx[h].todo = <<>> /\ tx[h].kind = "commit"
      /\ ShipmentHolds(tx[h]) /\ Delivers(tx[h])
  BY DEF IInv, NoLostUpdate, LedgerInv, FinishCommit, Finished, Delivers
<1>2. /\ s \in Shipments /\ BatchOf[s] \in Batches /\ LineOf[s] \in Lines /\ q \in Nat
      /\ shipment[s].status # "COMMITTED" /\ shipment[s].qty = q
  BY <1>1, ShipmentConstants DEF TxOK, LineRowsOK, ShipmentHolds, Txs
<1>3. tx[h].balance = stock[BatchOf[s]] /\ q > 0 /\ tx[h].balance.qty >= q
  BY <1>1 DEF TxOK, StockOK, BalanceHolds, Ahead
<1>4. /\ shipment \in Records /\ shipment' \in Records /\ stock \in [Batches -> Balance]
      /\ delivered \in [Lines -> Nat]
  BY DEF IInv, TypeOK, Records
<1>5. tx[h].balance \in Balance /\ tx[h].balance.qty \in Nat /\ tx[h].balance.value \in Nat
  BY <1>2, <1>3, <1>4 DEF Balance
<1>6. cogs \in Nat /\ cogs <= tx[h].balance.value
  BY <1>2, <1>3, <1>5, CostIsBounded
<1>7. /\ stock' = [stock EXCEPT ![BatchOf[s]] = [qty |-> tx[h].balance.qty - q, value |-> tx[h].balance.value - cogs]]
      /\ shipment' = [shipment EXCEPT ![s].status = "COMMITTED", ![s].cogs = cogs]
      /\ delivered' = [delivered EXCEPT ![LineOf[s]] = @ + q]
      /\ received' = received
  BY <1>1, <1>2, <1>4 DEF FinishCommit, Delivered
<1> HIDE DEF s, q, cogs
<1>8. /\ shipment'[s].status = "COMMITTED" /\ shipment'[s].qty = q /\ shipment'[s].cogs = cogs
      /\ \A z \in Shipments \ {s} : shipment'[z] = shipment[z]
  BY <1>2, <1>4, <1>7 DEF Records
<1>9. \A G \in SUBSET Shipments :
        /\ IsFiniteSet(OutOf(shipment', Shipments))
        /\ QtyOf(shipment, OutOf(shipment, G)) \in Nat /\ CogsOf(shipment, OutOf(shipment, G)) \in Nat
        /\ QtyOf(shipment', OutOf(shipment', G)) = QtyOf(shipment, OutOf(shipment, G)) + (IF s \in G THEN q ELSE 0)
        /\ CogsOf(shipment', OutOf(shipment', G)) = CogsOf(shipment, OutOf(shipment, G)) + (IF s \in G THEN cogs ELSE 0)
  <2> TAKE G \in SUBSET Shipments
  <2>1. IsFiniteSet(OutOf(shipment, Shipments))
    BY DEF LedgerInv
  <2> QED
    BY <1>2, <1>4, <1>8, <2>1, OutGrows
<1>10. ASSUME NEW b \in Batches
       PROVE /\ stock'[b].qty + QtyOf(shipment', OutOf(shipment', OfBatch(b))) = received'[b].qty
             /\ stock'[b].value + CogsOf(shipment', OutOf(shipment', OfBatch(b))) = received'[b].value
  <2>1. OfBatch(b) \in SUBSET Shipments /\ (s \in OfBatch(b) <=> BatchOf[s] = b)
    BY <1>2 DEF OfBatch
  <2>2. /\ stock[b].qty + QtyOf(shipment, OutOf(shipment, OfBatch(b))) = received[b].qty
        /\ stock[b].value + CogsOf(shipment, OutOf(shipment, OfBatch(b))) = received[b].value
    BY DEF LedgerInv, StockBalances
  <2>3. stock[b].qty \in Nat /\ stock[b].value \in Nat
    BY <1>4 DEF Balance
  <2>4. /\ stock'[b].qty = stock[b].qty - (IF BatchOf[s] = b THEN q ELSE 0)
        /\ stock'[b].value = stock[b].value - (IF BatchOf[s] = b THEN cogs ELSE 0)
    BY <1>2, <1>3, <1>4, <1>6, <1>7, <2>3
  <2>5. received'[b] = received[b]
    BY <1>7
  <2> DEFINE Q == QtyOf(shipment, OutOf(shipment, OfBatch(b)))
             C == CogsOf(shipment, OutOf(shipment, OfBatch(b)))
             QQ == QtyOf(shipment', OutOf(shipment', OfBatch(b)))
             CC == CogsOf(shipment', OutOf(shipment', OfBatch(b)))
  <2>6. /\ Q \in Nat /\ C \in Nat /\ QQ = Q + (IF BatchOf[s] = b THEN q ELSE 0)
        /\ CC = C + (IF BatchOf[s] = b THEN cogs ELSE 0)
    BY <1>9, <2>1
  <2>7. stock[b].qty + Q = received[b].qty /\ stock[b].value + C = received[b].value
    BY <2>2
  <2> HIDE DEF Q, C, QQ, CC
  <2>8. stock'[b].qty + QQ = received'[b].qty /\ stock'[b].value + CC = received'[b].value
    BY <1>2, <1>6, <2>3, <2>4, <2>5, <2>6, <2>7
  <2> QED
    BY <2>8 DEF QQ, CC
<1>11. ASSUME NEW l \in Lines PROVE delivered'[l] = QtyOf(shipment', OutOf(shipment', OfLine(l)))
  <2>1. OfLine(l) \in SUBSET Shipments /\ (s \in OfLine(l) <=> LineOf[s] = l)
    BY <1>2 DEF OfLine
  <2>2. delivered[l] = QtyOf(shipment, OutOf(shipment, OfLine(l)))
    BY DEF LedgerInv, DeliveryBalances
  <2>3. delivered'[l] = IF LineOf[s] = l THEN delivered[l] + q ELSE delivered[l]
    BY <1>2, <1>4, <1>7
  <2>4. QtyOf(shipment', OutOf(shipment', OfLine(l))) = delivered[l] + (IF LineOf[s] = l THEN q ELSE 0)
    BY <1>9, <2>1, <2>2
  <2>5. delivered[l] \in Nat
    BY <1>4
  <2> QED
    BY <2>3, <2>4, <2>5
<1>12. IsFiniteSet(OutOf(shipment', Shipments))
  BY <1>9
<1> QED
  BY <1>10, <1>11, <1>12 DEF StockBalances, DeliveryBalances

\* A void gives back to the stock, at its cost, and takes from the line what the
\* shipment no longer adds.
LEMMA VoidBalances ==
    ASSUME IInv, IInv', LedgerInv, NEW h \in Handlers, FinishVoid(h)
    PROVE  IsFiniteSet(OutOf(shipment, Shipments))' /\ StockBalances' /\ DeliveryBalances'
<1> DEFINE s == tx[h].target
           q == tx[h].qty
           cogs == shipment[s].cogs
<1>1. /\ tx[h] \in Txs /\ TxOK(tx[h]) /\ BalanceHolds(tx[h]) /\ tx[h].todo = <<>> /\ tx[h].kind = "void"
      /\ ShipmentHolds(tx[h]) /\ Delivers(tx[h])
  BY DEF IInv, NoLostUpdate, LedgerInv, FinishVoid, Finished, Delivers
<1>2. /\ s \in Shipments /\ BatchOf[s] \in Batches /\ LineOf[s] \in Lines /\ q \in Nat
      /\ shipment[s].status = "COMMITTED" /\ shipment[s].qty = q
  BY <1>1, ShipmentConstants DEF TxOK, LineRowsOK, ShipmentHolds, Txs
<1>3. tx[h].balance = stock[BatchOf[s]]
  BY <1>1 DEF TxOK, StockOK, BalanceHolds, Ahead
<1>4. /\ shipment \in Records /\ shipment' \in Records /\ stock \in [Batches -> Balance]
      /\ delivered \in [Lines -> Nat]
  BY DEF IInv, TypeOK, Records
<1>5. cogs \in Nat
  BY <1>2, <1>4 DEF Records
<1>6. tx[h].balance \in Balance /\ tx[h].balance.qty \in Nat /\ tx[h].balance.value \in Nat
  BY <1>2, <1>3, <1>4 DEF Balance
<1>7. /\ stock' = [stock EXCEPT ![BatchOf[s]] = [qty |-> tx[h].balance.qty + q, value |-> tx[h].balance.value + cogs]]
      /\ shipment' = [shipment EXCEPT ![s].status = "VOID"]
      /\ delivered' = [delivered EXCEPT ![LineOf[s]] = IF @ >= q THEN @ - q ELSE 0]
      /\ received' = received
  BY <1>1, <1>2, <1>4 DEF FinishVoid, Delivered, Voided
<1> HIDE DEF s, q, cogs
<1>8. /\ shipment'[s].status # "COMMITTED" /\ \A z \in Shipments \ {s} : shipment[z] = shipment'[z]
  BY <1>2, <1>4, <1>7 DEF Records
<1>9. IsFiniteSet(OutOf(shipment', Shipments))
  <2>1. OutOf(shipment', Shipments) \in SUBSET OutOf(shipment, Shipments)
    BY <1>8 DEF OutOf
  <2> QED
    BY <2>1, FS_Subset DEF LedgerInv
<1>10. \A G \in SUBSET Shipments :
        /\ QtyOf(shipment', OutOf(shipment', G)) \in Nat /\ CogsOf(shipment', OutOf(shipment', G)) \in Nat
        /\ QtyOf(shipment, OutOf(shipment, G)) = QtyOf(shipment', OutOf(shipment', G)) + (IF s \in G THEN q ELSE 0)
        /\ CogsOf(shipment, OutOf(shipment, G)) = CogsOf(shipment', OutOf(shipment', G)) + (IF s \in G THEN cogs ELSE 0)
  <2> TAKE G \in SUBSET Shipments
  <2>1. shipment[s].cogs = cogs
    BY DEF cogs
  <2> QED
    BY <1>2, <1>4, <1>8, <1>9, <2>1, OutGrows
<1>11. ASSUME NEW b \in Batches
       PROVE /\ stock'[b].qty + QtyOf(shipment', OutOf(shipment', OfBatch(b))) = received'[b].qty
             /\ stock'[b].value + CogsOf(shipment', OutOf(shipment', OfBatch(b))) = received'[b].value
  <2>1. OfBatch(b) \in SUBSET Shipments /\ (s \in OfBatch(b) <=> BatchOf[s] = b)
    BY <1>2 DEF OfBatch
  <2>2. /\ stock[b].qty + QtyOf(shipment, OutOf(shipment, OfBatch(b))) = received[b].qty
        /\ stock[b].value + CogsOf(shipment, OutOf(shipment, OfBatch(b))) = received[b].value
    BY DEF LedgerInv, StockBalances
  <2>3. stock[b].qty \in Nat /\ stock[b].value \in Nat
    BY <1>4 DEF Balance
  <2>4. /\ stock'[b].qty = stock[b].qty + (IF BatchOf[s] = b THEN q ELSE 0)
        /\ stock'[b].value = stock[b].value + (IF BatchOf[s] = b THEN cogs ELSE 0)
    BY <1>2, <1>3, <1>4, <1>5, <1>7, <2>3
  <2>5. received'[b] = received[b]
    BY <1>7
  <2> DEFINE Q == QtyOf(shipment, OutOf(shipment, OfBatch(b)))
             C == CogsOf(shipment, OutOf(shipment, OfBatch(b)))
             QQ == QtyOf(shipment', OutOf(shipment', OfBatch(b)))
             CC == CogsOf(shipment', OutOf(shipment', OfBatch(b)))
  <2>6. /\ QQ \in Nat /\ CC \in Nat /\ Q = QQ + (IF BatchOf[s] = b THEN q ELSE 0)
        /\ C = CC + (IF BatchOf[s] = b THEN cogs ELSE 0)
    BY <1>10, <2>1
  <2>7. stock[b].qty + Q = received[b].qty /\ stock[b].value + C = received[b].value
    BY <2>2
  <2> HIDE DEF Q, C, QQ, CC
  <2>8. stock'[b].qty + QQ = received'[b].qty /\ stock'[b].value + CC = received'[b].value
    BY <1>2, <1>5, <2>3, <2>4, <2>5, <2>6, <2>7
  <2> QED
    BY <2>8 DEF QQ, CC
<1>12. ASSUME NEW l \in Lines PROVE delivered'[l] = QtyOf(shipment', OutOf(shipment', OfLine(l)))
  <2>1. OfLine(l) \in SUBSET Shipments /\ (s \in OfLine(l) <=> LineOf[s] = l)
    BY <1>2 DEF OfLine
  <2>2. delivered[l] = QtyOf(shipment, OutOf(shipment, OfLine(l)))
    BY DEF LedgerInv, DeliveryBalances
  <2> DEFINE QQ == QtyOf(shipment', OutOf(shipment', OfLine(l)))
  <2>3. delivered[l] = QQ + (IF LineOf[s] = l THEN q ELSE 0) /\ QQ \in Nat
    BY <1>10, <2>1, <2>2
  <2>4. delivered'[l] = IF LineOf[s] = l THEN (IF delivered[l] >= q THEN delivered[l] - q ELSE 0) ELSE delivered[l]
    BY <1>2, <1>4, <1>7
  <2> HIDE DEF QQ
  <2>5. delivered'[l] = QQ
    BY <1>2, <2>3, <2>4
  <2> QED
    BY <2>5 DEF QQ
<1> QED
  BY <1>9, <1>11, <1>12 DEF StockBalances, DeliveryBalances

\* Single-row transactions keep the ledger.
LEMMA SingleRowLedger ==
    ASSUME ClientsSerialize, IInv, LedgerInv,
           \/ \E b \in Batches : ReceiveStock(b)
           \/ \E s \in Shipments : CreateDraft(s) \/ PatchDraft(s) \/ VoidDraft(s)
    PROVE  LedgerInv'
<1>1. ASSUME NEW b \in Batches, ReceiveStock(b) PROVE LedgerInv'
  <2>1. PICK r \in Receipts :
          /\ stock' = [stock EXCEPT ![b] = [qty |-> @.qty + r.qty, value |-> @.value + r.value]]
          /\ received' = [received EXCEPT ![b] = [qty |-> @.qty + r.qty, value |-> @.value + r.value]]
    BY <1>1 DEF ReceiveStock
  <2>2. UNCHANGED <<shipment, delivered, tx>>
    BY <1>1 DEF ReceiveStock
  <2>3. /\ r.qty \in Nat /\ r.value \in Nat
        /\ stock \in [Batches -> Balance] /\ received \in [Batches -> Balance]
    BY ShipmentConstants DEF IInv, TypeOK
  <2>4. ASSUME NEW a \in Batches
        PROVE /\ stock'[a].qty + QtyOf(shipment, OutOf(shipment, OfBatch(a))) = received'[a].qty
              /\ stock'[a].value + CogsOf(shipment, OutOf(shipment, OfBatch(a))) = received'[a].value
    <3> DEFINE Q == QtyOf(shipment, OutOf(shipment, OfBatch(a)))
               C == CogsOf(shipment, OutOf(shipment, OfBatch(a)))
    <3>1. OfBatch(a) \in SUBSET Shipments
      BY DEF OfBatch
    <3>2. Q \in Int /\ C \in Int
      <4> DEFINE T == OutOf(shipment, OfBatch(a))
      <4>1. T \in SUBSET OutOf(shipment, Shipments) /\ T \in SUBSET Shipments
        BY <3>1 DEF OutOf
      <4>2. IsFiniteSet(T)
        BY <4>1, FS_Subset DEF LedgerInv
      <4>3. \A z \in T : Qtys(shipment, Shipments)[z] \in Int /\ Costs(shipment, Shipments)[z] \in Int
        BY <4>1 DEF Qtys, Costs, IInv, TypeOK
      <4> HIDE DEF T
      <4>4. SumOf(Qtys(shipment, Shipments), T) \in Int /\ SumOf(Costs(shipment, Shipments), T) \in Int
        BY <4>2, <4>3, SumType
      <4>5. QtyOf(shipment, T) \in Int /\ CogsOf(shipment, T) \in Int
        BY <4>1, <4>4, QtySum, CogsSum
      <4> QED
        BY <4>5 DEF T
    <3>3. stock[a].qty + Q = received[a].qty /\ stock[a].value + C = received[a].value
      BY DEF LedgerInv, StockBalances
    <3> HIDE DEF Q, C
    <3>4. stock'[a].qty + Q = received'[a].qty /\ stock'[a].value + C = received'[a].value
      BY <2>1, <2>3, <3>2, <3>3 DEF Balance
    <3> QED
      BY <3>4 DEF Q, C
  <2>5. StockBalances' /\ DeliveryBalances'
    BY <2>2, <2>4 DEF StockBalances, DeliveryBalances, LedgerInv
  <2> QED
    BY <2>2, <2>5 DEF LedgerInv, ShipmentHolds, OneCommit
<1>2. ASSUME NEW s \in Shipments, CreateDraft(s) \/ PatchDraft(s) \/ VoidDraft(s) PROVE LedgerInv'
  <2>1. UNCHANGED <<stock, received, delivered, tx>>
    BY <1>2 DEF CreateDraft, PatchDraft, VoidDraft
  <2>2. /\ shipment \in Records /\ \A z \in Shipments \ {s} : shipment'[z] = shipment[z]
        /\ shipment[s].status \in {"none", "DRAFT"} /\ shipment'[s].status \in {"DRAFT", "VOID"}
        /\ shipment[s].status = "DRAFT" => shipment'[s].qty = shipment[s].qty \/ ~Running("commit", s)
    BY <1>2 DEF CreateDraft, PatchDraft, VoidDraft, IInv, TypeOK, Records
  <2>3. IsFiniteSet(OutOf(shipment, Shipments))' /\ StockBalances' /\ DeliveryBalances'
    BY <2>1, <2>2, SumsKept
  <2>4. ASSUME NEW h \in Handlers PROVE ShipmentHolds(tx[h])'
    <3>1. ShipmentHolds(tx[h]) /\ TxOK(tx[h])
      BY DEF LedgerInv, IInv
    <3>2. Delivers(tx[h]) => tx[h].target \in Shipments
      BY <3>1 DEF TxOK, LineRowsOK
    <3>3. tx[h].kind = "commit" /\ tx[h].target = s => Running("commit", s)
      BY DEF Running
    <3> QED
      BY <2>1, <2>2, <3>1, <3>2, <3>3 DEF ShipmentHolds, Delivers
  <2> QED
    BY <2>1, <2>3, <2>4 DEF LedgerInv, OneCommit
<1> QED
  BY <1>1, <1>2

\* A request that goes on remains the request it is, and lets go of no row, unless
\* it is given up.
LEMMA GoesOn ==
    ASSUME IInv, NEW h \in Handlers, CheckDraft(h) \/ ReadOrder(h) \/ Lock(h)
    PROVE  \/ Drop(h) /\ tx'[h].kind = "idle"
           \/ /\ tx'[h].kind = tx[h].kind /\ tx'[h].target = tx[h].target
              /\ tx'[h].qty = tx[h].qty /\ tx[h].held \subseteq tx'[h].held
<1>1. tx \in [Handlers -> Txs]
  BY DEF IInv
<1>2. Drop(h) => tx'[h].kind = "idle"
  BY <1>1, IdleOK DEF Drop
<1>3. CASE CheckDraft(h)
  BY <1>1, <1>2, <1>3 DEF CheckDraft, Txs
<1>4. CASE ReadOrder(h)
  BY <1>1, <1>4 DEF ReadOrder, Txs
<1>5. CASE Lock(h) /\ ~Drop(h)
  <2> DEFINE row == Head(tx[h].todo)
             locked == [tx[h] EXCEPT !.todo = Tail(@), !.held = @ \union {row}]
  <2>1. /\ locked.kind = tx[h].kind /\ locked.target = tx[h].target
        /\ locked.qty = tx[h].qty /\ tx[h].held \subseteq locked.held
    BY <1>1 DEF Txs
  <2>2. \/ tx'[h] = locked
        \/ tx'[h] = [locked EXCEPT !.balance = stock[row[2]]]
    BY <1>1, <1>5 DEF Lock
  <2>3. /\ [locked EXCEPT !.balance = stock[row[2]]].kind = locked.kind
        /\ [locked EXCEPT !.balance = stock[row[2]]].target = locked.target
        /\ [locked EXCEPT !.balance = stock[row[2]]].qty = locked.qty
        /\ [locked EXCEPT !.balance = stock[row[2]]].held = locked.held
    BY <1>1 DEF Txs
  <2> QED
    BY <2>1, <2>2, <2>3
<1> QED
  BY <1>2, <1>3, <1>4, <1>5

\* A request that begins or goes on keeps the ledger.
LEMMA TxLedger ==
    ASSUME ClientsSerialize, IInv, LedgerInv, NEW h \in Handlers,
           \/ \E s \in Shipments : StartCommit(h, s) \/ StartVoid(h, s)
           \/ \E o \in Orders : StartCancel(h, o)
           \/ CheckDraft(h) \/ ReadOrder(h) \/ Lock(h) \/ Rollback(h)
    PROVE  LedgerInv'
<1>1. UNCHANGED tables /\ tx \in [Handlers -> Txs]
  BY DEF StartCommit, StartVoid, StartCancel, CheckDraft, ReadOrder, Lock, Rollback, Drop, IInv
<1>2. IsFiniteSet(OutOf(shipment, Shipments))' /\ StockBalances' /\ DeliveryBalances'
  BY <1>1, SumsKept DEF tables
<1>3. \A g \in Handlers \ {h} : tx'[g] = tx[g]
  BY <1>1 DEF StartCommit, StartVoid, StartCancel, CheckDraft, ReadOrder, Lock, Rollback, Drop
<1>4. /\ \/ tx'[h].kind = tx[h].kind /\ tx'[h].target = tx[h].target /\ tx'[h].qty = tx[h].qty
            /\ tx[h].held \subseteq tx'[h].held
         \/ tx'[h].kind \notin {"commit", "void"}
         \/ \E s \in Shipments : StartCommit(h, s) \/ StartVoid(h, s)
  <2>1. CASE CheckDraft(h) \/ ReadOrder(h) \/ Lock(h)
    BY <2>1, GoesOn
  <2>2. CASE Rollback(h)
    BY <1>1, <2>2, IdleOK DEF Rollback, Drop
  <2>3. ASSUME NEW o \in Orders, StartCancel(h, o) PROVE tx'[h].kind = "cancel"
    BY <1>1, <2>3 DEF StartCancel, Begin
  <2> QED
    BY <2>1, <2>2, <2>3
<1>5. ASSUME NEW s \in Shipments, StartCommit(h, s)
      PROVE  /\ tx'[h].kind = "commit" /\ tx'[h].target = s /\ tx'[h].qty = shipment[s].qty
             /\ shipment[s].status = "DRAFT" /\ ~Running("commit", s)
  BY <1>1, <1>5 DEF StartCommit, Begin
<1>6. ASSUME NEW s \in Shipments, StartVoid(h, s)
      PROVE  /\ tx'[h].kind = "void" /\ tx'[h].target = s /\ tx'[h].qty = shipment[s].qty
             /\ tx'[h].held = {ShipmentRow(s)} /\ shipment[s].status = "COMMITTED"
  BY <1>1, <1>6 DEF StartVoid, Begin
<1>7. \A g \in Handlers : ShipmentHolds(tx[g])'
  <2>1. ASSUME NEW g \in Handlers \ {h} PROVE ShipmentHolds(tx[g])'
    BY <1>1, <1>3, <2>1 DEF LedgerInv, ShipmentHolds, tables
  <2>2. ShipmentHolds(tx[h])'
    BY <1>1, <1>4, <1>5, <1>6 DEF LedgerInv, ShipmentHolds, tables
  <2> QED
    BY <2>1, <2>2
<1>8. OneCommit'
  BY <1>3, <1>4, <1>5, <1>6 DEF LedgerInv, OneCommit, Running
<1> QED
  BY <1>2, <1>7, <1>8 DEF LedgerInv

\* A request that ends keeps the ledger.
LEMMA FinishLedger ==
    ASSUME IInv, IInv', LedgerInv, NEW h \in Handlers,
           FinishCommit(h) \/ FinishVoid(h) \/ FinishCancel(h)
    PROVE  LedgerInv'
<1>1. tx \in [Handlers -> Txs] /\ tx' = [tx EXCEPT ![h] = Idle]
  BY DEF FinishCommit, FinishVoid, FinishCancel, IInv
<1>2. tx'[h].kind = "idle" /\ \A g \in Handlers \ {h} : tx'[g] = tx[g]
  BY <1>1, IdleOK
<1>3. IsFiniteSet(OutOf(shipment, Shipments))' /\ StockBalances' /\ DeliveryBalances'
  <2>1. CASE FinishCancel(h)
    BY <2>1, SumsKept DEF FinishCancel
  <2> QED
    BY <2>1, CommitBalances, VoidBalances
<1>4. ASSUME NEW g \in Handlers PROVE ShipmentHolds(tx[g])'
  <2>1. ShipmentHolds(tx[g]) /\ ShipmentHolds(tx[h]) /\ TxOK(tx[g]) /\ TxOK(tx[h])
    BY DEF LedgerInv, IInv
  <2>2. CASE g = h
    BY <1>2, <2>2 DEF ShipmentHolds
  <2>3. ASSUME g # h, Delivers(tx[g]), Delivers(tx[h]) PROVE tx[g].target # tx[h].target
    BY <2>1, <2>3 DEF ShipmentHolds, Delivers, LedgerInv, OneCommit, IInv, LocksExclusive
  <2>4. CASE g # h
    <3>1. tx'[g] = tx[g]
      BY <1>2, <2>4
    <3>2. Delivers(tx[g]) => /\ shipment'[tx[g].target].status = shipment[tx[g].target].status
                             /\ shipment'[tx[g].target].qty = shipment[tx[g].target].qty
      <4> SUFFICES ASSUME Delivers(tx[g]) PROVE shipment'[tx[g].target] = shipment[tx[g].target]
        OBVIOUS
      <4>1. tx[g].target \in Shipments /\ shipment \in Records
        BY <2>1 DEF TxOK, LineRowsOK, IInv, TypeOK, Records
      <4>2. CASE FinishCancel(h)
        BY <4>2 DEF FinishCancel
      <4>3. CASE FinishCommit(h) \/ FinishVoid(h)
        <5>1. Delivers(tx[h])
          BY <4>3 DEF Delivers, FinishCommit, FinishVoid
        <5> QED
          BY <2>3, <2>4, <4>1, <4>3, <5>1 DEF FinishCommit, FinishVoid, Records
      <4> QED
        BY <4>2, <4>3
    <3> QED
      BY <2>1, <3>1, <3>2 DEF ShipmentHolds, Delivers
  <2> QED
    BY <2>2, <2>4
<1>5. OneCommit'
  BY <1>2 DEF LedgerInv, OneCommit
<1> QED
  BY <1>3, <1>4, <1>5 DEF LedgerInv

\* With one commit of a draft at a time, what came in is in stock or out with a
\* committed shipment, in quantity and in value, and a line has delivered what its
\* committed shipments carry.
THEOREM LedgerInductive == ASSUME ClientsSerialize PROVE Spec => []LedgerInv
<1>1. Init => LedgerInv
  <2> SUFFICES ASSUME Init PROVE LedgerInv
    OBVIOUS
  <2>1. \A G \in SUBSET Shipments : OutOf(shipment, G) = {}
    BY DEF Init, OutOf
  <2>2. QtyOf(shipment, {}) = 0 /\ CogsOf(shipment, {}) = 0
    BY QtySum, CogsSum, SumEmpty
  <2>3. \A b \in Batches : OfBatch(b) \in SUBSET Shipments
    BY DEF OfBatch
  <2>4. \A l \in Lines : OfLine(l) \in SUBSET Shipments
    BY DEF OfLine
  <2>5. StockBalances /\ DeliveryBalances
    <3>1. ASSUME NEW b \in Batches PROVE OutOf(shipment, OfBatch(b)) = {} /\ stock[b] = Zero /\ received[b] = Zero
      BY <2>1, <2>3 DEF Init
    <3>2. StockBalances
      BY <2>2, <3>1 DEF StockBalances, Zero
    <3>3. ASSUME NEW l \in Lines PROVE OutOf(shipment, OfLine(l)) = {} /\ delivered[l] = 0
      BY <2>1, <2>4 DEF Init
    <3>4. DeliveryBalances
      BY <2>2, <3>3 DEF DeliveryBalances
    <3> QED
      BY <3>2, <3>4
  <2>6. IsFiniteSet(OutOf(shipment, Shipments))
    BY <2>1, FS_EmptySet
  <2>7. \A h \in Handlers : tx[h].kind = "idle"
    BY IdleOK DEF Init
  <2> QED
    BY <2>5, <2>6, <2>7 DEF LedgerInv, ShipmentHolds, OneCommit
<1>2. IInv /\ IInv' /\ LedgerInv /\ [Next]_vars => LedgerInv'
  <2> SUFFICES ASSUME IInv, IInv', LedgerInv, [Next]_vars PROVE LedgerInv'
    OBVIOUS
  <2>1. CASE UNCHANGED vars
    <3>1. IsFiniteSet(OutOf(shipment, Shipments))' /\ StockBalances' /\ DeliveryBalances'
      BY <2>1, SumsKept DEF vars
    <3> QED
      BY <2>1, <3>1 DEF vars, LedgerInv, ShipmentHolds, OneCommit
  <2>2. CASE Next
    <3>1. CASE \/ \E b \in Batches : ReceiveStock(b)
               \/ \E s \in Shipments : CreateDraft(s) \/ PatchDraft(s) \/ VoidDraft(s)
      BY <3>1, SingleRowLedger
    <3>2. ASSUME NEW h \in Handlers,
                 \/ \E s \in Shipments : StartCommit(h, s) \/ StartVoid(h, s)
                 \/ \E o \in Orders : StartCancel(h, o)
                 \/ CheckDraft(h) \/ ReadOrder(h) \/ Lock(h) \/ Rollback(h)
          PROVE  LedgerInv'
      BY <3>2, TxLedger
    <3>3. ASSUME NEW h \in Handlers, FinishCommit(h) \/ FinishVoid(h) \/ FinishCancel(h) PROVE LedgerInv'
      BY <3>3, FinishLedger
    <3> QED
      BY <2>2, <3>1, <3>2, <3>3 DEF Next, Step
  <2> QED
    BY <2>1, <2>2
<1> QED
  BY <1>1, <1>2, Inductive, PTL DEF Spec

\* The ledger balances.
THEOREM LedgerBalances == ASSUME ClientsSerialize PROVE Spec => []StockAccounted
<1>1. LedgerInv => StockAccounted
  BY LedgerWords DEF LedgerInv
<1> QED
  BY <1>1, LedgerInductive, PTL

\* Deliveries are those of committed shipments.
THEOREM DeliveriesBalance == ASSUME ClientsSerialize PROVE Spec => []DeliveredAccounted
<1>1. LedgerInv => DeliveredAccounted
  BY LedgerWords DEF LedgerInv
<1> QED
  BY <1>1, LedgerInductive, PTL

-----------------------------------------------------------------------------
(* Every request acts at once.                                               *)

\* SeenShipments, of the records r and the shipments C of which a commit runs.
Seen(r, C) == [s \in Shipments |->
    IF r[s].status = "VOID" /\ s \in C THEN [r[s] EXCEPT !.status = "DRAFT"] ELSE r[s]]
Committing == {s \in Shipments : Running("commit", s)}

\* The words are the same, before a step and after it.
LEMMA SeenWords ==
    /\ SeenShipments = Seen(shipment, Committing)
    /\ SeenShipments' = Seen(shipment', Committing')
BY DEF SeenShipments, Seen, Committing

\* What is seen of a record: its quantity and cost, and its status but for a draft
\* that is voided and committed at a time.
LEMMA SeenRecord ==
    ASSUME IInv
    PROVE  /\ shipment \in Records /\ SeenShipments \in Records
           /\ \A s \in Shipments :
                /\ SeenShipments[s].qty = shipment[s].qty /\ SeenShipments[s].cogs = shipment[s].cogs
                /\ SeenShipments[s].status =
                     IF shipment[s].status = "VOID" /\ s \in Committing THEN "DRAFT" ELSE shipment[s].status
                /\ shipment[s].status # "VOID" => SeenShipments[s] = shipment[s]
<1>1. shipment \in Records
  BY DEF IInv, TypeOK, Records
<1> QED
  BY <1>1, SeenWords DEF Seen, Records

\* The commits that run when a transaction ends, or is no commit before and after.
LEMMA CommitsEnd ==
    ASSUME IInv, LedgerInv, NEW h \in Handlers, tx'[h].kind # "commit",
           \A g \in Handlers \ {h} : tx'[g] = tx[g]
    PROVE  Committing' = IF tx[h].kind = "commit" THEN Committing \ {tx[h].target} ELSE Committing
BY DEF Committing, Running, LedgerInv, OneCommit

\* A request that is given up leaves no trace, but that the void of the draft it
\* was to commit is seen.
LEMMA DropAtomic ==
    ASSUME IInv, LedgerInv, NEW h \in Handlers, Drop(h)
    PROVE  [Atomic!Next]_Atomic!vars
<1> DEFINE s == tx[h].target
<1>1. /\ tx'[h].kind # "commit" /\ \A g \in Handlers \ {h} : tx'[g] = tx[g]
      /\ UNCHANGED tables /\ UNCHANGED CanceledOrders
  BY IdleOK DEF IInv, Drop, tables, CanceledOrders
<1>2. Committing' = IF tx[h].kind = "commit" THEN Committing \ {s} ELSE Committing
  BY <1>1, CommitsEnd
<1>3. shipment' = shipment /\ shipment \in Records
  BY <1>1, SeenRecord DEF tables
<1>4. ASSUME tx[h].kind = "commit", s \in Shipments, shipment[s].status = "VOID" PROVE Atomic!VoidDraft(s)
  <2>1. s \in Committing
    BY <1>4 DEF Committing, Running
  <2>2. SeenShipments[s] = [shipment[s] EXCEPT !.status = "DRAFT"] /\ SeenShipments'[s] = shipment[s]
    BY <1>2, <1>3, <1>4, <2>1, SeenWords DEF Seen
  <2>3. SeenShipments[s].status = "DRAFT"
    BY <1>3, <1>4, <2>2 DEF Records
  <2>4. [SeenShipments[s] EXCEPT !.status = "VOID"] = shipment[s]
    BY <1>3, <1>4, <2>2 DEF Records
  <2>5. \A z \in Shipments \ {s} : SeenShipments'[z] = SeenShipments[z]
    BY <1>2, <1>3, <1>4, SeenWords DEF Seen
  <2>6. SeenShipments' = [SeenShipments EXCEPT ![s] = shipment[s]]
    BY <1>4, <2>2, <2>5, SeenWords DEF Seen
  <2>7. SeenShipments' = [SeenShipments EXCEPT ![s].status = "VOID"]
    BY <2>4, <2>6
  <2> QED
    BY <1>1, <2>3, <2>7 DEF Atomic!VoidDraft, tables
<1>5. ASSUME ~(tx[h].kind = "commit" /\ s \in Shipments /\ shipment[s].status = "VOID")
      PROVE  SeenShipments' = SeenShipments
  BY <1>2, <1>3, <1>5, SeenWords DEF Seen
<1> QED
  BY <1>1, <1>4, <1>5 DEF Atomic!Next, Atomic!vars, tables

\* What single-row transactions do at once.
LEMMA SingleRowAtomic ==
    ASSUME ClientsSerialize, IInv, LedgerInv,
           \/ \E b \in Batches : ReceiveStock(b)
           \/ \E s \in Shipments : CreateDraft(s) \/ PatchDraft(s) \/ VoidDraft(s)
    PROVE  [Atomic!Next]_Atomic!vars
<1>1. UNCHANGED tx /\ UNCHANGED Committing /\ UNCHANGED CanceledOrders
  BY DEF ReceiveStock, CreateDraft, PatchDraft, VoidDraft, Committing, Running, CanceledOrders
<1>2. shipment \in Records /\ SeenShipments \in Records
  BY SeenRecord
<1>3. ASSUME NEW b \in Batches, ReceiveStock(b) PROVE Atomic!ReceiveStock(b)
  <2>1. SeenShipments' = SeenShipments
    BY <1>1, <1>3, SeenWords DEF ReceiveStock
  <2> QED
    BY <1>1, <1>3, <2>1 DEF ReceiveStock, Atomic!ReceiveStock
<1>4. ASSUME NEW s \in Shipments, CreateDraft(s) PROVE Atomic!CreateDraft(s)
  <2>1. PICK q \in Quantities : /\ shipment[s].status = "none" /\ UNCHANGED <<stock, delivered>>
                                /\ shipment' = [shipment EXCEPT ![s] = [status |-> "DRAFT", qty |-> q, cogs |-> 0]]
    BY <1>4 DEF CreateDraft
  <2>2. SeenShipments[s].status = "none"
    BY <2>1, SeenRecord
  <2>3. SeenShipments' = [SeenShipments EXCEPT ![s] = [status |-> "DRAFT", qty |-> q, cogs |-> 0]]
    BY <1>1, <1>2, <2>1, SeenWords DEF Seen, Records
  <2> QED
    BY <1>1, <2>1, <2>2, <2>3 DEF Atomic!CreateDraft
<1>5. ASSUME NEW s \in Shipments, PatchDraft(s) PROVE Atomic!PatchDraft(s)
  <2>1. PICK q \in Quantities : /\ shipment[s].status = "DRAFT" /\ UNCHANGED <<stock, delivered>>
                                /\ shipment' = [shipment EXCEPT ![s].qty = q]
    BY <1>5 DEF PatchDraft
  <2>2. SeenShipments[s] = shipment[s]
    BY <2>1, SeenRecord
  <2>3. shipment'[s].status = "DRAFT" /\ shipment'[s] = [shipment[s] EXCEPT !.qty = q]
    BY <1>2, <2>1 DEF Records
  <2>4. SeenShipments' = [SeenShipments EXCEPT ![s] = shipment'[s]]
    BY <1>1, <1>2, <2>1, <2>3, SeenWords DEF Seen, Records
  <2>5. SeenShipments' = [SeenShipments EXCEPT ![s].qty = q]
    BY <2>2, <2>3, <2>4
  <2> QED
    BY <1>1, <2>1, <2>2, <2>5 DEF Atomic!PatchDraft
<1>6. ASSUME NEW s \in Shipments, VoidDraft(s) PROVE [Atomic!Next]_Atomic!vars
  <2>1. /\ shipment[s].status = "DRAFT" /\ UNCHANGED <<stock, delivered>>
        /\ shipment' = [shipment EXCEPT ![s].status = "VOID"]
    BY <1>6 DEF VoidDraft
  <2>2. SeenShipments[s] = shipment[s]
    BY <2>1, SeenRecord
  <2>3. shipment'[s] = [shipment[s] EXCEPT !.status = "VOID"] /\ shipment'[s].status = "VOID"
    BY <1>2, <2>1 DEF Records
  <2>4. \A z \in Shipments \ {s} : SeenShipments'[z] = SeenShipments[z]
    BY <1>1, <1>2, <2>1, SeenWords DEF Seen, Records
  <2>5. CASE s \in Committing
    <3>1. SeenShipments'[s] = shipment[s]
      <4>1. SeenShipments'[s] = [shipment'[s] EXCEPT !.status = "DRAFT"]
        BY <1>1, <2>3, <2>5, SeenWords DEF Seen
      <4>2. \A r \in [status : {"none", "DRAFT", "COMMITTED", "VOID"}, qty : Nat, cogs : Nat] :
              r.status = "DRAFT" => [[r EXCEPT !.status = "VOID"] EXCEPT !.status = "DRAFT"] = r
        OBVIOUS
      <4> QED
        BY <1>2, <2>1, <2>3, <4>1, <4>2 DEF Records
    <3>2. SeenShipments' = SeenShipments
      BY <2>2, <2>4, <3>1, SeenWords DEF Seen
    <3> QED
      BY <1>1, <2>1, <3>2 DEF Atomic!vars
  <2>6. CASE s \notin Committing
    <3>1. SeenShipments'[s] = shipment'[s]
      BY <1>1, <2>6, SeenWords DEF Seen
    <3>2. SeenShipments' = [SeenShipments EXCEPT ![s] = shipment'[s]]
      BY <2>4, <3>1, SeenWords DEF Seen
    <3>3. SeenShipments' = [SeenShipments EXCEPT ![s].status = "VOID"]
      BY <2>2, <2>3, <3>2
    <3> QED
      BY <1>1, <2>1, <2>2, <3>3 DEF Atomic!VoidDraft, Atomic!Next
  <2> QED
    BY <2>5, <2>6
<1> QED
  BY <1>3, <1>4, <1>5, <1>6 DEF Atomic!Next

\* A request that begins or goes on is not seen, nor is one that is given up.
LEMMA TxAtomic ==
    ASSUME ClientsSerialize, IInv, LedgerInv, NEW h \in Handlers,
           \/ \E s \in Shipments : StartCommit(h, s) \/ StartVoid(h, s)
           \/ \E o \in Orders : StartCancel(h, o)
           \/ CheckDraft(h) \/ ReadOrder(h) \/ Lock(h) \/ Rollback(h)
    PROVE  [Atomic!Next]_Atomic!vars
<1>1. /\ UNCHANGED tables /\ UNCHANGED CanceledOrders /\ shipment' = shipment
      /\ tx \in [Handlers -> Txs] /\ shipment \in Records
  BY SeenRecord DEF StartCommit, StartVoid, StartCancel, CheckDraft, ReadOrder, Lock, Rollback, Drop, IInv,
     tables, CanceledOrders
<1>2. \A g \in Handlers \ {h} : tx'[g] = tx[g]
  BY <1>1 DEF StartCommit, StartVoid, StartCancel, CheckDraft, ReadOrder, Lock, Rollback, Drop
<1>3. ASSUME UNCHANGED SeenShipments PROVE UNCHANGED Atomic!vars
  BY <1>1, <1>3 DEF Atomic!vars, tables
<1>4. ASSUME NEW s \in Shipments, StartCommit(h, s) PROVE UNCHANGED SeenShipments
  <2>1. tx[h].kind = "idle" /\ tx'[h].kind = "commit" /\ tx'[h].target = s /\ shipment[s].status = "DRAFT"
    BY <1>1, <1>4, IdleOK DEF StartCommit, Begin
  <2>2. Committing' = Committing \union {s}
    BY <1>2, <2>1 DEF Committing, Running
  <2> QED
    BY <1>1, <2>1, <2>2, SeenWords DEF Seen
<1>5. ASSUME \/ \E s \in Shipments : StartVoid(h, s)
             \/ \E o \in Orders : StartCancel(h, o)
      PROVE  UNCHANGED SeenShipments
  <2>1. tx[h].kind = "idle" /\ tx'[h].kind # "commit"
    BY <1>1, <1>5, IdleOK DEF StartVoid, StartCancel, Begin
  <2>2. Committing' = Committing
    BY <1>2, <2>1, CommitsEnd
  <2> QED
    BY <1>1, <2>2, SeenWords
<1>6. CASE CheckDraft(h) \/ ReadOrder(h) \/ Lock(h)
  <2>1. CASE tx'[h].kind = tx[h].kind /\ tx'[h].target = tx[h].target
    <3>1. Committing' = Committing
      BY <1>2, <2>1 DEF Committing, Running
    <3> QED
      BY <1>1, <1>3, <3>1, SeenWords
  <2> QED
    BY <1>6, <2>1, GoesOn, DropAtomic
<1>7. CASE Rollback(h)
  BY <1>7, DropAtomic DEF Rollback
<1> QED
  BY <1>3, <1>4, <1>5, <1>6, <1>7

\* A line has delivered at least what each of its committed shipments carries.
LEMMA DeliveredEnough ==
    ASSUME IInv, LedgerInv, NEW s \in Shipments, shipment[s].status = "COMMITTED"
    PROVE  shipment[s].qty <= delivered[LineOf[s]]
<1> DEFINE G == OfLine(LineOf[s])
           f == Qtys(shipment, Shipments)
<1>1. /\ shipment \in Records /\ LineOf[s] \in Lines
      /\ s \in OutOf(shipment, G) /\ OutOf(shipment, G) \in SUBSET OutOf(shipment, Shipments)
      /\ OutOf(shipment, G) \in SUBSET Shipments
  BY SeenRecord, ShipmentConstants DEF OutOf, OfLine
<1>2. IsFiniteSet(OutOf(shipment, G))
  BY <1>1, FS_Subset DEF LedgerInv
<1>3. delivered[LineOf[s]] = SumOf(f, OutOf(shipment, G))
  BY <1>1, QtySum DEF LedgerInv, DeliveryBalances
<1>4. f[s] = shipment[s].qty /\ \A x \in OutOf(shipment, G) : f[x] \in Int /\ f[x] >= 0
  BY <1>1 DEF Records, Qtys
<1> HIDE DEF f, G
<1> QED
  BY <1>1, <1>2, <1>3, <1>4, SumAtLeast

\* A commit or a void cancels no order.
LEMMA DeliveryCancelsNothing ==
    ASSUME IInv, NEW h \in Handlers, Delivers(tx[h]), Finished(h), WriteStatus(h, OrderOfTx(tx[h]))
    PROVE  CanceledOrders' = CanceledOrders
<1>1. /\ TxOK(tx[h]) /\ ReadHolds(tx[h]) /\ tx[h].next # None /\ orderStatus \in [Orders -> Statuses]
  BY DEF IInv, Finished, TypeOK, Statuses
<1>2. OrderOfTx(tx[h]) \in Orders
  BY <1>1, ShipmentConstants DEF TxOK, LineRowsOK, OrderOfTx
<1>3. \A o \in Orders : orderStatus'[o] = "Canceled" <=> orderStatus[o] = "Canceled"
  BY <1>1, <1>2 DEF WriteStatus, ReadHolds
<1> QED
  BY <1>3 DEF CanceledOrders

\* A commit that ends takes what is in stock at that moment, of a draft.
LEMMA CommitAtomic ==
    ASSUME IInv, LedgerInv, NEW h \in Handlers, FinishCommit(h)
    PROVE  tx[h].target \in Shipments /\ Atomic!Commit(tx[h].target)
<1> DEFINE s == tx[h].target
           q == tx[h].qty
           b == BatchOf[s]
           cogs == CostOf(q, stock[b])
           record == [status |-> "COMMITTED", qty |-> q, cogs |-> cogs]
<1>1. /\ tx \in [Handlers -> Txs] /\ tx[h] \in Txs /\ TxOK(tx[h]) /\ BalanceHolds(tx[h])
      /\ tx[h].todo = <<>> /\ tx[h].kind = "commit" /\ ShipmentHolds(tx[h]) /\ Delivers(tx[h])
  BY DEF IInv, NoLostUpdate, LedgerInv, FinishCommit, Finished, Delivers
<1>2. /\ s \in Shipments /\ BatchOf[s] \in Batches /\ LineOf[s] \in Lines /\ q \in Nat
      /\ shipment[s].status \in {"DRAFT", "VOID"} /\ shipment[s].qty = q
  BY <1>1, ShipmentConstants DEF TxOK, LineRowsOK, ShipmentHolds, Txs
<1>3. tx[h].balance = stock[b] /\ stock[b].qty >= q
  BY <1>1 DEF TxOK, StockOK, BalanceHolds, Ahead
<1>4. shipment \in Records /\ SeenShipments \in Records /\ stock \in [Batches -> Balance] /\ delivered \in [Lines -> Nat]
  BY SeenRecord DEF IInv, TypeOK
<1>5. /\ stock' = [stock EXCEPT ![b] = [qty |-> stock[b].qty - q, value |-> stock[b].value - cogs]]
      /\ shipment' = [shipment EXCEPT ![s].status = "COMMITTED", ![s].cogs = cogs]
      /\ delivered' = [delivered EXCEPT ![LineOf[s]] = @ + q]
  BY <1>1, <1>2, <1>3, <1>4 DEF FinishCommit, Delivered
<1>6. tx'[h].kind # "commit" /\ \A g \in Handlers \ {h} : tx'[g] = tx[g]
  BY <1>1, IdleOK DEF FinishCommit
<1>7. Committing' = Committing \ {s}
  BY <1>1, <1>6, CommitsEnd
<1>8. s \in Committing
  BY <1>1, <1>2 DEF Committing, Running
<1>9. SeenShipments[s].status = "DRAFT" /\ SeenShipments[s].qty = q
  BY <1>2, <1>8, SeenRecord
<1> HIDE DEF cogs
<1>10. shipment'[s] = record /\ \A z \in Shipments \ {s} : shipment'[z] = shipment[z]
  <2>1. \A r \in [status : {"none", "DRAFT", "COMMITTED", "VOID"}, qty : Nat, cogs : Nat] : \A c :
          [r EXCEPT !.status = "COMMITTED", !.cogs = c] = [status |-> "COMMITTED", qty |-> r.qty, cogs |-> c]
    <3> TAKE r \in [status : {"none", "DRAFT", "COMMITTED", "VOID"}, qty : Nat, cogs : Nat]
    <3> TAKE c
    <3> DEFINE a == [status |-> "COMMITTED", qty |-> r.qty, cogs |-> r.cogs]
    <3>1. [r EXCEPT !.status = "COMMITTED"] = a
      OBVIOUS
    <3>2. [a EXCEPT !.cogs = c] = [status |-> "COMMITTED", qty |-> r.qty, cogs |-> c]
      OBVIOUS
    <3> QED
      BY <3>1, <3>2
  <2>2. shipment'[s] = [shipment[s] EXCEPT !.status = "COMMITTED", !.cogs = cogs]
    BY <1>2, <1>4, <1>5 DEF Records
  <2>3. \A z \in Shipments \ {s} : shipment'[z] = shipment[z]
    BY <1>4, <1>5 DEF Records
  <2>4. shipment[s] \in [status : {"none", "DRAFT", "COMMITTED", "VOID"}, qty : Nat, cogs : Nat]
    BY <1>2, <1>4 DEF Records
  <2> QED
    BY <1>2, <2>1, <2>2, <2>3, <2>4
<1>11. SeenShipments' = [SeenShipments EXCEPT ![s] = record]
  BY <1>2, <1>4, <1>7, <1>10, SeenWords DEF Seen
<1>12. UNCHANGED CanceledOrders
  BY <1>1, DeliveryCancelsNothing DEF FinishCommit, OrderOfTx
<1>13. cogs = Atomic!CostOf(q, stock[b])
  BY DEF cogs, CostOf, Atomic!CostOf
<1>14. stock' = [stock EXCEPT ![b] = [qty |-> @.qty - q, value |-> @.value - cogs]]
  BY <1>5
<1>15. q <= stock[b].qty
  BY <1>2, <1>3, <1>4 DEF Balance
<1> QED
  BY <1>2, <1>5, <1>9, <1>11, <1>12, <1>13, <1>14, <1>15 DEF Atomic!Commit

\* A void that ends returns what its shipment took, at the cost it left with.
LEMMA VoidAtomic ==
    ASSUME IInv, LedgerInv, NEW h \in Handlers, FinishVoid(h)
    PROVE  tx[h].target \in Shipments /\ Atomic!Void(tx[h].target)
<1> DEFINE s == tx[h].target
           q == tx[h].qty
           b == BatchOf[s]
<1>1. /\ tx \in [Handlers -> Txs] /\ tx[h] \in Txs /\ TxOK(tx[h]) /\ BalanceHolds(tx[h])
      /\ tx[h].todo = <<>> /\ tx[h].kind = "void" /\ ShipmentHolds(tx[h]) /\ Delivers(tx[h])
  BY DEF IInv, NoLostUpdate, LedgerInv, FinishVoid, Finished, Delivers
<1>2. /\ s \in Shipments /\ BatchOf[s] \in Batches /\ LineOf[s] \in Lines /\ q \in Nat
      /\ shipment[s].status = "COMMITTED" /\ shipment[s].qty = q
  BY <1>1, ShipmentConstants DEF TxOK, LineRowsOK, ShipmentHolds, Txs
<1>3. tx[h].balance = stock[b]
  BY <1>1 DEF TxOK, StockOK, BalanceHolds, Ahead
<1>4. shipment \in Records /\ SeenShipments \in Records /\ stock \in [Batches -> Balance] /\ delivered \in [Lines -> Nat]
  BY SeenRecord DEF IInv, TypeOK
<1>5. q <= delivered[LineOf[s]] /\ SeenShipments[s] = shipment[s]
  BY <1>2, DeliveredEnough, SeenRecord
<1>6. /\ stock' = [stock EXCEPT ![b] = [qty |-> stock[b].qty + q, value |-> stock[b].value + shipment[s].cogs]]
      /\ shipment' = [shipment EXCEPT ![s].status = "VOID"]
      /\ delivered' = [delivered EXCEPT ![LineOf[s]] = IF @ >= q THEN @ - q ELSE 0]
  BY <1>1, <1>2, <1>3, <1>4 DEF FinishVoid, Delivered, Voided
<1>7. delivered' = [delivered EXCEPT ![LineOf[s]] = @ - q]
  BY <1>2, <1>4, <1>5, <1>6
<1>8. tx'[h].kind # "commit" /\ \A g \in Handlers \ {h} : tx'[g] = tx[g]
  BY <1>1, IdleOK DEF FinishVoid
<1>9. Committing' = Committing
  BY <1>1, <1>8, CommitsEnd
<1>10. s \notin Committing
  <2>1. \A g \in Handlers : tx[g].kind = "commit" => shipment[tx[g].target].status # "COMMITTED"
    BY DEF LedgerInv, ShipmentHolds
  <2> QED
    BY <1>2, <2>1 DEF Committing, Running
<1>11. /\ shipment'[s] = [shipment[s] EXCEPT !.status = "VOID"]
       /\ \A z \in Shipments \ {s} : shipment'[z] = shipment[z]
  BY <1>2, <1>4, <1>6 DEF Records
<1>12. SeenShipments' = [SeenShipments EXCEPT ![s] = shipment'[s]]
  BY <1>2, <1>4, <1>9, <1>10, <1>11, SeenWords DEF Seen
<1>13. SeenShipments' = [SeenShipments EXCEPT ![s].status = "VOID"]
  BY <1>5, <1>11, <1>12
<1>14. UNCHANGED CanceledOrders
  BY <1>1, DeliveryCancelsNothing DEF FinishVoid, OrderOfTx
<1>15. stock' = [stock EXCEPT ![b] = [qty |-> @.qty + q, value |-> @.value + shipment[s].cogs]]
  BY <1>6
<1> QED
  BY <1>2, <1>5, <1>7, <1>13, <1>14, <1>15 DEF Atomic!Void

\* A cancellation that ends cancels its order, unless it is canceled already.
LEMMA CancelAtomic ==
    ASSUME IInv, LedgerInv, NEW h \in Handlers, FinishCancel(h)
    PROVE  [Atomic!Next]_Atomic!vars
<1> DEFINE o == tx[h].target
<1>1. /\ tx \in [Handlers -> Txs] /\ tx[h].kind = "cancel" /\ TxOK(tx[h]) /\ WriteStatus(h, o)
      /\ UNCHANGED <<stock, received, shipment, delivered>> /\ tx' = [tx EXCEPT ![h] = Idle]
      /\ orderStatus \in [Orders -> Statuses]
  BY DEF IInv, FinishCancel, TypeOK, Statuses
<1>2. o \in Orders /\ tx[h].next = "Canceled"
  BY <1>1 DEF TxOK, LineRowsOK
<1>3. CanceledOrders' = CanceledOrders \/ CanceledOrders' = CanceledOrders \union {o}
  BY <1>1, <1>2 DEF WriteStatus, CanceledOrders
<1>4. tx'[h].kind # "commit" /\ \A g \in Handlers \ {h} : tx'[g] = tx[g]
  BY <1>1, IdleOK
<1>5. SeenShipments' = SeenShipments
  BY <1>1, <1>4, CommitsEnd, SeenWords
<1> QED
  BY <1>1, <1>2, <1>3, <1>5 DEF Atomic!vars, Atomic!Next, Atomic!Cancel

\* With one commit of a draft at a time, shipments are AtomicShipments: commits,
\* voids, receipts and cancellations act at once, whatever statements interleave
\* and wherever they are rolled back.
THEOREM ImplementsAtomic == ASSUME ClientsSerialize PROVE Spec => ActsAtomically
<1>1. Init => Atomic!Init
  <2> SUFFICES ASSUME Init PROVE Atomic!Init
    OBVIOUS
  <2>1. CanceledOrders = {}
    BY DEF Init, CanceledOrders
  <2>2. SeenShipments = shipment
    BY SeenWords DEF Init, Seen
  <2> QED
    BY <2>1, <2>2 DEF Init, Atomic!Init, Zero
<1>2. IInv /\ LedgerInv /\ [Next]_vars => [Atomic!Next]_Atomic!vars
  <2> SUFFICES ASSUME IInv, LedgerInv, [Next]_vars PROVE [Atomic!Next]_Atomic!vars
    OBVIOUS
  <2>1. CASE UNCHANGED vars
    <3>1. Committing' = Committing /\ CanceledOrders' = CanceledOrders
      BY <2>1 DEF vars, Committing, Running, CanceledOrders
    <3>2. SeenShipments' = SeenShipments
      BY <2>1, <3>1, SeenWords DEF vars
    <3> QED
      BY <2>1, <3>1, <3>2 DEF vars, Atomic!vars
  <2>2. CASE Next
    <3>1. CASE \/ \E b \in Batches : ReceiveStock(b)
               \/ \E s \in Shipments : CreateDraft(s) \/ PatchDraft(s) \/ VoidDraft(s)
      BY <3>1, SingleRowAtomic
    <3>2. ASSUME NEW h \in Handlers,
                 \/ \E s \in Shipments : StartCommit(h, s) \/ StartVoid(h, s)
                 \/ \E o \in Orders : StartCancel(h, o)
                 \/ CheckDraft(h) \/ ReadOrder(h) \/ Lock(h) \/ Rollback(h)
          PROVE  [Atomic!Next]_Atomic!vars
      BY <3>2, TxAtomic
    <3>3. ASSUME NEW h \in Handlers, FinishCommit(h) \/ FinishVoid(h) PROVE Atomic!Next
      BY <3>3, CommitAtomic, VoidAtomic DEF Atomic!Next
    <3>4. ASSUME NEW h \in Handlers, FinishCancel(h) PROVE [Atomic!Next]_Atomic!vars
      BY <3>4, CancelAtomic
    <3> QED
      BY <2>2, <3>1, <3>2, <3>3, <3>4 DEF Next, Step
  <2> QED
    BY <2>1, <2>2
<1> QED
  BY <1>1, <1>2, Inductive, LedgerInductive, PTL DEF Spec, ActsAtomically, Atomic!Spec

-----------------------------------------------------------------------------
(* Deadlocks.                                                                *)

\* Where a commit of s has come to: the rows it holds and has yet to lock.
CommitPlace(s, held, todo) ==
    LET stk == StockRow(BatchOf[s])
        shp == ShipmentRow(s)
        lin == LineRow(LineOf[s])
        ord == OrderRow(OrderOf[LineOf[s]])
    IN \/ held = {} /\ todo = <<stk, shp, lin>>
       \/ held = {stk} /\ todo = <<shp, lin>>
       \/ held = {stk, shp} /\ todo = <<lin>>
       \/ held = {stk, shp, lin} /\ todo \in {<<>>, <<ord>>}
       \/ held = {stk, shp, lin, ord} /\ todo = <<>>
\* And where a void has.
VoidPlace(s, held, todo) ==
    LET stk == StockRow(BatchOf[s])
        shp == ShipmentRow(s)
        lin == LineRow(LineOf[s])
        ord == OrderRow(OrderOf[LineOf[s]])
    IN \/ held = {shp} /\ todo = <<stk, lin>>
       \/ held = {shp, stk} /\ todo = <<lin>>
       \/ held = {shp, stk, lin} /\ todo \in {<<>>, <<ord>>}
       \/ held = {shp, stk, lin, ord} /\ todo = <<>>
\* A cancellation holds its order and asks for nothing but lines of it.
CancelPlace(o, held, todo) ==
    LET lines == {LineRow(l) : l \in LinesOf(o)} IN
    OrderRow(o) \in held /\ held \subseteq {OrderRow(o)} \union lines /\ todo \in Seq(lines)

\* The order in which a transaction locks.
LocksInTurn(t) ==
    /\ t.kind = "idle" => t.held = {} /\ t.todo = <<>>
    /\ t.kind = "commit" => CommitPlace(t.target, t.held, t.todo)
    /\ t.kind = "void" => VoidPlace(t.target, t.held, t.todo)
    /\ t.kind = "cancel" => CancelPlace(t.target, t.held, t.todo)
    /\ Delivers(t) /\ t.next = None =>
          OrderRow(OrderOfTx(t)) \notin t.held /\ t.todo # <<OrderRow(OrderOfTx(t))>>

LockTurns == \A h \in Handlers : LocksInTurn(tx[h])

\* The rows are told apart by what they are rows of.
LEMMA RowsDiffer ==
    /\ \A a, b : StockRow(a) # ShipmentRow(b) /\ StockRow(a) # LineRow(b) /\ StockRow(a) # OrderRow(b)
    /\ \A a, b : ShipmentRow(a) # LineRow(b) /\ ShipmentRow(a) # OrderRow(b) /\ LineRow(a) # OrderRow(b)
    /\ \A a, b : /\ StockRow(a) = StockRow(b) => a = b
                 /\ ShipmentRow(a) = ShipmentRow(b) => a = b
                 /\ LineRow(a) = LineRow(b) => a = b
                 /\ OrderRow(a) = OrderRow(b) => a = b
BY DEF StockRow, ShipmentRow, LineRow, OrderRow

\* A request that begins has yet to lock everything, or but its first row.
LEMMA StartsInTurn ==
    ASSUME IInv, NEW h \in Handlers,
           \/ \E s \in Shipments : StartCommit(h, s) \/ StartVoid(h, s)
           \/ \E o \in Orders : StartCancel(h, o)
    PROVE  LocksInTurn(tx'[h])
<1>1. ASSUME NEW s \in Shipments, StartCommit(h, s) PROVE LocksInTurn(tx'[h])
  <2>1. /\ tx'[h].kind = "commit" /\ tx'[h].target = s /\ tx'[h].held = {}
        /\ tx'[h].todo = <<StockRow(BatchOf[s]), ShipmentRow(s), LineRow(LineOf[s])>>
    BY <1>1 DEF StartCommit, Begin, IInv
  <2> QED
    BY <2>1 DEF LocksInTurn, CommitPlace
<1>2. ASSUME NEW s \in Shipments, StartVoid(h, s) PROVE LocksInTurn(tx'[h])
  <2>1. /\ tx'[h].kind = "void" /\ tx'[h].target = s /\ tx'[h].held = {ShipmentRow(s)}
        /\ tx'[h].todo = <<StockRow(BatchOf[s]), LineRow(LineOf[s])>>
    BY <1>2 DEF StartVoid, Begin, IInv, VoidRows
  <2> QED
    BY <2>1, RowsDiffer DEF LocksInTurn, VoidPlace
<1>3. ASSUME NEW o \in Orders, StartCancel(h, o) PROVE LocksInTurn(tx'[h])
  <2> DEFINE rows == {LineRow(l) : l \in LinesOf(o)}
  <2>1. /\ tx'[h].kind = "cancel" /\ tx'[h].target = o /\ tx'[h].held = {OrderRow(o)}
        /\ tx'[h].todo = SetToSeq(rows)
    BY <1>3 DEF StartCancel, Begin, IInv, CancelRows
  <2>2. SetToSeq(rows) \in Seq(rows)
    <3>1. IsFiniteSet(LinesOf(o))
      BY ShipmentConstants, FS_Subset DEF LinesOf
    <3> DEFINE f == [l \in LinesOf(o) |-> LineRow(l)]
    <3>2. f \in Surjection(LinesOf(o), rows)
      BY DEF Surjection
    <3> HIDE DEF rows
    <3> QED
      BY <3>1, <3>2, FS_Surjection, SequenceOf
  <2> HIDE DEF rows
  <2>3. CancelPlace(o, tx'[h].held, tx'[h].todo)
    BY <2>1, <2>2 DEF CancelPlace, rows
  <2> QED
    BY <2>1, <2>3 DEF LocksInTurn, Delivers
<1> QED
  BY <1>1, <1>2, <1>3

\* A transaction that reads on or locks a row keeps its turns.
LEMMA ProceedsInTurn ==
    ASSUME IInv, LockTurns, NEW h \in Handlers, CheckDraft(h) \/ ReadOrder(h) \/ Lock(h), ~Drop(h)
    PROVE  LocksInTurn(tx'[h])
<1>1. tx[h] \in Txs /\ TxOK(tx[h]) /\ LocksInTurn(tx[h]) /\ tx \in [Handlers -> Txs]
  BY DEF IInv, LockTurns
<1>2. ASSUME CheckDraft(h) PROVE LocksInTurn(tx'[h])
  <2>1. /\ tx'[h].kind = tx[h].kind /\ tx'[h].target = tx[h].target /\ tx'[h].held = tx[h].held
        /\ tx'[h].todo = tx[h].todo /\ tx'[h].next = tx[h].next
    BY <1>1, <1>2 DEF CheckDraft, Txs
  <2> QED
    BY <1>1, <2>1 DEF LocksInTurn, Delivers, OrderOfTx
<1>3. ASSUME ReadOrder(h) PROVE LocksInTurn(tx'[h])
  <2> DEFINE o == OrderOf[LineOf[tx[h].target]]
             status == NextStatus(o, Delivered(h))
  <2>1. Delivers(tx[h]) /\ tx[h].todo = <<>> /\ tx[h].next = None
    BY <1>3 DEF ReadOrder, Delivers
  <2>2. OrderRow(o) \notin tx[h].held
    BY <1>1, <2>1 DEF LocksInTurn, OrderOfTx
  <2>3. /\ tx'[h].kind = tx[h].kind /\ tx'[h].target = tx[h].target /\ tx'[h].held = tx[h].held
        /\ tx'[h].todo \in {<<>>, <<OrderRow(o)>>}
    BY <1>1, <1>3 DEF ReadOrder, Txs
  <2>4. \A x, y, z : <<>> # <<x>> /\ <<>> # <<x, y>> /\ <<>> # <<x, y, z>>
    OBVIOUS
  <2>5. tx[h].kind = "commit" => tx[h].held = {StockRow(BatchOf[tx[h].target]), ShipmentRow(tx[h].target), LineRow(LineOf[tx[h].target])}
    BY <1>1, <2>1, <2>2, <2>4 DEF LocksInTurn, CommitPlace
  <2>6. tx[h].kind = "void" => tx[h].held = {ShipmentRow(tx[h].target), StockRow(BatchOf[tx[h].target]), LineRow(LineOf[tx[h].target])}
    BY <1>1, <2>1, <2>2, <2>4 DEF LocksInTurn, VoidPlace
  <2>9. tx'[h].next # None
    <3>1. status # None
      BY ShipmentConstants DEF NextStatus
    <3>2. tx'[h].next = status
      BY <1>1, <1>3 DEF ReadOrder, Txs
    <3> HIDE DEF status
    <3> QED
      BY <3>1, <3>2
  <2>7. CASE tx[h].kind = "commit"
    BY <2>3, <2>5, <2>7, <2>9 DEF LocksInTurn, CommitPlace, Delivers, OrderOfTx
  <2>8. CASE tx[h].kind = "void"
    BY <2>3, <2>6, <2>8, <2>9 DEF LocksInTurn, VoidPlace, Delivers, OrderOfTx
  <2> QED
    BY <2>1, <2>7, <2>8 DEF Delivers
<1>4. ASSUME Lock(h) PROVE LocksInTurn(tx'[h])
  <2> DEFINE t == tx[h]
             s == t.target
  <2>1. /\ tx'[h].kind = t.kind /\ tx'[h].target = s /\ tx'[h].held = t.held \union {Head(t.todo)}
        /\ tx'[h].todo = Tail(t.todo) /\ tx'[h].next = t.next /\ t.todo # <<>>
    <3> DEFINE locked == [t EXCEPT !.todo = Tail(@), !.held = @ \union {Head(t.todo)}]
    <3>1. /\ locked.kind = t.kind /\ locked.target = s /\ locked.held = t.held \union {Head(t.todo)}
          /\ locked.todo = Tail(t.todo) /\ locked.next = t.next
      BY <1>1 DEF Txs
    <3>2. \A x : [locked EXCEPT !.balance = x].kind = locked.kind
              /\ [locked EXCEPT !.balance = x].target = locked.target
              /\ [locked EXCEPT !.balance = x].held = locked.held
              /\ [locked EXCEPT !.balance = x].todo = locked.todo
              /\ [locked EXCEPT !.balance = x].next = locked.next
      BY <1>1 DEF Txs
    <3>3. \/ tx'[h] = locked
          \/ \E x : tx'[h] = [locked EXCEPT !.balance = x]
      BY <1>1, <1>4 DEF Lock
    <3>4. t.todo # <<>>
      BY <1>4 DEF Lock
    <3> HIDE DEF locked
    <3> QED
      BY <3>1, <3>2, <3>3, <3>4
  <2>2. ASSUME t.kind = "commit" PROVE LocksInTurn(tx'[h])
    <3> DEFINE stk == StockRow(BatchOf[s])
               shp == ShipmentRow(s)
               lin == LineRow(LineOf[s])
               ord == OrderRow(OrderOf[LineOf[s]])
    <3>1. CommitPlace(s, t.held, t.todo)
      BY <1>1, <2>2 DEF LocksInTurn
    <3>2. ord # stk /\ ord # shp /\ ord # lin
      BY RowsDiffer
    <3>3. Delivers(t) /\ OrderOfTx(t) = OrderOf[LineOf[s]]
      BY <2>2 DEF Delivers, OrderOfTx
    <3>4. CASE t.held = {} /\ t.todo = <<stk, shp, lin>>
      BY <2>1, <2>2, <3>2, <3>4 DEF LocksInTurn, CommitPlace, Delivers, OrderOfTx
    <3>5. CASE t.held = {stk} /\ t.todo = <<shp, lin>>
      BY <2>1, <2>2, <3>2, <3>5 DEF LocksInTurn, CommitPlace, Delivers, OrderOfTx
    <3>6. CASE t.held = {stk, shp} /\ t.todo = <<lin>>
      BY <2>1, <2>2, <3>2, <3>6 DEF LocksInTurn, CommitPlace, Delivers, OrderOfTx
    <3>7. CASE t.held = {stk, shp, lin} /\ t.todo = <<ord>>
      <4>1. t.next # None
        BY <1>1, <3>3, <3>7 DEF LocksInTurn
      <4> QED
        BY <2>1, <2>2, <3>2, <3>7, <4>1 DEF LocksInTurn, CommitPlace, Delivers, OrderOfTx
    <3> QED
      BY <2>1, <3>1, <3>4, <3>5, <3>6, <3>7 DEF CommitPlace
  <2>3. ASSUME t.kind = "void" PROVE LocksInTurn(tx'[h])
    <3> DEFINE stk == StockRow(BatchOf[s])
               shp == ShipmentRow(s)
               lin == LineRow(LineOf[s])
               ord == OrderRow(OrderOf[LineOf[s]])
    <3>1. VoidPlace(s, t.held, t.todo)
      BY <1>1, <2>3 DEF LocksInTurn
    <3>2. ord # stk /\ ord # shp /\ ord # lin
      BY RowsDiffer
    <3>3. Delivers(t) /\ OrderOfTx(t) = OrderOf[LineOf[s]]
      BY <2>3 DEF Delivers, OrderOfTx
    <3>4. CASE t.held = {shp} /\ t.todo = <<stk, lin>>
      BY <2>1, <2>3, <3>2, <3>4 DEF LocksInTurn, VoidPlace, Delivers, OrderOfTx
    <3>5. CASE t.held = {shp, stk} /\ t.todo = <<lin>>
      BY <2>1, <2>3, <3>2, <3>5 DEF LocksInTurn, VoidPlace, Delivers, OrderOfTx
    <3>6. CASE t.held = {shp, stk, lin} /\ t.todo = <<ord>>
      <4>1. t.next # None
        BY <1>1, <3>3, <3>6 DEF LocksInTurn
      <4> QED
        BY <2>1, <2>3, <3>2, <3>6, <4>1 DEF LocksInTurn, VoidPlace, Delivers, OrderOfTx
    <3> QED
      BY <2>1, <3>1, <3>4, <3>5, <3>6 DEF VoidPlace
  <2>4. ASSUME t.kind = "cancel" PROVE LocksInTurn(tx'[h])
    <3> DEFINE lines == {LineRow(l) : l \in LinesOf(s)}
    <3>1. OrderRow(s) \in t.held /\ t.held \subseteq {OrderRow(s)} \union lines /\ t.todo \in Seq(lines)
      BY <1>1, <2>4 DEF LocksInTurn, CancelPlace
    <3> HIDE DEF lines
    <3>2. Head(t.todo) \in lines /\ Tail(t.todo) \in Seq(lines)
      BY <2>1, <3>1
    <3>3. CancelPlace(s, tx'[h].held, tx'[h].todo)
      BY <2>1, <3>1, <3>2 DEF CancelPlace, lines
    <3> QED
      BY <2>1, <2>4, <3>3 DEF LocksInTurn, Delivers
  <2>5. t.kind # "idle"
    BY <1>1, <2>1 DEF LocksInTurn
  <2> QED
    BY <1>1, <2>2, <2>3, <2>4, <2>5 DEF Txs
<1> QED
  BY <1>2, <1>3, <1>4

\* Every transaction locks in turn.
THEOREM LocksTakeTurns == Spec => []LockTurns
<1>1. Init => LockTurns
  BY DEF Init, LockTurns, LocksInTurn, Idle, Begin, Delivers
<1>2. IInv /\ LockTurns /\ [Next]_vars => LockTurns'
  <2> SUFFICES ASSUME IInv, LockTurns, [Next]_vars, NEW g \in Handlers PROVE LocksInTurn(tx'[g])
    BY DEF LockTurns, LocksInTurn, Delivers, OrderOfTx
  <2>1. ASSUME tx'[g] = tx[g] PROVE LocksInTurn(tx'[g])
    BY <2>1 DEF LockTurns
  <2>2. ASSUME tx'[g] = Idle PROVE LocksInTurn(tx'[g])
    BY <2>2 DEF LocksInTurn, Idle, Begin, Delivers
  <2>3. ASSUME NEW h \in Handlers, tx' = [tx EXCEPT ![h] = Idle] PROVE LocksInTurn(tx'[g])
    BY <2>1, <2>2, <2>3 DEF IInv
  <2>4. ASSUME UNCHANGED tx PROVE LocksInTurn(tx'[g])
    BY <2>1, <2>4
  <2>5. CASE \/ \E b \in Batches : ReceiveStock(b)
             \/ \E s \in Shipments : CreateDraft(s) \/ PatchDraft(s) \/ VoidDraft(s)
    BY <2>4, <2>5 DEF ReceiveStock, CreateDraft, PatchDraft, VoidDraft
  <2>6. ASSUME NEW h \in Handlers, \/ \E s \in Shipments : StartCommit(h, s) \/ StartVoid(h, s)
                                   \/ \E o \in Orders : StartCancel(h, o)
        PROVE  LocksInTurn(tx'[g])
    <3>1. g # h => tx'[g] = tx[g]
      BY <2>6 DEF StartCommit, StartVoid, StartCancel, IInv
    <3> QED
      BY <2>1, <2>6, <3>1, StartsInTurn
  <2>7. ASSUME NEW h \in Handlers, CheckDraft(h) \/ ReadOrder(h) \/ Lock(h), ~Drop(h)
        PROVE  LocksInTurn(tx'[g])
    <3>1. g # h => tx'[g] = tx[g]
      BY <2>7 DEF CheckDraft, ReadOrder, Lock, IInv
    <3> QED
      BY <2>1, <2>7, <3>1, ProceedsInTurn
  <2>8. ASSUME NEW h \in Handlers, Drop(h) \/ FinishCommit(h) \/ FinishVoid(h) \/ FinishCancel(h)
        PROVE  LocksInTurn(tx'[g])
    BY <2>3, <2>8 DEF Drop, FinishCommit, FinishVoid, FinishCancel
  <2>9. CASE UNCHANGED vars
    BY <2>4, <2>9 DEF vars
  <2> QED
    BY <2>5, <2>6, <2>7, <2>8, <2>9 DEF Next, Step, Rollback
<1> QED
  BY <1>1, <1>2, Inductive, PTL DEF Spec

\* What a transaction that waits may hold: of an order row, only a cancellation; of a
\* line row, a cancellation or one that waits for its order; of a shipment row, a void
\* or one that waits for a line or an order; of a stock record, one that waits for
\* another kind of row.
LEMMA WaitersHold ==
    ASSUME IInv, LockTurns, NEW h \in Handlers, tx[h].todo # <<>>
    PROVE  /\ \A o : OrderRow(o) \in tx[h].held => tx[h].kind = "cancel" /\ tx[h].target = o
           /\ \A l : LineRow(l) \in tx[h].held =>
                \/ tx[h].kind = "cancel" /\ l \in LinesOf(tx[h].target)
                \/ Delivers(tx[h]) /\ Head(tx[h].todo) = OrderRow(OrderOfTx(tx[h]))
           /\ \A s : ShipmentRow(s) \in tx[h].held =>
                \/ tx[h].kind = "void" /\ tx[h].target = s
                \/ Head(tx[h].todo) \in {LineRow(LineOf[tx[h].target]), OrderRow(OrderOfTx(tx[h]))}
           /\ \A b : StockRow(b) \in tx[h].held =>
                Head(tx[h].todo) \in {ShipmentRow(tx[h].target), LineRow(LineOf[tx[h].target]),
                                     OrderRow(OrderOfTx(tx[h]))}
<1> DEFINE t == tx[h]
           stk == StockRow(BatchOf[t.target])
           shp == ShipmentRow(t.target)
           lin == LineRow(LineOf[t.target])
           ord == OrderRow(OrderOf[LineOf[t.target]])
<1>1. t \in Txs /\ LocksInTurn(t) /\ t.kind # "idle" /\ OrderRow(OrderOfTx(t)) = ord
  BY DEF IInv, LockTurns, LocksInTurn, OrderOfTx
<1>2. CASE t.kind = "commit"
  <2>1. \/ t.held = {}
        \/ t.held = {stk} /\ Head(t.todo) = shp
        \/ t.held = {stk, shp} /\ Head(t.todo) = lin
        \/ t.held = {stk, shp, lin} /\ Head(t.todo) = ord
    BY <1>1, <1>2 DEF LocksInTurn, CommitPlace
  <2> QED
    BY <1>1, <1>2, <2>1, RowsDiffer DEF Delivers
<1>3. CASE t.kind = "void"
  <2>1. \/ t.held = {shp}
        \/ t.held = {shp, stk} /\ Head(t.todo) = lin
        \/ t.held = {shp, stk, lin} /\ Head(t.todo) = ord
    BY <1>1, <1>3 DEF LocksInTurn, VoidPlace
  <2> QED
    BY <1>1, <1>3, <2>1, RowsDiffer DEF Delivers
<1>4. CASE t.kind = "cancel"
  <2>1. t.held \subseteq {OrderRow(t.target)} \union {LineRow(l) : l \in LinesOf(t.target)}
    BY <1>1, <1>4 DEF LocksInTurn, CancelPlace
  <2> QED
    BY <1>4, <2>1, RowsDiffer
<1> QED
  BY <1>1, <1>2, <1>3, <1>4 DEF Txs

\* What a transaction that waits asks for.
LEMMA WaitersAsk ==
    ASSUME IInv, LockTurns, NEW h \in Handlers, tx[h].todo # <<>>
    PROVE  \/ tx[h].kind = "cancel" /\ \E l \in LinesOf(tx[h].target) : Head(tx[h].todo) = LineRow(l)
           \/ Delivers(tx[h]) /\ Head(tx[h].todo) \in {StockRow(BatchOf[tx[h].target]),
                LineRow(LineOf[tx[h].target]), OrderRow(OrderOfTx(tx[h]))}
           \/ tx[h].kind = "commit" /\ Head(tx[h].todo) = ShipmentRow(tx[h].target)
<1> DEFINE t == tx[h]
<1>1. t \in Txs /\ LocksInTurn(t) /\ t.kind # "idle"
  BY DEF IInv, LockTurns, LocksInTurn
<1>2. CASE t.kind = "commit"
  BY <1>1, <1>2 DEF LocksInTurn, CommitPlace, Delivers, OrderOfTx
<1>3. CASE t.kind = "void"
  BY <1>1, <1>3 DEF LocksInTurn, VoidPlace, Delivers, OrderOfTx
<1>4. CASE t.kind = "cancel"
  <2> DEFINE lines == {LineRow(l) : l \in LinesOf(t.target)}
  <2>1. t.todo \in Seq(lines)
    BY <1>1, <1>4 DEF LocksInTurn, CancelPlace
  <2> HIDE DEF lines
  <2>2. Head(t.todo) \in lines
    BY <2>1
  <2> QED
    BY <1>4, <2>2 DEF lines
<1> QED
  BY <1>1, <1>2, <1>3, <1>4 DEF Txs

\* Whoever waits in a circle without such a pair waits for no order, hence for no
\* line, hence for no shipment, hence for no stock record.
LEMMA CirclesExplained ==
    ASSUME IInv, LockTurns, ClientsSerialize => \A h \in Handlers : ShipmentHolds(tx[h])
    PROVE  DeadlocksExplained
<1> SUFFICES ASSUME NEW C \in SUBSET Handlers, C # {}, \A g \in C : \E f \in C : WaitsFor(g, f),
                    \A g, h \in C : ~OrderBeforeLine(g, h) /\ (ClientsSerialize \/ ~StockBeforeShipment(g, h))
             PROVE  FALSE
  BY DEF DeadlocksExplained, Deadlocks
<1>1. \A g \in C : g \in Handlers /\ tx[g].todo # <<>>
  BY DEF WaitsFor
<1>2. ASSUME NEW g \in C, Delivers(tx[g]) PROVE Head(tx[g].todo) # OrderRow(OrderOfTx(tx[g]))
  <2> SUFFICES ASSUME Head(tx[g].todo) = OrderRow(OrderOfTx(tx[g])) PROVE FALSE
    OBVIOUS
  <2>1. PICK f \in C : OrderRow(OrderOfTx(tx[g])) \in tx[f].held
    BY DEF WaitsFor
  <2>2. tx[f].kind = "cancel" /\ tx[f].target = OrderOfTx(tx[g])
    BY <1>1, <2>1, WaitersHold
  <2> QED
    BY <1>2, <2>2 DEF OrderBeforeLine, OrderOfTx, Delivers
<1>3. ASSUME NEW g \in C, NEW l, Head(tx[g].todo) = LineRow(l) PROVE FALSE
  <2>1. PICK f \in C : f # g /\ LineRow(l) \in tx[f].held
    BY <1>3 DEF WaitsFor
  <2>2. tx[f].kind = "cancel" /\ l \in LinesOf(tx[f].target)
    BY <1>1, <1>2, <2>1, WaitersHold
  <2>3. CASE tx[g].kind = "cancel"
    <3>1. l \in LinesOf(tx[g].target)
      BY <1>1, <1>3, <2>3, WaitersAsk, RowsDiffer DEF Delivers
    <3>2. tx[g].target = tx[f].target
      BY <2>2, <3>1 DEF LinesOf
    <3>3. OrderRow(tx[g].target) \in tx[g].held /\ OrderRow(tx[f].target) \in tx[f].held
      BY <1>1, <2>2, <2>3 DEF LockTurns, LocksInTurn, CancelPlace
    <3> QED
      BY <1>1, <2>1, <3>2, <3>3 DEF IInv, LocksExclusive
  <2>4. CASE Delivers(tx[g])
    <3>1. l = LineOf[tx[g].target]
      BY <1>1, <1>3, <2>4, WaitersAsk, RowsDiffer DEF Delivers
    <3> QED
      BY <2>2, <2>4, <3>1 DEF OrderBeforeLine, LinesOf, Delivers
  <2> QED
    BY <1>1, <2>3, <2>4, WaitersAsk DEF Delivers
<1>4. ASSUME NEW g \in C, tx[g].kind = "commit", Head(tx[g].todo) = ShipmentRow(tx[g].target) PROVE FALSE
  <2>1. PICK f \in C : f # g /\ ShipmentRow(tx[g].target) \in tx[f].held
    BY <1>4 DEF WaitsFor
  <2>2. \/ tx[f].kind = "void" /\ tx[f].target = tx[g].target
        \/ Head(tx[f].todo) = OrderRow(OrderOfTx(tx[f]))
    BY <1>1, <1>3, <2>1, WaitersHold
  <2>3. Head(tx[f].todo) # OrderRow(OrderOfTx(tx[f]))
    BY <1>1, <1>2, WaitersAsk, RowsDiffer DEF Delivers
  <2>4. tx[f].kind = "void" /\ tx[f].target = tx[g].target
    BY <2>2, <2>3
  <2>5. CASE ClientsSerialize
    BY <1>1, <1>4, <2>4, <2>5 DEF ShipmentHolds
  <2>6. CASE ~ClientsSerialize
    BY <1>4, <2>4, <2>6 DEF StockBeforeShipment
  <2> QED
    BY <2>5, <2>6
<1>5. ASSUME NEW g \in C PROVE Delivers(tx[g]) /\ Head(tx[g].todo) = StockRow(BatchOf[tx[g].target])
  BY <1>1, <1>2, <1>3, <1>4, WaitersAsk
<1>6. PICK g \in C : TRUE
  OBVIOUS
<1>7. PICK f \in C : StockRow(BatchOf[tx[g].target]) \in tx[f].held
  BY <1>5 DEF WaitsFor
<1>8. Head(tx[f].todo) \in {ShipmentRow(tx[f].target), LineRow(LineOf[tx[f].target]), OrderRow(OrderOfTx(tx[f]))}
  BY <1>1, <1>7, WaitersHold
<1> QED
  BY <1>5, <1>8, RowsDiffer

\* Commits and voids never wait for one another in a circle: a deadlock takes a
\* cancellation and a delivery of its order, or a second commit of one draft.
THEOREM DeadlocksAreExplained == Spec => []DeadlocksExplained
<1>1. CASE ClientsSerialize
  <2>1. IInv /\ LockTurns /\ LedgerInv => DeadlocksExplained
    BY CirclesExplained DEF LedgerInv
  <2>2. Spec => []LedgerInv
    BY <1>1, LedgerInductive
  <2> QED
    BY <2>1, <2>2, Inductive, LocksTakeTurns, PTL
<1>2. CASE ~ClientsSerialize
  <2>1. IInv /\ LockTurns => DeadlocksExplained
    BY <1>2, CirclesExplained
  <2> QED
    BY <2>1, Inductive, LocksTakeTurns, PTL
<1> QED
  BY <1>1, <1>2

=============================================================================
