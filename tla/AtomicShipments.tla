---------------------------- MODULE AtomicShipments ----------------------------
(***************************************************************************)
(* What shipments promise to who does not see their statements: each commit, *)
(* void, receipt and cancellation happens at once or not at all.  A commit is *)
(* of a draft, takes what is there at the average cost of that moment, and    *)
(* gives it to the line; a void of it returns both, at the cost it left with; *)
(* a canceled order stays canceled.                                          *)
(***************************************************************************)
EXTENDS Naturals

CONSTANTS Orders, Lines, Shipments, LineOf, Batches, BatchOf, Quantities, Receipts

VARIABLES
    stock,      \* quantity and value of each inventory record
    shipment,   \* status, quantity and cost of each shipment
    delivered,  \* what each line has delivered
    canceled    \* the canceled orders

vars == <<stock, shipment, delivered, canceled>>

Init ==
    /\ stock = [b \in Batches |-> [qty |-> 0, value |-> 0]]
    /\ shipment = [s \in Shipments |-> [status |-> "none", qty |-> 0, cogs |-> 0]]
    /\ delivered = [l \in Lines |-> 0]
    /\ canceled = {}

ReceiveStock(b) == \E r \in Receipts :
    /\ stock' = [stock EXCEPT ![b] = [qty |-> @.qty + r.qty, value |-> @.value + r.value]]
    /\ UNCHANGED <<shipment, delivered, canceled>>

CreateDraft(s) == \E q \in Quantities :
    /\ shipment[s].status = "none"
    /\ shipment' = [shipment EXCEPT ![s] = [status |-> "DRAFT", qty |-> q, cogs |-> 0]]
    /\ UNCHANGED <<stock, delivered, canceled>>

PatchDraft(s) == \E q \in Quantities :
    /\ shipment[s].status = "DRAFT"
    /\ shipment' = [shipment EXCEPT ![s].qty = q]
    /\ UNCHANGED <<stock, delivered, canceled>>

VoidDraft(s) ==
    /\ shipment[s].status = "DRAFT"
    /\ shipment' = [shipment EXCEPT ![s].status = "VOID"]
    /\ UNCHANGED <<stock, delivered, canceled>>

\* The cost of q at the average cost of a record.
CostOf(q, balance) == (q * balance.value) \div balance.qty

Commit(s) ==
    LET balance == stock[BatchOf[s]]
        q == shipment[s].qty
        cogs == CostOf(q, balance)
    IN /\ shipment[s].status = "DRAFT" /\ q <= balance.qty
       /\ stock' = [stock EXCEPT ![BatchOf[s]] = [qty |-> @.qty - q, value |-> @.value - cogs]]
       /\ shipment' = [shipment EXCEPT ![s] = [status |-> "COMMITTED", qty |-> q, cogs |-> cogs]]
       /\ delivered' = [delivered EXCEPT ![LineOf[s]] = @ + q]
       /\ UNCHANGED canceled

Void(s) ==
    LET q == shipment[s].qty
        cogs == shipment[s].cogs
    IN /\ shipment[s].status = "COMMITTED" /\ q <= delivered[LineOf[s]]
       /\ stock' = [stock EXCEPT ![BatchOf[s]] = [qty |-> @.qty + q, value |-> @.value + cogs]]
       /\ shipment' = [shipment EXCEPT ![s].status = "VOID"]
       /\ delivered' = [delivered EXCEPT ![LineOf[s]] = @ - q]
       /\ UNCHANGED canceled

Cancel(o) ==
    /\ o \notin canceled
    /\ canceled' = canceled \union {o}
    /\ UNCHANGED <<stock, shipment, delivered>>

Next ==
    \/ \E b \in Batches : ReceiveStock(b)
    \/ \E s \in Shipments : CreateDraft(s) \/ PatchDraft(s) \/ VoidDraft(s) \/ Commit(s) \/ Void(s)
    \/ \E o \in Orders : Cancel(o)

Spec == Init /\ [][Next]_vars

=============================================================================
