-------------------------- MODULE MCInventoryShipment --------------------------
(* Small instances of InventoryShipment for TLC. *)
EXTENDS InventoryShipment, TLC

CONSTANTS o1, b1, b2

MCOrderOf == [l \in Lines |-> o1]
MCOrdered == [l \in Lines |-> 2]
MCBatchOf == [s \in Shipments |-> b1]
MCOwnBatch == CHOOSE f \in [Shipments -> Batches] : \A s, t \in Shipments : s # t => f[s] # f[t]
\* All shipments deliver one line, or each a line of its own.
MCOneLine == [s \in Shipments |-> CHOOSE l \in Lines : TRUE]
MCOwnLine == CHOOSE f \in [Shipments -> Lines] : \A s, t \in Shipments : s # t => f[s] # f[t]
MCReceipts == {[qty |-> 2, value |-> 2], [qty |-> 1, value |-> 4]}
MCOneReceipt == {[qty |-> 2, value |-> 2]}

Symmetry == Permutations(Handlers) \union Permutations(Shipments)

=============================================================================
