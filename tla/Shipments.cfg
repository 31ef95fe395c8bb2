SPECIFICATION Spec
CONSTANTS
    o1 = o1
    b1 = b1
    b2 = b2
    Orders = {o1}
    Lines = {l1}
    OrderOf <- MCOrderOf
    Ordered <- MCOrdered
    Shipments = {s1, s2, s3}
    LineOf <- MCOneLine
    BatchOf <- MCBatchOf
    Batches = {b1}
    Quantities = {1, 2}
    Receipts <- MCReceipts
    MaxReceived = 4
    Handlers = {h1, h2, h3}
    ClientsSerialize = TRUE
    None = None
SYMMETRY Symmetry
INVARIANTS
    TypeOK
    StockAccounted
    DeliveredAccounted
    DeadlocksExplained
PROPERTY ActsAtomically
CHECK_DEADLOCK FALSE
