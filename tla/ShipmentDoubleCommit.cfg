SPECIFICATION Spec
CONSTANTS
    o1 = o1
    b1 = b1
    b2 = b2
    Orders = {o1}
    Lines = {l1}
    OrderOf <- MCOrderOf
    Ordered <- MCOrdered
    Shipments = {s1, s2}
    LineOf <- MCOneLine
    BatchOf <- MCBatchOf
    Batches = {b1}
    Quantities = {1, 2}
    Receipts <- MCReceipts
    MaxReceived = 3
    Handlers = {h1, h2, h3}
    ClientsSerialize = FALSE
    None = None
SYMMETRY Symmetry
PROPERTY CommitsOnlyDrafts
CHECK_DEADLOCK FALSE
