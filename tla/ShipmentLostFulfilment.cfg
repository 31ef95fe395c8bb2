SPECIFICATION Spec
CONSTANTS
    o1 = o1
    b1 = b1
    b2 = b2
    Orders = {o1}
    Lines = {l1, l2}
    OrderOf <- MCOrderOf
    Ordered <- MCOrdered
    Shipments = {s1, s2}
    LineOf <- MCOwnLine
    BatchOf <- MCOwnBatch
    Batches = {b1, b2}
    Quantities = {1, 2}
    Receipts <- MCOneReceipt
    MaxReceived = 3
    Handlers = {h1, h2, h3}
    ClientsSerialize = TRUE
    None = None
INVARIANT FulfilmentReflected
CHECK_DEADLOCK FALSE
