SPECIFICATION Spec
CONSTANTS
    o1 = o1
    l1 = l1
    l2 = l2
    b1 = b1
    b2 = b2
    m1 = m1
    Orders = {o1}
    Lines = {l1, l2}
    OrderOf <- MCOrderOf
    Customers = {k1}
    Specs = {s1}
    Materials = {m1}
    Batches = {b1}
    MaterialOf <- MCMaterialOf
    Recipes <- MCRecipes
    Docs = {d1, d2}
    Commands = {c1, c2, c3, c4}
    Reserved <- MCReserved
    Receipts <- MCReceipts
    None = None
    MaxOrderVersion = 2
    MaxAllocQty = 2
    MaxAllocs = 2
    MaxReceived = 3
CONSTRAINT WarehouseFocus
SYMMETRY Symmetry
INVARIANTS
    TypeOK
    VersionCountsHistory
    ReceiptsMatchEffects
    AllocationsBounded
    CustodyConserved
    PendingBacksOutstanding
CHECK_DEADLOCK FALSE
