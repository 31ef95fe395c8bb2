SPECIFICATION Spec
CONSTANTS
    o1 = o1
    l1 = l1
    l2 = l2
    b1 = b1
    b2 = b2
    m1 = m1
    Orders = {o1}
    Lines = {l1, l2}
    OrderOf <- MCOrderOf
    Customers = {k1, k2}
    Specs = {s1, s2}
    Materials = {m1}
    Batches = {}
    MaterialOf <- MCMaterialOf
    Recipes <- MCOneRecipe
    Docs = {d1, d2}
    Commands = {c1, c2, c3}
    Reserved <- MCReserved
    Receipts <- MCReceipts
    None = None
    MaxOrderVersion = 4
    MaxAllocQty = 2
    MaxAllocs = 2
    MaxReceived = 3
SYMMETRY Symmetry
INVARIANTS
    CoverageExact
    FrozenSourceProtected
    AnswersMatchReceipts
CHECK_DEADLOCK FALSE
