SPECIFICATION Spec
CONSTANTS
    Warehouses = {main, branch}
    Main = main
    Sites = {main}
    Batches = {0, 1}
    NoBatch = NoBatch
    Orders = {o1}
    Arrivals = {a1}
    Counts = {c1}
    Keys = {k1}
    None = None
    Owed = 1
    MaxDay = 1
    MaxStock = 2
    MaxQty = 1
    MaxGap = 1
    MaxUnderway = 1

INVARIANTS
    StockTypeOK
    ReserveIsPromised
    
PROPERTIES
    JournalExplains
    BatchesFollowShelf
    
    
    FirstExpiredFirst
