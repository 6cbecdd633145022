SPECIFICATION InventorySpec
CONSTANTS
    l1 = l1
    l2 = l2
    w1 = w1
    s1 = s1
    o1 = o1
    Levels = {l1, l2}
    Orders = {o1}
    Walkins = {s1}
    ProductOf <- OwnProduct
    WarehouseOf <- OneWarehouse
    InitialStock <- OneAndTwo
    MaxQty = 2
    MaxStock = 2
    TTL = 1
    MaxWait = 1
    MaxTime = 2
    Writers = {t1, t2, t3}
    Audited = {l1}
    Clerks = {u1, u2}
    Values = {1, 2}
    MovementIds = {1, 2, 3}
    LastTick = 2
SYMMETRY Interchangeable
CHECK_DEADLOCK FALSE
INVARIANTS
    NoOversell
    OrderMatchesHolds
    TrailTellsAll
PROPERTIES
    ImplementsLedger
