SPECIFICATION ListedSpec
CONSTANTS
    north = north
    south = south
    o1 = o1
    t1 = t1
    t2 = t2
    Levels = {north, south}
    Orders = {o1}
    Walkins = {}
    Transfers = {t1, t2}
    WarehouseOf <- Place
    ProductOf <- Goods
    InitialStock <- StockInNorth
    MaxQty = 1
    MaxStock = 2
    TTL = 1
    MaxWait = 1
    MaxTime = 2
    MaxRows = 5
    Tenant <- FourOfAcme
    RowStatuses = {"pending", "in_transit"}
    Moves <- Dispatched
    PageSize = 2
    MaxSwitches = 1
    Absent = Absent
    Shelves = {1, 2, 3, 4, 5}
    ShelfCode <- Backwards
    Free <- SomeFree
    PolicyInputs <- SomePolicies
    PageRows = 2
    DonorLimit = 1
    CandidateBudget = 3
    MaxChanges = 1
    None = None
CHECK_DEADLOCK FALSE
INVARIANTS
    ListedTypeOK
    GoodsConserved
    ShowsItsScope
    NothingSkipped
    WaitsForAnAnswer
    ListsEveryLow
PROPERTIES
    ImplementsLedger
    BestAdvice
