SPECIFICATION FairCheckoutSpec
CONSTANTS
    l1 = l1
    o1 = o1
    p1 = p1
    p2 = p2
    r1 = r1
    r2 = r2
    Levels = {l1}
    Orders = {o1}
    Walkins = {}
    ProductOf <- OfOneProduct
    WarehouseOf <- InOneWarehouse
    InitialStock <- OneUnit
    MaxQty = 1
    MaxStock = 1
    TTL = 1
    MaxWait = 0
    MaxTime = 3
    Payments = {p1}
    PaymentFor <- ForOneOrder
    Workers = {r1, r2}
    CheckoutTTL = 1
    InitWindow = 2
    EventRetention = 2
    MaxReconcile = 1
    MaxCrashes = 1
    Verdicts <- Agree
INVARIANTS
    ChargeHasStock
    ClosedMeansUnpayable
PROPERTIES
    TerminalIsFinal
    ChargeIsBooked
    CheckoutEnds
CHECK_DEADLOCK FALSE
