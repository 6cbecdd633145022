SPECIFICATION CheckoutSpec
CONSTANTS
    l1 = l1
    o1 = o1
    p1 = p1
    p2 = p2
    r1 = r1
    Levels = {l1}
    Orders = {o1}
    Walkins = {}
    ProductOf <- OfOneProduct
    WarehouseOf <- InOneWarehouse
    InitialStock <- OneUnit
    MaxQty = 1
    MaxStock = 1
    TTL = 1
    MaxWait = 0
    MaxTime = 2
    Payments = {p1, p2}
    PaymentFor <- ForOneOrder
    Workers = {r1}
    CheckoutTTL = 1
    InitWindow = 2
    EventRetention = 2
    MaxReconcile = 1
    MaxCrashes = 1
    Verdicts <- MayDisagree
INVARIANTS
    CheckoutTypeOK
    OneCharge
    PaymentMatchesOrder
    SuccessIsBooked
PROPERTIES
    ImplementsStock
CHECK_DEADLOCK FALSE
