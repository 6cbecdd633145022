SPECIFICATION Spec
CONSTANTS
    a = a
    b = b
    north = north
    south = south
    an = an
    as = as
    bn = bn
    bs = bs
    o1 = o1
    x1 = x1
    x2 = x2
    Levels = {an, as, bn, bs}
    Products = {a, b}
    Warehouses = {north, south}
    Orders = {o1}
    Transfers = {x1, x2}
    Transactions = {t1, t2, t3}
    ProductOf <- Goods
    WarehouseOf <- Place
    LevelsOf <- OfOrder
    From <- Source
    To <- Target
    ItemsOf <- Content
    Rank <- Ids
    Turn <- ItemIds
    Width = 4
SYMMETRY Interchangeable
INVARIANTS
    OrderedNeverDeadlock
    LevelsNeverDeadlock
