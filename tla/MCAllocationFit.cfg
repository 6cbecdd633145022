SPECIFICATION Spec
CONSTANTS
    w1 = w1
    w2 = w2
    w3 = w3
    Products = {p1, p2}
    Warehouses = {w1, w2, w3}
    Code <- ByName
    MaxQty = 4
    MaxStock = 2
INVARIANTS
    DecisionsFit
CHECK_DEADLOCK FALSE
