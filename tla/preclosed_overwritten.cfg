SPECIFICATION Spec
CONSTANTS
    Buyers = {b1}
    Sellers = {s1}
    Checkers = {k1}
    BuyAmount = 2
    OtherInOrders = 2
    Overlap = TRUE
    MaxOrders = 3
    MaxFaults = 0
INVARIANTS
    PreclosedExact
