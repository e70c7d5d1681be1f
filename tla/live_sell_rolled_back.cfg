SPECIFICATION Spec
CONSTANTS
    Buyers = {b1}
    Sellers = {s1}
    Checkers = {k1}
    BuyAmount = 2
    OtherInOrders = 2
    Overlap = FALSE
    MaxOrders = 3
    MaxFaults = 1
INVARIANTS
    RollbackOnlyIfGone
