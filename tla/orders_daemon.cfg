SPECIFICATION FairSpec
CONSTANTS
    Buyers = {b1}
    Sellers = {s1}
    Checkers = {k1}
    BuyAmount = 2
    OtherInOrders = 0
    Overlap = TRUE
    MaxOrders = 3
    MaxFaults = 0
INVARIANTS
    OverlapPostings
PROPERTIES
    FillsSettle
    CancelsRefunded
