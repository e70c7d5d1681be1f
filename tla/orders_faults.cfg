SPECIFICATION FairSpec
CONSTANTS
    Buyers = {b1}
    Sellers = {s1}
    Checkers = {k1}
    BuyAmount = 1
    OtherInOrders = 1
    Overlap = FALSE
    MaxOrders = 3
    MaxFaults = 2
INVARIANTS
    NeverOverclosed
    RepeatsBounded
    PreclosedGapsBounded
    LossesBounded
PROPERTIES
    CancelsRefunded
