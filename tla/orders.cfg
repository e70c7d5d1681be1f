SPECIFICATION FairSpec
CONSTANTS
    Buyers = {b1}
    Sellers = {s1}
    Checkers = {k1}
    BuyAmount = 2
    OtherInOrders = 2
    Overlap = FALSE
    MaxOrders = 3
    MaxFaults = 0
INVARIANTS
    TypeOK
    PostedOnce
    NeverOverclosed
    ClosedWhenSold
    NoOversell
    PreclosedExact
    InOrdersExact
PROPERTIES
    FillsSettle
    CancelsRefunded
    ImplementsPositions
