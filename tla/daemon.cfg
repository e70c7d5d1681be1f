SPECIFICATION Spec
CONSTANTS
    Pairs = {p1}
    Quotes <- MCQuotes
    Limits <- MCLimits
    BuyMargin = 20
    SellMargin = 30
    OrderAmount = 10000
    MinRate = 450
    Lot = 2
    FirstCell = 150
    Total = 25000
    MaxOrders = 2
    Fee = 10
    FeeInBase = TRUE
    Runs = {r1, r2}
    NoRun = NoRun
    MaxOverlaps = 1
    MaxFaults = 1
SYMMETRY MCSymmetry
INVARIANTS
    TypeOK
    StoredWithinMargin
    CellsApart
    OrdersAcceptable
    TransfersBounded
PROPERTIES
    BalanceLasts
