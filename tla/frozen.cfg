SPECIFICATION Spec
CONSTANTS
    Tasks = {t1}
    Amounts = {1, 2}
    Costs = {1, 3}
    Fees = {0, 1}
    MaxOrders = 2
    MaxTransfers = 1
    MaxFaults = 2
INVARIANTS
    TypeOK
    FrozenAmount
    FrozenCost
