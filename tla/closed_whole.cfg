SPECIFICATION Spec
CONSTANTS
    Tasks = {t1}
    Amounts = {1, 2}
    Costs = {1, 3}
    Fees = {0, 1}
    MaxOrders = 2
    MaxTransfers = 1
    MaxFaults = 0
INVARIANTS
    SoldIsClosed
