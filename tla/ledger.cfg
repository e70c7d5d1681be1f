SPECIFICATION FairSpec
CONSTANTS
    Accounts = {a1, a2}
    Currencies = {c1}
    Workers = {w1, w2}
    Checkers = {k1, k2}
    Amounts = {0, 1}
    Free = {0, 2}
    SetKey = setKey
    MaxCalls = 3
    MaxFaults = 0
INVARIANTS
    TypeOK
    AvailableIdentity
    NoDuplicateRow
    AuditTrail
PROPERTIES
    CallsReturn
    ImplementsLedger
