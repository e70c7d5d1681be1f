SPECIFICATION FaultySpec
CONSTANTS
    Accounts = {a1}
    Currencies = {c1, c2}
    Workers = {w1, w2}
    Checkers = {k1}
    Amounts = {0, 1}
    Free = {0, 2}
    SetKey = setKey
    MaxCalls = 3
    MaxFaults = 2
INVARIANTS
    NoDuplicateRow
    GapsBounded
SYMMETRY Symmetry
