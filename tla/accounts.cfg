SPECIFICATION Spec
CONSTANTS
    Tasks = {t1, t2}
    Keys = {k1, k2}
    Copies <- MCCopies
    Null = Null
SYMMETRY MCSymmetry
INVARIANTS
    TypeOK
    CacheCoherent
PROPERTIES
    OnlySetColumns
    ErrorDisables
