\* All maps of three keys under all collisions.
SPECIFICATION Spec
CONSTANTS
    a = a
    b = b
    c = c
    x = x
    y = y
    none = none
    Key <- MCKey
    Val <- MCVal
    Missing = none
    Hashes <- MCHashes
    InitCap = 2
INVARIANTS
    ProbesEnd
    FindIsExact
PROPERTY
    IsOrderedMap
CHECK_DEADLOCK FALSE
