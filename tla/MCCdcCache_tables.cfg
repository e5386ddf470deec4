SPECIFICATION Spec
CONSTANTS
    i1 = i1
    i2 = i2
    i3 = i3
    k1 = k1
    k2 = k2
    Ids = {i1, i2, i3}
    Keys = {k1, k2}
    Tables <- BothTables
    Resolution = 3
    MaxChanges = 5
    MaxRestarts = 1
INVARIANTS
    IInv
    PrefixConsistent
PROPERTIES
    NoDowngrade
    CurrentStays
    EventuallyCurrent
CHECK_DEADLOCK FALSE
