SPECIFICATION Spec
CONSTANTS
    c1 = c1
    c2 = c2
    k1 = k1
    k2 = k2
    a = a
    b = b
    all = all
    AllValues = all
    Nil = Nil
    FilterKeys = {k1, k2}
    Values = {a, b}
    Charges = {c1, c2}
    ChargeFilters = {1, 2, 3}
    ChargeOf <- TwoCharges
    Definitions <- EveryDefinition
    Racing <- ParentAndChild
    MaxChanges = 3
INVARIANTS
    IInv
    MostSpecificMatch
    EachChargeOnce
    MatchedOnEvidence
CHECK_DEADLOCK FALSE
