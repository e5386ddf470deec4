SPECIFICATION Spec
CONSTANTS
    c1 = c1
    c2 = c2
    Charges = {c1, c2}
    Records = {1, 2, 3, 4, 5, 6, 7, 8, 9, 10}
    Events <- AllKinds
    MaxBatch = 1
INVARIANTS
    IInv
    ProcessedAccounted
    NothingInFlight
    LeftForRetry
    ReprocessOnlyExpands
PROPERTIES
    CallReturns
CHECK_DEADLOCK FALSE
