SPECIFICATION Spec
CONSTANTS
    s1 = s1
    s2 = s2
    g1 = g1
    g2 = g2
    Values = {s1, s2}
    Callers = {g1, g2}
    BucketDuration = 3
    MaxLatency = 1
    Delay = 2
    Period = 1
    Settle = 1
    Horizon = 10
SYMMETRY Symmetry
INVARIANTS
    IInv
    NoFlagLost
    RefreshedInTime
    MembersBounded
CHECK_DEADLOCK FALSE
