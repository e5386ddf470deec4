SPECIFICATION FairSpec
CONSTANTS
    m1 = m1
    m2 = m2
    NoMember = NoMember
    Members = {m1}
    Partitions = {1, 2}
    Records <- TwoOffsets
    Failing = {}
    MaxFaults <- DrainFaults
PROPERTIES
    ShutdownUnlessHeld
CHECK_DEADLOCK FALSE
