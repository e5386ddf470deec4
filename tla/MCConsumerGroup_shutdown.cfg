SPECIFICATION FairSpec
CONSTANTS
    m1 = m1
    m2 = m2
    NoMember = NoMember
    Members = {m1}
    Partitions = {1}
    Records <- TwoOffsets
    Failing = {}
    MaxFaults <- ShutdownFaults
PROPERTIES
    ShutdownCompletes
CHECK_DEADLOCK FALSE
