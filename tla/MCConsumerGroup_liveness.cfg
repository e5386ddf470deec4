SPECIFICATION FairSpec
CONSTANTS
    m1 = m1
    m2 = m2
    NoMember = NoMember
    Members = {m1, m2}
    Partitions = {1}
    Records <- TwoOffsets
    Failing = {1}
    MaxFaults <- RebalanceFaults
PROPERTIES
    EveryRecordAttempted
    RevocationCompletes
CHECK_DEADLOCK FALSE
