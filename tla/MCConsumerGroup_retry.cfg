SPECIFICATION Spec
CONSTANTS
    m1 = m1
    m2 = m2
    NoMember = NoMember
    Members = {m1}
    Partitions = {1}
    Records <- TwoOffsets
    Failing = {1}
    MaxFaults <- RebalanceFaults
INVARIANTS
    CommittedSettled
CHECK_DEADLOCK FALSE
