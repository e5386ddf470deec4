SPECIFICATION Spec
CONSTANTS
    m1 = m1
    m2 = m2
    NoMember = NoMember
    Members = {m1, m2}
    Partitions = {1}
    Records <- TwoOffsets
    Failing = {1}
    MaxFaults <- AllFaults
SYMMETRY Symmetry
INVARIANTS
    TypeOK
    IInv
    CommittedAttempted
    LostFindsConsumer
    ExclusiveWork
    ExitedQuiescent
PROPERTIES
    CommitMonotonic
    CommitStopsAtFirstFailure
    DeliverySpec
CHECK_DEADLOCK FALSE
