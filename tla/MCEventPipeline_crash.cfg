SPECIFICATION PipelineSpec
CONSTANTS
    c1 = c1
    Charges = {c1}
    Records = {1, 2}
    Events <- PoisonEvents
    MaxBatch = 2
    MaxFaults = 1
INVARIANTS
    CommittedAccounted
PROPERTIES
    EveryEventAccounted
    OutcomeSpec
CHECK_DEADLOCK FALSE
