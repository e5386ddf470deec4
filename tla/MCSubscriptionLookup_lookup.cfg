SPECIFICATION Spec
CONSTANTS
    Ids = {1, 2, 3}
    ExternalIds = {"a", "a:b"}
    ColonPrefixes <- Colons
    MaxTime = 4
    Tick = 2
INVARIANTS
    SameAsQuery
CHECK_DEADLOCK FALSE
