CONSTANTS
    metrics = metrics
    subscriptions = subscriptions
    Tables <- MCTables
    Producers = 4
SPECIFICATION Spec
INVARIANTS
    IInv
    UsedWhileOpen
    WarmBeforeServing
    EndsCleanly
PROPERTIES
    StopsAfterSignal
