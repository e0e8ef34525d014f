SPECIFICATION AllSpec
CONSTANTS
    Rows = {1, 3}
    Occupied = {3}
    Dispatchers = {d1, d2}
    BatchSize = 2
    Lease = 2
    InitialBackoff = 1
    MaxBackoff = 3
    MaxFailures = 1
    MaxTime = 3
INVARIANTS
    DispatchedWasStarted
PROPERTIES
    SingleImplementsDelivery
    SingleStartsSettle
CHECK_DEADLOCK FALSE
