SPECIFICATION Spec
CONSTANTS
    Tasks = {t1}
    MaxGen = 5
    MaxCancels = 1
    MaxRetries = 0
    MaxCrashes = 0
INVARIANT
    CancellationStopsInstance
CHECK_DEADLOCK FALSE
