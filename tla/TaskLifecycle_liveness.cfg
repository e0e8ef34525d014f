SPECIFICATION FairSpec
CONSTANTS
    Tasks = {t1}
    MaxGen = 12
    MaxCancels = 1
    MaxRetries = 0
    MaxCrashes = 1
PROPERTY
    StartedTaskEnds
CHECK_DEADLOCK FALSE
