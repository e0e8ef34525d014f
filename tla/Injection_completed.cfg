SPECIFICATION Spec
CONSTANTS
    a = a
    b = b
    Files = {a, b}
    Plans <- MCPlans
    MaxRuns = 1
    MaxAttempts = 2
    MaxFaults = 1
PROPERTY CompletedStays
CHECK_DEADLOCK FALSE
